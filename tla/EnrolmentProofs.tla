-------------------------- MODULE EnrolmentProofs --------------------------
(* Proofs about Enrolment.  What concerns the header itself holds for any  *)
(* set of commands, running at the same time and interrupted anywhere; who *)
(* is enrolled and can unlock, for commands run one at a time.             *)
EXTENDS Enrolment, WellFoundedInduction, FiniteSetTheorems, TLAPS

USE EnrolmentAssumption

(* What a command remembers. *)
Mem ==
  [tok : Seq(Entry), id : TokenIds \cup {NoTokenId}, free : Slots \cup {NoSlot},
   old : Slots \cup {NoSlot, UnknownSlot}, idx : Int, gone : SUBSET Secrets,
   for : Purposes]

-----------------------------------------------------------------------------
(* The operators the model is built from. *)

(* The least of a set of naturals is one of them. *)
LEMMA LeastIsMember ==
  ASSUME NEW S \in SUBSET Nat, S # {}
  PROVE  Least(S) \in S
<1>1. PICK x \in S : \A y \in S : ~(<<y, x>> \in OpToRel(<, Nat))
  BY NatLessThanWellFounded, WFMin
<1>2. \A y \in S : ~(y < x)
  <2>1. OpToRel(<, Nat) = {ss \in Nat \X Nat : ss[1] < ss[2]}
    BY Zenon DEF OpToRel
  <2>2. QED BY <1>1, <2>1
<1>3. \A y \in S : x <= y
  BY <1>2
<1>4. QED BY <1>3 DEF Least

(* The lowest free keyslot is a free one, and so not the passphrase's. *)
LEMMA LowestFreeIsFree ==
  ASSUME KeysInv
  PROVE  LowestFree \in (Slots \cup {NoSlot}) \ {FirstSlot}
<1> DEFINE free == {n \in Slots : slots[n] = "free"}
<1>1. FirstSlot \notin free
  BY DEF KeysInv, PassphraseAlwaysOpens
<1>2. CASE free = {}
  BY <1>2 DEF LowestFree, NoSlot
<1>3. CASE free # {}
  <2>1. Least(free) \in free
    BY <1>3, LeastIsMember
  <2>2. QED BY <1>1, <1>3, <2>1 DEF LowestFree
<1>4. QED BY <1>2, <1>3

(* The token luksDump finds is one of the tokens, or none. *)
LEMMA SeenTokenIsToken == SeenToken \in TokenIds \cup {NoTokenId}
<1>1. CASE Present = {}
  BY <1>1 DEF SeenToken
<1>2. CASE Present # {}
  <2>1. Least(Present) \in Present
    BY <1>2, LeastIsMember DEF Present
  <2>2. QED BY <1>2, <2>1 DEF SeenToken, Present
<1>3. QED BY <1>1, <1>2

(* Dropping one element of a sequence leaves a sequence of the same set. *)
LEMMA RemoveAtType ==
  ASSUME NEW S, NEW s \in Seq(S), NEW i \in DOMAIN s
  PROVE  RemoveAt(s, i) \in Seq(S)
<1>1. i \in 1 .. Len(s)
  OBVIOUS
<1>2. SubSeq(s, 1, i - 1) \in Seq(S) /\ SubSeq(s, i + 1, Len(s)) \in Seq(S)
  BY <1>1
<1>3. QED BY <1>2 DEF RemoveAt

LEMMA RemoveAtLength ==
  ASSUME NEW S, NEW s \in Seq(S), NEW i \in DOMAIN s
  PROVE  Len(RemoveAt(s, i)) = Len(s) - 1
<1> DEFINE a == SubSeq(s, 1, i - 1)
           b == SubSeq(s, i + 1, Len(s))
<1>1. i \in 1 .. Len(s) /\ Len(s) \in Nat
  OBVIOUS
<1>2. a \in Seq(S) /\ Len(a) = i - 1 /\ b \in Seq(S) /\ Len(b) = Len(s) - i
  BY <1>1
<1> HIDE DEF a, b
<1>3. Len(a \o b) = Len(s) - 1
  BY <1>1, <1>2
<1>4. QED BY <1>3 DEF RemoveAt, a, b

(* The elements of a list without one of them are the others. *)
LEMMA RemoveAtElements ==
  ASSUME NEW S, NEW s \in Seq(S), NEW k \in DOMAIN s
  PROVE  LET r == RemoveAt(s, k)
             from(i) == IF i < k THEN i ELSE i + 1
             to(j) == IF j < k THEN j ELSE j - 1
         IN  /\ \A i \in DOMAIN r : from(i) \in DOMAIN s /\ from(i) # k /\ r[i] = s[from(i)]
             /\ \A j \in DOMAIN s : j # k => to(j) \in DOMAIN r /\ r[to(j)] = s[j]
             /\ \A i, j \in DOMAIN r : from(i) = from(j) => i = j
<1> DEFINE a == SubSeq(s, 1, k - 1)
           b == SubSeq(s, k + 1, Len(s))
<1>1. k \in 1 .. Len(s) /\ Len(s) \in Nat
  OBVIOUS
<1>2. /\ a \in Seq(S) /\ Len(a) = k - 1 /\ \A i \in 1 .. k - 1 : a[i] = s[i]
      /\ b \in Seq(S) /\ Len(b) = Len(s) - k /\ \A i \in 1 .. Len(s) - k : b[i] = s[k + i]
  BY <1>1
<1> HIDE DEF a, b
<1>3. /\ a \o b \in Seq(S) /\ Len(a \o b) = Len(s) - 1
      /\ \A i \in 1 .. Len(s) - 1 : (a \o b)[i] = s[IF i < k THEN i ELSE i + 1]
  BY <1>1, <1>2
<1>4. PICK r : r = a \o b
  OBVIOUS
<1>5. /\ DOMAIN r = 1 .. Len(s) - 1 /\ DOMAIN s = 1 .. Len(s)
      /\ \A i \in 1 .. Len(s) - 1 : r[i] = s[IF i < k THEN i ELSE i + 1]
  <2>1. r \in Seq(S) /\ Len(r) = Len(s) - 1
    BY <1>3, <1>4
  <2>2. DOMAIN r = 1 .. Len(r) /\ DOMAIN s = 1 .. Len(s)
    BY <2>1
  <2>3. QED BY <1>3, <1>4, <2>1, <2>2
<1>6. /\ \A i \in DOMAIN r : LET f == IF i < k THEN i ELSE i + 1
                             IN  f \in DOMAIN s /\ f # k /\ r[i] = s[f]
      /\ \A j \in DOMAIN s : j # k => LET g == IF j < k THEN j ELSE j - 1
                                      IN  g \in DOMAIN r /\ r[g] = s[j]
      /\ \A i, j \in DOMAIN r : (IF i < k THEN i ELSE i + 1) = (IF j < k THEN j ELSE j + 1)
                                => i = j
  BY <1>1, <1>5
<1>7. RemoveAt(s, k) = r
  BY <1>4 DEF RemoveAt, a, b
<1>8. QED BY <1>6, <1>7

(* A sequence over a set is one over any larger set. *)
LEMMA SeqGrows ==
  ASSUME NEW S, NEW T, S \subseteq T, NEW s \in Seq(S)
  PROVE  s \in Seq(T)
  OBVIOUS

-----------------------------------------------------------------------------
(* What a step of one command does to it, and to nobody else. *)

Alone(c) ==
  /\ cmd' = cmd
  /\ \A d \in Commands \ {c} : pc'[d] = pc[d] /\ mem'[d] = mem[d]

Halts(c) == pc'[c] \in Ended /\ mem'[c] = mem[c]
Fails(c) == pc'[c] = "failed" /\ mem'[c] = mem[c]

(* It turns to the header again. *)
Turns(c, purpose, old) ==
  /\ pc'[c] = "dump"
  /\ mem'[c].for = purpose /\ mem'[c].old = old
  /\ mem'[c].tok = mem[c].tok /\ mem'[c].gone = mem[c].gone

(* It goes on with the list it has read. *)
Takes(c, step, entries) ==
  /\ pc'[c] = step /\ mem'[c].tok = entries
  /\ mem'[c].for = mem[c].for /\ mem'[c].old = mem[c].old
  /\ mem'[c].id = mem[c].id /\ mem'[c].gone = mem[c].gone /\ mem'[c].free = mem[c].free

LEMMA ReadsTurns ==
  ASSUME KeysInv, NEW c \in Commands, NEW purpose, NEW old,
         Reads(c, purpose, old), cmd' = cmd
  PROVE  Alone(c) /\ Turns(c, purpose, old)
<1> DEFINE m == [mem[c] EXCEPT !.for = purpose, !.old = old]
<1>1. pc \in [Commands -> {"new"} \cup Running \cup Ended] /\ mem \in [Commands -> Mem]
  BY DEF KeysInv, MainTypeOK, Mem
<1>2. mem[c] \in Mem
  BY <1>1
<1>3. m.for = purpose /\ m.old = old /\ m.tok = mem[c].tok /\ m.gone = mem[c].gone
  BY <1>2 DEF Mem
<1>4. mem' = [mem EXCEPT ![c] = m] /\ pc' = [pc EXCEPT ![c] = "dump"]
  BY DEF Reads, Goto
<1> HIDE DEF m
<1>5. QED BY <1>1, <1>3, <1>4 DEF Alone, Turns

LEMMA EndsHalts ==
  ASSUME KeysInv, NEW c \in Commands, NEW how \in Ended,
         Ends(c, how), UNCHANGED <<cmd, mem>>
  PROVE  Alone(c) /\ Halts(c) /\ pc'[c] = how
<1>1. pc \in [Commands -> {"new"} \cup Running \cup Ended]
  BY DEF KeysInv, MainTypeOK
<1>2. QED BY <1>1 DEF Ends, Alone, Halts

LEMMA GoesOnWith ==
  ASSUME KeysInv, NEW c \in Commands, NEW step, NEW entries, NEW i,
         Goto(c, step), cmd' = cmd,
         mem' = [mem EXCEPT ![c].tok = entries, ![c].idx = i]
  PROVE  Alone(c) /\ Takes(c, step, entries) /\ mem'[c].idx = i
<1> DEFINE m == [mem[c] EXCEPT !.tok = entries, !.idx = i]
<1>1. pc \in [Commands -> {"new"} \cup Running \cup Ended] /\ mem \in [Commands -> Mem]
  BY DEF KeysInv, MainTypeOK, Mem
<1>2. mem[c] \in Mem
  BY <1>1
<1>3. /\ m.tok = entries /\ m.idx = i /\ m.for = mem[c].for /\ m.old = mem[c].old
      /\ m.id = mem[c].id /\ m.gone = mem[c].gone /\ m.free = mem[c].free
  BY <1>2 DEF Mem
<1>4. mem' = [mem EXCEPT ![c] = m] /\ pc' = [pc EXCEPT ![c] = step]
  BY DEF Goto
<1> HIDE DEF m
<1>5. QED BY <1>1, <1>3, <1>4 DEF Alone, Takes

-----------------------------------------------------------------------------
(* Steps that add no key. *)

(* A secret that is in no keyslot now, and will not be added, stays out.   *)
Lost(p) == (\A n \in Slots : slots[n] # p) /\ (p \in Commands => ~NotAdded(p))

(* A step that at most empties keyslots keeps the invariant if what the    *)
(* command writes and remembers is sound, what it counts as gone is lost,  *)
(* and it does not go back to before its own luksAddKey.                   *)
LEMMA StepAddingNoKey ==
  ASSUME KeysInv, NEW c \in Commands,
         \A n \in Slots : slots'[n] \in {slots[n], "free"},
         slots' \in [Slots -> {"free", "passphrase"} \cup Secrets],
         slots'[FirstSlot] = "passphrase",
         tokens' \in [TokenIds -> [present : BOOLEAN, entries : Seq(Entry)]],
         \A t \in TokenIds : tokens'[t].entries \in Seq(Sound),
         cmd' = cmd, revoked' \subseteq Gone, gapped' \in BOOLEAN,
         pc' \in [Commands -> {"new"} \cup Running \cup Ended],
         mem' \in [Commands -> Mem],
         \A d \in Commands \ {c} : pc'[d] = pc[d] /\ mem'[d] = mem[d],
         mem'[c].tok \in Seq(Sound), mem'[c].free # FirstSlot,
         \A p \in mem'[c].gone : p \in Gone \/ Lost(p)',
         pc'[c] = "addKey" => mem'[c].free \in Slots,
         pc'[c] = "killSlot" => mem'[c].idx \in DOMAIN mem'[c].tok,
         NotAdded(c)' => NotAdded(c)
  PROVE  KeysInv'
<1>1. pc \in [Commands -> {"new"} \cup Running \cup Ended] /\ mem \in [Commands -> Mem]
  BY DEF KeysInv, MainTypeOK, Mem
<1>2. /\ pc' \in [Commands -> {"new"} \cup Running \cup Ended]
      /\ mem' \in [Commands -> Mem]
      /\ \A d \in Commands \ {c} : pc'[d] = pc[d] /\ mem'[d] = mem[d]
  OBVIOUS
<1>3. \A d \in Commands : NotAdded(d)' => NotAdded(d)
  BY <1>2 DEF NotAdded
<1>4. \A p \in Secrets : p # "free"
  BY DEF Secrets
<1>5. Sound \subseteq Sound'
  BY <1>3, <1>4 DEF Sound, Entry
<1>6. Gone \subseteq Secrets
  BY <1>1 DEF KeysInv, MainTypeOK, Gone, Mem
<1>7. \A p \in Gone : Lost(p)'
  BY <1>3, <1>4, <1>6 DEF KeysInv, Lost
<1>8. \A p \in Gone' : Lost(p)'
  <2>1. \A p \in Gone' : p \in Gone \/ p \in mem'[c].gone
    BY <1>2 DEF Gone
  <2>2. QED BY <1>7, <2>1
<1>9. MainTypeOK'
  <2>1. \A d \in Commands : pc'[d] = "killSlot" => mem'[d].idx \in DOMAIN mem'[d].tok
    BY <1>2 DEF KeysInv, MainTypeOK
  <2>2. cmd' \in [Commands -> Arguments] /\ revoked' \subseteq Secrets
    BY <1>6 DEF KeysInv, MainTypeOK
  <2>3. QED BY <1>2, <2>1, <2>2 DEF MainTypeOK, Mem
<1>10. PassphraseAlwaysOpens'
  BY DEF PassphraseAlwaysOpens
<1>11. \A t \in TokenIds : tokens'[t].entries \in Seq(Sound')
  BY <1>5, SeqGrows
<1>12. ASSUME NEW d \in Commands
       PROVE  /\ mem'[d].tok \in Seq(Sound')
              /\ mem'[d].free # FirstSlot
              /\ pc'[d] = "addKey" => mem'[d].free \in Slots
              /\ NotAdded(d)' => \A n \in Slots : slots'[n] # d
  <2>1. mem'[d].tok \in Seq(Sound)
    BY <1>2 DEF KeysInv
  <2>2. mem'[d].tok \in Seq(Sound')
    BY <1>5, <2>1, SeqGrows
  <2>3. QED BY <1>2, <1>3, <1>4, <2>2 DEF KeysInv, Secrets
<1>13. \A p \in Secrets : p \in Gone' => /\ \A n \in Slots : slots'[n] # p
                                         /\ p \in Commands => ~NotAdded(p)'
  BY <1>8 DEF Lost
<1>14. QED BY <1>9, <1>10, <1>11, <1>12, <1>13 DEF KeysInv

(* A step that leaves the header alone is a case of it. *)
LEMMA ReadingStep ==
  ASSUME KeysInv, NEW c \in Commands,
         UNCHANGED <<slots, tokens, cmd, revoked>>, gapped' \in BOOLEAN,
         NEW step \in {"new"} \cup Running \cup Ended, pc' = [pc EXCEPT ![c] = step],
         NEW m \in Mem, mem' = [mem EXCEPT ![c] = m],
         m.tok \in Seq(Sound), m.gone = mem[c].gone, m.free # FirstSlot,
         step = "addKey" => m.free \in Slots,
         step = "killSlot" => m.idx \in DOMAIN m.tok,
         NotAdded(c)' => NotAdded(c)
  PROVE  KeysInv'
<1>1. /\ slots' \in [Slots -> {"free", "passphrase"} \cup Secrets]
      /\ slots'[FirstSlot] = "passphrase"
      /\ tokens' \in [TokenIds -> [present : BOOLEAN, entries : Seq(Entry)]]
      /\ \A t \in TokenIds : tokens'[t].entries \in Seq(Sound)
  BY DEF KeysInv, MainTypeOK, PassphraseAlwaysOpens
<1>2. \A n \in Slots : slots'[n] \in {slots[n], "free"}
  OBVIOUS
<1>3. revoked' \subseteq Gone /\ m.gone \subseteq Gone
  BY DEF Gone
<1>4. /\ pc' \in [Commands -> {"new"} \cup Running \cup Ended] /\ pc'[c] = step
      /\ mem' \in [Commands -> Mem] /\ mem'[c] = m
      /\ \A d \in Commands \ {c} : pc'[d] = pc[d] /\ mem'[d] = mem[d]
  BY DEF KeysInv, MainTypeOK, Mem
<1>5. QED BY <1>1, <1>2, <1>3, <1>4, StepAddingNoKey

(* Turning to read the header again is such a step. *)
LEMMA ReadsStep ==
  ASSUME KeysInv, NEW c \in Commands,
         NEW purpose \in Purposes, NEW old \in Slots \cup {NoSlot, UnknownSlot},
         Reads(c, purpose, old),
         UNCHANGED <<slots, tokens, cmd, revoked, gapped>>,
         purpose # "reload" => NotAdded(c)
  PROVE  KeysInv'
<1> DEFINE m == [mem[c] EXCEPT !.for = purpose, !.old = old]
<1>1. mem[c] \in Mem /\ mem[c].tok \in Seq(Sound) /\ mem[c].free # FirstSlot
  BY DEF KeysInv, MainTypeOK, Mem
<1>2. /\ m \in Mem
      /\ m.tok = mem[c].tok /\ m.gone = mem[c].gone /\ m.free = mem[c].free
      /\ m.for = purpose
  BY <1>1 DEF Mem
<1>3. pc' = [pc EXCEPT ![c] = "dump"] /\ mem' = [mem EXCEPT ![c] = m]
  BY DEF Reads, Goto
<1>4. pc'[c] = "dump" /\ mem'[c] = m
  BY <1>3 DEF KeysInv, MainTypeOK
<1>5. NotAdded(c)' => NotAdded(c)
  BY <1>2, <1>4 DEF NotAdded
<1>6. gapped' \in BOOLEAN /\ "dump" \in {"new"} \cup Running \cup Ended
  BY DEF KeysInv, MainTypeOK, Running
<1> HIDE DEF m
<1>7. QED BY <1>1, <1>2, <1>3, <1>5, <1>6, ReadingStep

(* Ending without having changed the header is another. *)
LEMMA EndsStep ==
  ASSUME KeysInv, NEW c \in Commands, NEW how \in Ended, Ends(c, how),
         UNCHANGED <<slots, tokens, cmd, mem, revoked>>, gapped' \in BOOLEAN
  PROVE  KeysInv'
<1>1. /\ mem[c] \in Mem /\ mem[c].tok \in Seq(Sound) /\ mem[c].free # FirstSlot
      /\ mem' = [mem EXCEPT ![c] = mem[c]]
  BY DEF KeysInv, MainTypeOK, Mem
<1>2. /\ pc' = [pc EXCEPT ![c] = how] /\ how \in {"new"} \cup Running \cup Ended
      /\ how \notin {"addKey", "killSlot"}
  BY DEF Ends, Ended
<1>3. ~NotAdded(c)'
  BY <1>2 DEF KeysInv, MainTypeOK, NotAdded, Ended
<1>4. QED BY <1>1, <1>2, <1>3, ReadingStep

(* Going on with a token just read: its entries are sound. *)
LEMMA TakesToken ==
  ASSUME KeysInv, NEW c \in Commands, NEW entries \in Seq(Sound),
         NEW i \in Int, NEW step \in {"addKey", "killSlot"}, Goto(c, step),
         mem' = [mem EXCEPT ![c] = [@ EXCEPT !.tok = entries, !.idx = i]],
         step = "addKey" => mem[c].free # NoSlot /\ NotAdded(c),
         step = "killSlot" => i \in DOMAIN entries,
         UNCHANGED <<slots, tokens, cmd, revoked, gapped>>
  PROVE  KeysInv'
<1> DEFINE m == [mem[c] EXCEPT !.tok = entries, !.idx = i]
<1>1. mem[c] \in Mem /\ mem[c].free # FirstSlot
  BY DEF KeysInv, MainTypeOK, Mem
<1>2. entries \in Seq(Entry)
  BY SeqGrows DEF Sound
<1>3. /\ m \in Mem
      /\ m.tok = entries /\ m.idx = i /\ m.gone = mem[c].gone /\ m.free = mem[c].free
  BY <1>1, <1>2 DEF Mem
<1>4. pc' = [pc EXCEPT ![c] = step] /\ mem' = [mem EXCEPT ![c] = m]
  BY DEF Goto, KeysInv, MainTypeOK
<1>5. pc'[c] = step
  BY <1>4 DEF KeysInv, MainTypeOK
<1>6. NotAdded(c)' => NotAdded(c)
  BY <1>5 DEF NotAdded
<1>7. step = "addKey" => m.free \in Slots
  BY <1>1, <1>3 DEF Mem
<1>8. gapped' \in BOOLEAN /\ step \in {"new"} \cup Running \cup Ended
  BY DEF KeysInv, MainTypeOK, Running
<1> HIDE DEF m
<1>9. QED BY <1>1, <1>3, <1>4, <1>6, <1>7, <1>8, ReadingStep

(* The entries of a sound list name keyslots of the volume. *)
LEMMA EntrySlots ==
  ASSUME NEW entries \in Seq(Sound), NEW i \in DOMAIN entries
  PROVE  entries[i] \in Entry /\ entries[i].slot \in Slots /\ i \in Int
<1>1. entries[i] \in Sound
  OBVIOUS
<1>2. QED BY <1>1 DEF Sound, Entry

(* The entry that a removal or a replacement acts on. *)
LEMMA LoadChoice ==
  ASSUME NEW c, NEW entries \in Seq(Sound), NEW list \in Seq(Slots),
         Paired(entries, list), AfterLoad(c, entries, list)
  PROVE  \/ Ends(c, "refused") /\ UNCHANGED <<mem, copied>>
         \/ \E i \in Matching(entries, cmd[c].id) :
              /\ i \in DOMAIN entries /\ Intact(entries, list)
              /\ \/ cmd[c].kind = "remove" /\ Removes(c, entries, list, i)
                 \/ /\ cmd[c].kind # "remove" /\ UNCHANGED copied
                    /\ Reads(c, "base", entries[i].slot)
<1> DEFINE chosen(n) == {i \in Selected(entries, list, cmd[c].id, n) : Intact(entries, list)}
<1>1. PICK n \in KeyslotGiven(c) :
        \/ chosen(n) = {} /\ Ends(c, "refused") /\ UNCHANGED <<mem, copied>>
        \/ \E i \in chosen(n) :
             \/ cmd[c].kind = "remove" /\ Removes(c, entries, list, i)
             \/ cmd[c].kind # "remove" /\ Reads(c, "base", list[i]) /\ UNCHANGED copied
  BY DEF AfterLoad
<1>2. CASE Ends(c, "refused") /\ UNCHANGED <<mem, copied>>
  BY <1>2
<1>3. ASSUME NEW i \in chosen(n),
             \/ cmd[c].kind = "remove" /\ Removes(c, entries, list, i)
             \/ cmd[c].kind # "remove" /\ Reads(c, "base", list[i]) /\ UNCHANGED copied
      PROVE  \E j \in Matching(entries, cmd[c].id) :
              /\ j \in DOMAIN entries /\ Intact(entries, list)
              /\ \/ cmd[c].kind = "remove" /\ Removes(c, entries, list, j)
                 \/ /\ cmd[c].kind # "remove" /\ UNCHANGED copied
                    /\ Reads(c, "base", entries[j].slot)
  <2>1. i \in Matching(entries, cmd[c].id) /\ Intact(entries, list)
    BY DEF Selected, FirstOf
  <2>2. i \in DOMAIN entries
    BY <2>1 DEF Matching
  <2>3. i \in DOMAIN list
    BY <2>1, <2>2 DEF Intact
  <2>4. list[i] = entries[i].slot
    BY <2>1, <2>3 DEF Paired
  <2>5. QED BY <1>3, <2>1, <2>2, <2>4
<1>4. QED BY <1>1, <1>2, <1>3

(* The old entry of a replacement, found again by its keyslot. *)
LEMMA ReloadChoice ==
  ASSUME NEW c, NEW entries \in Seq(Sound), NEW list \in Seq(Slots),
         Paired(entries, list), AfterReload(c, entries, list)
  PROVE  \/ Ends(c, "failed") /\ UNCHANGED <<mem, copied>>
         \/ \E i \in DOMAIN entries :
              /\ entries[i].slot = mem[c].old /\ Intact(entries, list)
              /\ Removes(c, entries, list, i)
<1> DEFINE old == {i \in FirstOf({i \in DOMAIN list : list[i] = mem[c].old}) :
                     Intact(entries, list)}
<1>1. ASSUME NEW i \in old
      PROVE  i \in DOMAIN entries /\ entries[i].slot = mem[c].old /\ Intact(entries, list)
  <2>1. i \in DOMAIN list /\ list[i] = mem[c].old /\ Intact(entries, list)
    BY DEF FirstOf
  <2>2. QED BY <2>1 DEF Paired, Intact
<1>2. QED BY <1>1 DEF AfterReload

(* What follows on a read of the header, whichever read it was. *)
LEMMA AfterPlanStep ==
  ASSUME KeysInv, NEW c \in Commands,
         NEW entries \in Seq(Sound), NEW list \in Seq(Slots),
         NotAdded(c), AfterPlan(c, entries, list),
         UNCHANGED <<slots, tokens, cmd, revoked, gapped>>
  PROVE  KeysInv'
<1> DEFINE same == Matching(entries, cmd[c].newId)
<1>1. \A i \in same : KeyslotOf(list, i) \in Slots \cup {NoSlot, UnknownSlot}
  BY DEF KeyslotOf
<1>2. CASE Reads(c, "base", NoSlot)
  BY <1>2, ReadsStep DEF Purposes
<1>3. CASE \E i \in same : Reads(c, "load", KeyslotOf(list, i))
  BY <1>1, <1>3, ReadsStep DEF Purposes
<1>4. CASE \E how \in {"already", "refused"} : Ends(c, how) /\ UNCHANGED mem
  BY <1>4, EndsStep DEF Ended, KeysInv, MainTypeOK
<1>5. QED BY <1>2, <1>3, <1>4 DEF AfterPlan

(* The copies that a removal takes. *)
LEMMA RemovesStep ==
  ASSUME KeysInv, NEW c \in Commands,
         NEW entries \in Seq(Sound), NEW list, NEW i \in DOMAIN entries,
         Removes(c, entries, list, i),
         UNCHANGED <<slots, tokens, cmd, revoked, gapped>>
  PROVE  KeysInv'
<1>1. i \in Int
  BY EntrySlots
<1>2. mem' = [mem EXCEPT ![c] = [@ EXCEPT !.tok = entries, !.idx = i]]
  BY DEF Removes, KeysInv, MainTypeOK
<1>3. QED BY <1>1, <1>2, TakesToken DEF Removes

LEMMA AfterLoadStep ==
  ASSUME KeysInv, NEW c \in Commands,
         NEW entries \in Seq(Sound), NEW list \in Seq(Slots), Paired(entries, list),
         NotAdded(c), AfterLoad(c, entries, list),
         UNCHANGED <<slots, tokens, cmd, revoked, gapped>>
  PROVE  KeysInv'
<1>1. CASE Ends(c, "refused") /\ UNCHANGED <<mem, copied>>
  BY <1>1, EndsStep DEF Ended, KeysInv, MainTypeOK
<1>2. CASE \E i \in DOMAIN entries : Removes(c, entries, list, i)
  BY <1>2, RemovesStep
<1>3. CASE \E i \in DOMAIN entries : Reads(c, "base", entries[i].slot)
  BY <1>3, ReadsStep, EntrySlots DEF Purposes
<1>4. QED BY <1>1, <1>2, <1>3, LoadChoice

LEMMA AfterBaseStep ==
  ASSUME KeysInv, NEW c \in Commands, NEW entries \in Seq(Sound), NEW list,
         NotAdded(c), AfterBase(c, entries, list),
         UNCHANGED <<slots, tokens, cmd, revoked, gapped>>
  PROVE  KeysInv'
<1>1. CASE Ends(c, "refused") /\ UNCHANGED <<mem, copied>>
  BY <1>1, EndsStep DEF Ended, KeysInv, MainTypeOK
<1>2. CASE /\ mem[c].free # NoSlot /\ Goto(c, "addKey")
           /\ mem' = [mem EXCEPT ![c].tok = entries]
  <2>1. mem[c].idx \in Int
    BY DEF KeysInv, MainTypeOK
  <2>2. ASSUME NEW m \in Mem
        PROVE  [m EXCEPT !.tok = entries] = [m EXCEPT !.tok = entries, !.idx = m.idx]
    BY DEF Mem
  <2>3. mem[c] \in Mem /\ mem' = [mem EXCEPT ![c] = [mem[c] EXCEPT !.tok = entries]]
    BY <1>2 DEF KeysInv, MainTypeOK, Mem
  <2>4. mem' = [mem EXCEPT ![c] = [@ EXCEPT !.tok = entries, !.idx = mem[c].idx]]
    BY <2>2, <2>3
  <2>5. QED BY <1>2, <2>1, <2>4, TakesToken
<1>3. QED BY <1>1, <1>2 DEF AfterBase

LEMMA AfterReloadStep ==
  ASSUME KeysInv, NEW c \in Commands,
         NEW entries \in Seq(Sound), NEW list \in Seq(Slots), Paired(entries, list),
         AfterReload(c, entries, list),
         UNCHANGED <<slots, tokens, cmd, revoked, gapped>>
  PROVE  KeysInv'
<1>1. CASE Ends(c, "failed") /\ UNCHANGED <<mem, copied>>
  BY <1>1, EndsStep DEF Ended, KeysInv, MainTypeOK
<1>2. CASE \E i \in DOMAIN entries : Removes(c, entries, list, i)
  BY <1>2, RemovesStep
<1>3. QED BY <1>1, <1>2, ReloadChoice

(* The reading actions. *)
LEMMA StartStep ==
  ASSUME KeysInv, NEW c \in Commands, Start(c)
  PROVE  KeysInv'
<1>1. NotAdded(c)
  BY DEF Start, NotAdded
<1>2. cmd[c].kind \in AllKinds
  BY DEF KeysInv, MainTypeOK, Arguments
<1>3. PICK purpose \in {"plan", "base", "load"} : Reads(c, purpose, NoSlot)
  BY <1>2 DEF Start, AllKinds
<1>4. QED BY <1>1, <1>3, ReadsStep DEF Purposes, Start, header

LEMMA DumpStep ==
  ASSUME KeysInv, NEW c \in Commands, Dump(c)
  PROVE  KeysInv'
<1> DEFINE m == [mem[c] EXCEPT !.id = SeenToken, !.free = LowestFree]
<1>1. mem[c] \in Mem /\ mem[c].tok \in Seq(Sound)
  BY DEF KeysInv, MainTypeOK, Mem
<1>2. /\ m \in Mem /\ m.free # FirstSlot
      /\ m.tok = mem[c].tok /\ m.gone = mem[c].gone /\ m.for = mem[c].for
  BY <1>1, LowestFreeIsFree, SeenTokenIsToken DEF Mem
<1>3. /\ pc' = [pc EXCEPT ![c] = "export"] /\ mem' = [mem EXCEPT ![c] = m]
      /\ UNCHANGED <<slots, tokens, cmd, revoked>>
  BY DEF Dump, Goto, KeysInv, MainTypeOK, header
<1>4. pc'[c] = "export" /\ mem'[c] = m /\ pc[c] = "dump"
  BY <1>3 DEF KeysInv, MainTypeOK, Dump
<1>5. NotAdded(c)' => NotAdded(c)
  BY <1>2, <1>4 DEF NotAdded
<1>6. gapped' \in BOOLEAN /\ "export" \in {"new"} \cup Running \cup Ended
  BY DEF KeysInv, MainTypeOK, Running, Dump
<1> HIDE DEF m
<1>7. QED BY <1>1, <1>2, <1>3, <1>5, <1>6, ReadingStep

LEMMA NoTokenFoundStep ==
  ASSUME KeysInv, NEW c \in Commands, NoTokenFound(c)
  PROVE  KeysInv'
<1>1. /\ <<>> \in Seq(Sound) /\ <<>> \in Seq(Slots)
      /\ UNCHANGED <<slots, tokens, cmd, revoked, gapped>>
  BY DEF NoTokenFound, header
<1>2. mem[c].for \in {"plan", "base"} => NotAdded(c)
  BY DEF NoTokenFound, NotAdded
<1>3. CASE mem[c].for = "plan" /\ AfterPlan(c, <<>>, <<>>)
  BY <1>1, <1>2, <1>3, AfterPlanStep
<1>4. CASE mem[c].for = "base" /\ AfterBase(c, <<>>, <<>>)
  BY <1>1, <1>2, <1>4, AfterBaseStep
<1>5. CASE \E how \in {"refused", "failed"} : Ends(c, how) /\ UNCHANGED mem
  BY <1>1, <1>5, EndsStep DEF Ended, KeysInv, MainTypeOK
<1>6. QED BY <1>3, <1>4, <1>5 DEF NoTokenFound

LEMMA ExportStep ==
  ASSUME HeaderInv, NEW c \in Commands, Export(c)
  PROVE  KeysInv'
<1> DEFINE entries == tokens[mem[c].id].entries
           list == keyslots[mem[c].id]
<1>0. KeysInv
  BY DEF HeaderInv
<1>1. mem[c].id \in TokenIds
  BY <1>0 DEF KeysInv, MainTypeOK, Export
<1>2. /\ entries \in Seq(Sound) /\ list \in Seq(Slots) /\ Paired(entries, list)
      /\ UNCHANGED <<slots, tokens, cmd, revoked, gapped>>
  BY <1>0, <1>1 DEF KeysInv, HeaderInv, PairedInv, ListTypeOK, Export, header
<1>3. mem[c].for \in {"plan", "load", "base"} => NotAdded(c)
  BY DEF Export, NotAdded
<1> HIDE DEF entries, list
<1>4. CASE Ends(c, "failed") /\ UNCHANGED mem
  BY <1>0, <1>2, <1>4, EndsStep DEF Ended, KeysInv, MainTypeOK
<1>5. CASE mem[c].for = "plan" /\ AfterPlan(c, entries, list)
  BY <1>0, <1>2, <1>3, <1>5, AfterPlanStep
<1>6. CASE mem[c].for = "load" /\ AfterLoad(c, entries, list)
  BY <1>0, <1>2, <1>3, <1>6, AfterLoadStep
<1>7. CASE mem[c].for = "base" /\ AfterBase(c, entries, list)
  BY <1>0, <1>2, <1>3, <1>7, AfterBaseStep
<1>8. CASE mem[c].for = "reload" /\ AfterReload(c, entries, list)
  BY <1>0, <1>2, <1>8, AfterReloadStep
<1>9. QED BY <1>4, <1>5, <1>6, <1>7, <1>8 DEF Export, entries, list

LEMMA InterruptStep ==
  ASSUME KeysInv, NEW c \in Commands, Interrupt(c)
  PROVE  KeysInv'
<1>1. gapped' \in BOOLEAN
  BY DEF KeysInv, MainTypeOK, Interrupt
<1>2. QED BY <1>1, EndsStep DEF Interrupt, Ended, header

-----------------------------------------------------------------------------
(* Steps that write the header. *)

(* The keyslot a removal is about to destroy is that of the entry it chose. *)
LEMMA KillsOwnEntry ==
  ASSUME HeaderInv, NEW c \in Commands, pc[c] = "killSlot"
  PROVE  /\ copied[c][mem[c].idx] = mem[c].tok[mem[c].idx].slot
         /\ mem[c].idx \in DOMAIN mem[c].tok /\ mem[c].idx \in DOMAIN copied[c]
<1>1. mem[c].idx \in DOMAIN mem[c].tok /\ mem[c].tok \in Seq(Entry)
  BY DEF HeaderInv, KeysInv, MainTypeOK
<1>2. copied[c] \in Seq(Slots) /\ Paired(mem[c].tok, copied[c]) /\ Intact(mem[c].tok, copied[c])
  BY DEF HeaderInv, PairedInv, ListTypeOK
<1>3. mem[c].idx \in DOMAIN copied[c]
  BY <1>1, <1>2 DEF Intact
<1>4. QED BY <1>1, <1>2, <1>3 DEF Paired

(* luksKillSlot empties the keyslot of a sound entry: not the passphrase's *)
(* and the only one of its secret, which is lost with it.                  *)
LEMMA KillSlotStep ==
  ASSUME HeaderInv, NEW c \in Commands, KillSlot(c)
  PROVE  KeysInv'
<1> DEFINE e == mem[c].tok[mem[c].idx]
           rest == RemoveAt(mem[c].tok, mem[c].idx)
           m == [mem[c] EXCEPT !.tok = rest, !.gone = {e.p}]
<1>0. KeysInv
  BY DEF HeaderInv
<1>1. /\ mem[c] \in Mem /\ mem[c].tok \in Seq(Sound) /\ mem[c].free # FirstSlot
      /\ mem[c].idx \in DOMAIN mem[c].tok
  BY <1>0 DEF KeysInv, MainTypeOK, Mem, KillSlot
<1>2. e \in Sound
  BY <1>1
<1>3. rest \in Seq(Sound) /\ rest \in Seq(Entry)
  BY <1>1, RemoveAtType, SeqGrows DEF Sound
<1>4. UNCHANGED <<tokens, cmd, revoked, gapped>> /\ copied[c][mem[c].idx] = e.slot
  BY KillsOwnEntry DEF KillSlot
<1> HIDE DEF e, rest
<1>5. CASE slots[e.slot] = "free" /\ Ends(c, "failed") /\ UNCHANGED <<slots, mem>>
  BY <1>0, <1>4, <1>5, EndsStep DEF Ended, KeysInv, MainTypeOK
<1>6. CASE /\ slots' = [slots EXCEPT ![e.slot] = "free"]
           /\ mem' = [mem EXCEPT ![c].tok = rest, ![c].gone = {e.p}]
           /\ Goto(c, "tokenRemove")
  <2>1. e.slot \in Slots /\ e.slot # FirstSlot /\ e.p \in Secrets /\ e.p # "free"
    BY <1>2 DEF Sound, Entry, Secrets
  <2>2. /\ m \in Mem
        /\ m.tok = rest /\ m.gone = {e.p} /\ m.free = mem[c].free
    BY <1>1, <1>3, <2>1 DEF Mem
  <2>3. mem' = [mem EXCEPT ![c] = m]
    BY <1>0, <1>6 DEF KeysInv, MainTypeOK
  <2>4. pc' = [pc EXCEPT ![c] = "tokenRemove"] /\ "tokenRemove" \in Running
    BY <1>6 DEF Goto, Running
  <2>5. pc'[c] = "tokenRemove"
    BY <1>0, <2>4 DEF KeysInv, MainTypeOK
  <2>6. ~NotAdded(c)' /\ pc[c] = "killSlot"
    BY <2>5 DEF NotAdded, KillSlot
  <2>7. /\ slots' \in [Slots -> {"free", "passphrase"} \cup Secrets]
        /\ \A n \in Slots : slots'[n] \in {slots[n], "free"}
        /\ slots'[FirstSlot] = "passphrase"
        /\ slots'[e.slot] = "free" /\ \A n \in Slots \ {e.slot} : slots'[n] = slots[n]
    BY <1>0, <1>6, <2>1 DEF KeysInv, MainTypeOK, PassphraseAlwaysOpens
  <2>8. ASSUME NEW p \in Secrets, p = e.p
        PROVE  Lost(p)'
    <3>1. \A n \in Slots : slots'[n] # p
      BY <1>2, <2>1, <2>7, <2>8 DEF Sound
    <3>2. p \in Commands => ~NotAdded(p)
      BY <1>2, <2>8 DEF Sound
    <3>3. p \in Commands => \/ pc'[p] = pc[p] /\ mem'[p] = mem[p]
                            \/ p = c
      BY <1>0, <2>3, <2>4 DEF KeysInv, MainTypeOK
    <3>4. p \in Commands => ~NotAdded(p)'
      BY <2>5, <3>2, <3>3 DEF NotAdded
    <3>5. QED BY <3>1, <3>4 DEF Lost
  <2>9. /\ tokens' \in [TokenIds -> [present : BOOLEAN, entries : Seq(Entry)]]
        /\ \A t \in TokenIds : tokens'[t].entries \in Seq(Sound)
        /\ gapped' \in BOOLEAN /\ revoked' \subseteq Gone
    BY <1>0, <1>4 DEF KeysInv, MainTypeOK, Gone
  <2>10. /\ pc' \in [Commands -> {"new"} \cup Running \cup Ended]
         /\ mem' \in [Commands -> Mem] /\ mem'[c] = m
         /\ \A d \in Commands \ {c} : pc'[d] = pc[d] /\ mem'[d] = mem[d]
    BY <1>0, <2>2, <2>3, <2>4 DEF KeysInv, MainTypeOK, Mem
  <2>11. \A p \in mem'[c].gone : p \in Gone \/ Lost(p)'
    BY <2>1, <2>2, <2>8, <2>10
  <2> HIDE DEF m
  <2>12. mem'[c].tok \in Seq(Sound) /\ mem'[c].free # FirstSlot
    BY <1>1, <1>3, <2>2, <2>10
  <2>13. QED BY <1>0, <1>4, <2>5, <2>6, <2>7, <2>9, <2>10, <2>11, <2>12, StepAddingNoKey
<1>7. QED BY <1>4, <1>5, <1>6 DEF KillSlot, KillsSlot, e, rest

(* token remove leaves one token fewer. *)
LEMMA TokenRemoveStep ==
  ASSUME KeysInv, NEW c \in Commands, TokenRemove(c)
  PROVE  KeysInv'
<1> DEFINE t == mem[c].id
<1>1. UNCHANGED <<slots, cmd, mem, revoked, gapped>>
  BY DEF TokenRemove
<1>2. CASE Ends(c, "failed") /\ UNCHANGED <<tokens, keyslots>>
  BY <1>1, <1>2, EndsStep DEF Ended, KeysInv, MainTypeOK
<1>3. CASE tokens' = [tokens EXCEPT ![t] = NoToken] /\ Goto(c, "tokenImport")
  <2>1. /\ mem[c] \in Mem /\ mem' = [mem EXCEPT ![c] = mem[c]]
        /\ mem[c].tok \in Seq(Sound) /\ mem[c].free # FirstSlot
    BY <1>1 DEF KeysInv, MainTypeOK, Mem
  <2>2. NoToken \in [present : BOOLEAN, entries : Seq(Entry)] /\ NoToken.entries \in Seq(Sound)
    BY DEF NoToken
  <2>3. /\ tokens' \in [TokenIds -> [present : BOOLEAN, entries : Seq(Entry)]]
        /\ \A u \in TokenIds : tokens'[u] \in {tokens[u], NoToken}
    BY <1>3, <2>2 DEF KeysInv, MainTypeOK
  <2>4. \A u \in TokenIds : tokens'[u].entries \in Seq(Sound)
    BY <2>2, <2>3 DEF KeysInv
  <2>5. pc' = [pc EXCEPT ![c] = "tokenImport"] /\ "tokenImport" \in Running
    BY <1>3 DEF Goto, Running
  <2>6. ~NotAdded(c)'
    BY <2>5 DEF NotAdded, KeysInv, MainTypeOK
  <2>7. /\ slots' \in [Slots -> {"free", "passphrase"} \cup Secrets]
        /\ \A n \in Slots : slots'[n] \in {slots[n], "free"}
        /\ slots'[FirstSlot] = "passphrase"
        /\ gapped' \in BOOLEAN /\ revoked' \subseteq Gone /\ mem[c].gone \subseteq Gone
    BY <1>1 DEF KeysInv, MainTypeOK, PassphraseAlwaysOpens, Gone
  <2>8. \A p \in mem[c].gone : p \in Gone \/ Lost(p)'
    BY <2>7
  <2>9. /\ pc' \in [Commands -> {"new"} \cup Running \cup Ended] /\ pc'[c] = "tokenImport"
        /\ mem' \in [Commands -> Mem] /\ mem'[c] = mem[c]
        /\ \A d \in Commands \ {c} : pc'[d] = pc[d] /\ mem'[d] = mem[d]
    BY <1>1, <2>5 DEF KeysInv, MainTypeOK, Mem
  <2>10. QED BY <1>1, <2>1, <2>3, <2>4, <2>6, <2>7, <2>8, <2>9, StepAddingNoKey
<1>4. QED BY <1>2, <1>3 DEF TokenRemove

(* token import writes a sound list; the secrets reported revoked with it  *)
(* are already gone.                                                       *)
LEMMA TokenImportStep ==
  ASSUME KeysInv, NEW c \in Commands, TokenImport(c)
  PROVE  KeysInv'
<1>1. UNCHANGED <<slots, cmd>> /\ gapped' \in BOOLEAN /\ pc[c] = "tokenImport"
  BY DEF TokenImport, KeysInv, MainTypeOK
<1>2. CASE Ends(c, "failed") /\ UNCHANGED <<tokens, mem, revoked>>
  BY <1>1, <1>2, EndsStep DEF Ended, KeysInv, MainTypeOK
<1>3. ASSUME NEW t \in TokenIds,
             tokens' = [tokens EXCEPT ![t] = TokenWith(mem[c].tok)], AfterImport(c)
      PROVE  KeysInv'
  <2>1. mem[c] \in Mem /\ mem[c].tok \in Seq(Sound) /\ mem[c].free # FirstSlot
    BY DEF KeysInv, MainTypeOK, Mem
  <2>2. /\ TokenWith(mem[c].tok) \in [present : BOOLEAN, entries : Seq(Entry)]
        /\ TokenWith(mem[c].tok).entries = mem[c].tok
    BY <2>1 DEF TokenWith, Mem
  <2>3. /\ tokens' \in [TokenIds -> [present : BOOLEAN, entries : Seq(Entry)]]
        /\ \A u \in TokenIds : tokens'[u] \in {tokens[u], TokenWith(mem[c].tok)}
    BY <1>3, <2>2 DEF KeysInv, MainTypeOK
  <2>4. \A u \in TokenIds : tokens'[u].entries \in Seq(Sound)
    BY <2>1, <2>2, <2>3 DEF KeysInv
  <2>5. /\ slots' \in [Slots -> {"free", "passphrase"} \cup Secrets]
        /\ \A n \in Slots : slots'[n] \in {slots[n], "free"}
        /\ slots'[FirstSlot] = "passphrase"
        /\ gapped' \in BOOLEAN /\ mem[c].gone \subseteq Gone /\ revoked \subseteq Gone
    BY <1>1 DEF KeysInv, MainTypeOK, PassphraseAlwaysOpens, Gone
  <2>6. CASE Reads(c, "reload", mem[c].old) /\ UNCHANGED revoked
    <3> DEFINE m == [mem[c] EXCEPT !.for = "reload", !.old = mem[c].old]
    <3>1. /\ m \in Mem /\ m.for = "reload"
          /\ m.tok = mem[c].tok /\ m.gone = mem[c].gone /\ m.free = mem[c].free
      BY <2>1 DEF Mem, Purposes
    <3>2. /\ pc' = [pc EXCEPT ![c] = "dump"] /\ mem' = [mem EXCEPT ![c] = m]
          /\ "dump" \in Running
      BY <2>6 DEF Reads, Goto, KeysInv, MainTypeOK, Running
    <3>3. pc'[c] = "dump" /\ mem'[c] = m
      BY <3>2 DEF KeysInv, MainTypeOK
    <3>4. ~NotAdded(c)'
      BY <3>1, <3>3 DEF NotAdded
    <3>5. \A p \in m.gone : p \in Gone \/ Lost(p)'
      BY <2>5, <3>1
    <3>6. revoked' \subseteq Gone
      BY <2>5, <2>6
    <3>7. /\ pc' \in [Commands -> {"new"} \cup Running \cup Ended]
          /\ mem' \in [Commands -> Mem]
          /\ \A d \in Commands \ {c} : pc'[d] = pc[d] /\ mem'[d] = mem[d]
      BY <3>1, <3>2 DEF KeysInv, MainTypeOK, Mem
    <3> HIDE DEF m
    <3>8. QED BY <1>1, <2>1, <2>3, <2>4, <2>5, <3>1, <3>3, <3>4, <3>5, <3>6, <3>7,
                 StepAddingNoKey
  <2>7. CASE revoked' = revoked \cup mem[c].gone /\ Ends(c, "ok") /\ UNCHANGED mem
    <3>1. pc' = [pc EXCEPT ![c] = "ok"] /\ "ok" \in Ended /\ mem' = [mem EXCEPT ![c] = mem[c]]
      BY <2>7 DEF Ends, Ended, KeysInv, MainTypeOK
    <3>2. ~NotAdded(c)'
      BY <3>1 DEF NotAdded, KeysInv, MainTypeOK
    <3>3. revoked' \subseteq Gone
      BY <2>5, <2>7
    <3>4. \A p \in mem[c].gone : p \in Gone \/ Lost(p)'
      BY <2>5
    <3>5. /\ pc' \in [Commands -> {"new"} \cup Running \cup Ended] /\ pc'[c] = "ok"
          /\ mem' \in [Commands -> Mem] /\ mem'[c] = mem[c]
          /\ \A d \in Commands \ {c} : pc'[d] = pc[d] /\ mem'[d] = mem[d]
      BY <3>1 DEF KeysInv, MainTypeOK, Mem
    <3>6. QED BY <1>1, <2>1, <2>3, <2>4, <2>5, <3>2, <3>3, <3>4, <3>5, StepAddingNoKey
  <2>8. QED BY <1>3, <2>6, <2>7 DEF AfterImport
<1>4. QED BY <1>2, <1>3 DEF TokenImport

(* luksAddKey puts a secret that was in no keyslot into one that was free, *)
(* and the command's list gains a sound entry for it.                      *)
LEMMA AddKeyStep ==
  ASSUME KeysInv, NEW c \in Commands, AddKey(c)
  PROVE  KeysInv'
<1> DEFINE e == [id |-> cmd[c].newId, key |-> cmd[c].key, slot |-> mem[c].free, p |-> c]
           longer == Append(mem[c].tok, e)
<1>1. /\ mem[c] \in Mem /\ mem[c].tok \in Seq(Sound) /\ mem[c].free # FirstSlot
      /\ mem[c].free \in Slots /\ pc[c] = "addKey" /\ NotAdded(c)
  BY DEF KeysInv, MainTypeOK, Mem, AddKey, NotAdded
<1>2. UNCHANGED <<tokens, cmd, revoked, gapped>>
  BY DEF AddKey
<1>3. CASE Ends(c, "failed") /\ UNCHANGED <<slots, mem>>
  BY <1>2, <1>3, EndsStep DEF Ended, KeysInv, MainTypeOK
<1>4. ASSUME slots[mem[c].free] = "free",
             slots' = [slots EXCEPT ![mem[c].free] = c],
             mem' = [mem EXCEPT ![c].tok = longer],
             NEW step \in {"tokenImport", "tokenRemove"}, Goto(c, step)
      PROVE  KeysInv'
  <2>1. e \in Entry /\ e.slot = mem[c].free /\ e.p = c
    <3>1. cmd[c].newId \in Holders \cup {NoId} /\ cmd[c].key \in Keys
      BY DEF KeysInv, MainTypeOK, Arguments
    <3>2. QED BY <1>1, <3>1 DEF Entry, Secrets
  <2> HIDE DEF e
  <2>2. longer \in Seq(Entry)
    BY <1>1, <2>1 DEF Mem
  <2>3. /\ mem' \in [Commands -> Mem]
        /\ mem'[c].tok = longer /\ mem'[c].free = mem[c].free /\ mem'[c].gone = mem[c].gone
        /\ \A d \in Commands \ {c} : mem'[d] = mem[d]
    <3>1. mem \in [Commands -> Mem]
      BY DEF KeysInv, MainTypeOK, Mem
    <3>2. [mem[c] EXCEPT !.tok = longer] \in Mem
      BY <1>1, <2>2 DEF Mem
    <3> HIDE DEF longer
    <3>3. mem' = [mem EXCEPT ![c] = [mem[c] EXCEPT !.tok = longer]]
      BY <1>4
    <3>4. /\ [mem[c] EXCEPT !.tok = longer].tok = longer
          /\ [mem[c] EXCEPT !.tok = longer].free = mem[c].free
          /\ [mem[c] EXCEPT !.tok = longer].gone = mem[c].gone
      BY <1>1 DEF Mem
    <3>5. QED BY <3>1, <3>2, <3>3, <3>4
  <2>4. /\ pc' \in [Commands -> {"new"} \cup Running \cup Ended]
        /\ pc'[c] = step /\ \A d \in Commands \ {c} : pc'[d] = pc[d]
    BY <1>4 DEF Goto, KeysInv, MainTypeOK, Running
  <2>5. \A d \in Commands : NotAdded(d)' => NotAdded(d) /\ d # c
    BY <2>3, <2>4 DEF NotAdded
  <2>6. /\ slots' \in [Slots -> {"free", "passphrase"} \cup Secrets]
        /\ slots'[FirstSlot] = "passphrase"
        /\ slots'[mem[c].free] = c /\ \A n \in Slots \ {mem[c].free} : slots'[n] = slots[n]
    BY <1>1, <1>4 DEF KeysInv, MainTypeOK, PassphraseAlwaysOpens, Secrets
  <2>7. \A p \in Secrets \ {c} : \A n \in Slots : slots'[n] = p => slots[n] = p
    BY <2>6
  <2>8. \A n \in Slots : slots[n] # c
    BY <1>1 DEF KeysInv
  <2>9. Sound \subseteq Sound'
    <3>1. ASSUME NEW s \in Sound
          PROVE  s \in Sound'
      <4>1. s \in Entry /\ s.slot # FirstSlot /\ s.p \in Secrets /\ s.p # c
        BY <1>1 DEF Sound, Entry
      <4>2. s.p \in Commands => ~NotAdded(s.p)'
        BY <2>5 DEF Sound
      <4>3. \A n \in Slots : slots'[n] = s.p => n = s.slot
        BY <2>7, <4>1 DEF Sound
      <4>4. QED BY <4>1, <4>2, <4>3 DEF Sound
    <3>2. QED BY <3>1
  <2>10. e \in Sound'
    <3>1. \A n \in Slots : slots'[n] = c => n = mem[c].free
      BY <2>6, <2>8
    <3>2. PICK s \in Entry : s = e
      BY <2>1
    <3>3. s.p = c /\ s.slot = mem[c].free
      BY <2>1, <3>2
    <3>4. s \in Sound'
      BY <1>1, <2>5, <3>1, <3>3 DEF Sound
    <3>5. QED BY <3>2, <3>4
  <2>11. longer \in Seq(Sound')
    <3>1. mem[c].tok \in Seq(Sound')
      BY <1>1, <2>9, SeqGrows
    <3>2. QED BY <2>10, <3>1
  <2>12. Gone' = Gone
    BY <1>2, <2>3 DEF Gone
  <2>13. c \notin Gone
    BY <1>1 DEF KeysInv, Secrets
  <2>14. MainTypeOK'
    <3>1. \A d \in Commands : pc'[d] = "killSlot" => mem'[d].idx \in DOMAIN mem'[d].tok
      BY <2>3, <2>4 DEF KeysInv, MainTypeOK
    <3>2. /\ tokens' \in [TokenIds -> [present : BOOLEAN, entries : Seq(Entry)]]
          /\ cmd' \in [Commands -> Arguments]
          /\ revoked' \subseteq Secrets /\ gapped' \in BOOLEAN
      BY <1>2 DEF KeysInv, MainTypeOK
    <3>3. QED BY <2>3, <2>4, <2>6, <3>1, <3>2 DEF MainTypeOK, Mem
  <2>15. PassphraseAlwaysOpens'
    BY <2>6 DEF PassphraseAlwaysOpens
  <2>16. \A t \in TokenIds : tokens'[t].entries \in Seq(Sound')
    BY <1>2, <2>9, SeqGrows DEF KeysInv
  <2>17. ASSUME NEW d \in Commands
         PROVE  /\ mem'[d].tok \in Seq(Sound')
                /\ mem'[d].free # FirstSlot
                /\ pc'[d] = "addKey" => mem'[d].free \in Slots
                /\ NotAdded(d)' => \A n \in Slots : slots'[n] # d
    <3>1. CASE d = c
      BY <1>1, <2>3, <2>4, <2>5, <2>11, <3>1
    <3>2. CASE d # c
      <4>1. mem'[d] = mem[d] /\ pc'[d] = pc[d]
        BY <2>3, <2>4, <3>2
      <4>2. mem[d].tok \in Seq(Sound)
        BY DEF KeysInv
      <4>3. mem'[d].tok \in Seq(Sound')
        BY <2>9, <4>1, <4>2, SeqGrows
      <4>4. NotAdded(d)' => \A n \in Slots : slots'[n] # d
        BY <2>5, <2>7, <3>2 DEF KeysInv, Secrets
      <4>5. QED BY <4>1, <4>3, <4>4 DEF KeysInv
    <3>3. QED BY <3>1, <3>2
  <2>18. \A p \in Secrets : p \in Gone' => /\ \A n \in Slots : slots'[n] # p
                                           /\ p \in Commands => ~NotAdded(p)'
    BY <2>5, <2>7, <2>12, <2>13 DEF KeysInv
  <2>19. QED BY <2>14, <2>15, <2>16, <2>17, <2>18 DEF KeysInv
<1>5. QED BY <1>3, <1>4 DEF AddKey

-----------------------------------------------------------------------------
(* The theorems. *)

(* At the start nobody has added or revoked anything, and those enrolled   *)
(* before have a keyslot each.                                             *)
LEMMA InitHolds == Init => KeysInv
<1> SUFFICES ASSUME Init PROVE KeysInv
  OBVIOUS
<1>1. PICK len \in 0 .. Cardinality(Holders) :
        \E list \in Injection(1 .. len, Holders), key \in Keys :
          /\ \A i \in 1 .. len : FirstSlot + i \in Slots
          /\ EnrolledBefore(list, key)
  BY DEF Init
<1>2. PICK list \in Injection(1 .. len, Holders), key \in Keys :
        /\ \A i \in 1 .. len : FirstSlot + i \in Slots
        /\ EnrolledBefore(list, key)
  BY <1>1
<1>3. len \in Nat /\ Slots \subseteq Nat /\ FirstSlot \in Nat
  BY <1>1, FS_CardinalityType
<1>4. /\ list \in [1 .. len -> Holders]
      /\ \A i, j \in 1 .. len : list[i] = list[j] => i = j
  BY <1>2 DEF Injection, IsInjective
<1>5. /\ slots = [n \in Slots |->
            IF n = FirstSlot THEN "passphrase"
            ELSE IF n - FirstSlot \in 1 .. len THEN list[n - FirstSlot] ELSE "free"]
      /\ \A t \in TokenIds : tokens[t] \in
           {NoToken, TokenWith([i \in 1 .. len |->
              [id |-> list[i], key |-> key, slot |-> FirstSlot + i, p |-> list[i]]])}
      /\ DOMAIN tokens = TokenIds /\ tokens = [t \in TokenIds |-> tokens[t]]
  BY <1>2, <1>4 DEF EnrolledBefore
<1>7. /\ slots \in [Slots -> {"free", "passphrase"} \cup Secrets]
      /\ slots[FirstSlot] = "passphrase"
      /\ \A n \in Slots : slots[n] \notin Commands
  BY <1>3, <1>4, <1>5 DEF Secrets
<1>8. \A n \in Slots, i \in 1 .. len : slots[n] = list[i] => n = FirstSlot + i
  BY <1>3, <1>4, <1>5
<1>9. ASSUME NEW i \in 1 .. len
      PROVE  [id |-> list[i], key |-> key, slot |-> FirstSlot + i, p |-> list[i]] \in Sound
  BY <1>2, <1>3, <1>4, <1>8 DEF Sound, Entry, Secrets
<1>10. [i \in 1 .. len |-> [id |-> list[i], key |-> key, slot |-> FirstSlot + i, p |-> list[i]]]
         \in Seq(Sound)
  BY <1>3, <1>9
<1>11. tokens \in [TokenIds -> [present : BOOLEAN, entries : Seq(Sound)]]
  <2>1. NoToken \in [present : BOOLEAN, entries : Seq(Sound)]
    BY DEF NoToken
  <2>2. ASSUME NEW l \in Seq(Sound)
        PROVE  TokenWith(l) \in [present : BOOLEAN, entries : Seq(Sound)]
    BY DEF TokenWith
  <2>3. \A t \in TokenIds : tokens[t] \in [present : BOOLEAN, entries : Seq(Sound)]
    BY <1>5, <1>10, <2>1, <2>2
  <2>4. QED BY <1>5, <2>3
<1>12. tokens \in [TokenIds -> [present : BOOLEAN, entries : Seq(Entry)]]
  <2>1. \A l \in Seq(Sound) : l \in Seq(Entry)
    BY SeqGrows DEF Sound
  <2>2. QED BY <1>11, <2>1
<1>13. /\ cmd \in [Commands -> Arguments]
       /\ pc = [c \in Commands |-> "new"]
       /\ mem = [c \in Commands |->
            [tok |-> <<>>, id |-> NoTokenId, free |-> NoSlot, old |-> NoSlot, idx |-> 1,
             gone |-> {}, for |-> "plan"]]
       /\ revoked = {} /\ gapped = FALSE
  BY DEF Init
<1>14. [tok |-> <<>>, id |-> NoTokenId, free |-> NoSlot, old |-> NoSlot, idx |-> 1,
        gone |-> {}, for |-> "plan"] \in Mem
  BY DEF Mem, Purposes
<1>15. MainTypeOK
  <2>1. mem \in [Commands -> Mem]
    BY <1>13, <1>14
  <2>2. \A c \in Commands : pc[c] = "new"
    BY <1>13
  <2>3. QED BY <1>7, <1>12, <1>13, <2>1, <2>2 DEF MainTypeOK, Mem
<1>16. Gone = {}
  BY <1>13 DEF Gone
<1>17. \A c \in Commands : /\ mem[c].tok \in Seq(Sound) /\ mem[c].free # FirstSlot
                           /\ pc[c] = "new"
  <2>1. <<>> \in Seq(Sound) /\ NoSlot # FirstSlot
    BY <1>3 DEF NoSlot
  <2>2. QED BY <1>13, <2>1
<1>18. QED BY <1>7, <1>11, <1>15, <1>16, <1>17 DEF KeysInv, PassphraseAlwaysOpens

(* The lists of those enrolled before agree. *)
LEMMA InitPaired == Init => PairedInv
<1> SUFFICES ASSUME Init PROVE PairedInv
  OBVIOUS
<1>1. PICK len \in 0 .. Cardinality(Holders) :
        \E list \in Injection(1 .. len, Holders), key \in Keys :
          /\ \A i \in 1 .. len : FirstSlot + i \in Slots
          /\ EnrolledBefore(list, key)
  BY DEF Init
<1>2. PICK list \in Injection(1 .. len, Holders), key \in Keys :
        /\ \A i \in 1 .. len : FirstSlot + i \in Slots
        /\ EnrolledBefore(list, key)
  BY <1>1
<1>3. len \in Nat /\ FirstSlot \in Nat
  BY <1>1, FS_CardinalityType
<1>4. list \in [1 .. len -> Holders]
  BY <1>2 DEF Injection, IsInjective
<1>5. list = <<>> <=> len = 0
  BY <1>3, <1>4
<1> DEFINE entries == [i \in 1 .. len |->
                        [id |-> list[i], key |-> key, slot |-> FirstSlot + i, p |-> list[i]]]
           own == [i \in 1 .. len |-> FirstSlot + i]
<1>6. /\ keyslots = [t \in TokenIds |-> IF t = Least(TokenIds) THEN own ELSE <<>>]
      /\ tokens = [t \in TokenIds |->
           IF t = Least(TokenIds) /\ list # <<>> THEN TokenWith(entries) ELSE NoToken]
  BY <1>2, <1>4 DEF EnrolledBefore
<1>7. own \in Seq(Slots) /\ entries \in Seq(Entry) /\ Len(own) = len /\ Len(entries) = len
  <2>1. \A i \in 1 .. len : entries[i] \in Entry
    BY <1>2, <1>4 DEF Entry, Secrets
  <2>2. QED BY <1>2, <1>3, <2>1
<1>8. Paired(entries, own) /\ Paired(<<>>, <<>>) /\ (len = 0 => own = <<>>)
  BY <1>3, <1>7 DEF Paired, Intact
<1>9. \A t \in TokenIds : /\ Paired(tokens[t].entries, keyslots[t])
                          /\ keyslots[t] \in Seq(Slots)
  BY <1>5, <1>6, <1>7, <1>8 DEF TokenWith, NoToken
<1>10. \A c \in Commands : mem[c].tok = <<>> /\ copied[c] = <<>> /\ pc[c] = "new"
  BY DEF Init
<1>11. ListTypeOK
  <2>1. keyslots \in [TokenIds -> Seq(Slots)]
    BY <1>6, <1>9
  <2>2. copied \in [Commands -> Seq(Slots)]
    BY DEF Init
  <2>3. QED BY <2>1, <2>2 DEF ListTypeOK
<1>12. QED BY <1>8, <1>9, <1>10, <1>11 DEF PairedInv

(* So every step keeps the invariant. *)
LEMMA KeysStep == HeaderInv /\ [Next]_vars => KeysInv'
<1> SUFFICES ASSUME HeaderInv, [Next]_vars PROVE KeysInv'
  OBVIOUS
<1>0. KeysInv
  BY DEF HeaderInv
<1>1. ASSUME NEW c \in Commands,
             \/ Start(c) \/ Dump(c) \/ NoTokenFound(c) \/ Export(c)
             \/ AddKey(c) \/ TokenRemove(c) \/ TokenImport(c) \/ KillSlot(c)
             \/ Interrupt(c)
      PROVE  KeysInv'
  BY <1>0, <1>1, StartStep, DumpStep, NoTokenFoundStep, ExportStep, AddKeyStep, TokenRemoveStep,
     TokenImportStep, KillSlotStep, InterruptStep
<1>2. CASE UNCHANGED vars
  <2>1. /\ slots' = slots /\ tokens' = tokens /\ cmd' = cmd /\ pc' = pc /\ mem' = mem
        /\ revoked' = revoked /\ gapped' = gapped
    BY <1>2 DEF vars, header
  <2>2. MainTypeOK' /\ PassphraseAlwaysOpens'
    BY <1>0, <2>1 DEF KeysInv, MainTypeOK, PassphraseAlwaysOpens
  <2>3. Gone' = Gone
    BY <2>1 DEF Gone
  <2>4. \A c \in Commands : NotAdded(c)' <=> NotAdded(c)
    BY <2>1 DEF NotAdded
  <2>5. Sound' = Sound
    BY <2>1, <2>4 DEF Sound
  <2>6. QED BY <1>0, <2>1, <2>2, <2>3, <2>4, <2>5 DEF KeysInv
<1>3. QED BY <1>1, <1>2 DEF Next

(* Where the two lists of a token are written together, and those of a     *)
(* command, they keep belonging together.                                  *)
LEMMA PairedFrame ==
  ASSUME PairedInv, NEW c \in Commands, Alone(c),
         keyslots' \in [TokenIds -> Seq(Slots)],
         \A t \in TokenIds : Paired(tokens'[t].entries, keyslots'[t]),
         NEW list \in Seq(Slots), copied' = [copied EXCEPT ![c] = list],
         Paired(mem'[c].tok, list),
         pc'[c] = "killSlot" => Intact(mem'[c].tok, list)
  PROVE  PairedInv'
<1>1. copied' \in [Commands -> Seq(Slots)] /\ copied'[c] = list
  BY DEF PairedInv, ListTypeOK
<1>2. \A d \in Commands \ {c} : copied'[d] = copied[d]
  BY DEF PairedInv, ListTypeOK
<1>3. ASSUME NEW d \in Commands
      PROVE  Paired(mem'[d].tok, copied'[d]) /\ (pc'[d] = "killSlot" => Intact(mem'[d].tok, copied'[d]))
  <2>1. CASE d = c
    BY <1>1, <2>1
  <2>2. CASE d # c
    BY <1>2, <2>2 DEF Alone, PairedInv
  <2>3. QED BY <2>1, <2>2
<1>4. QED BY <1>1, <1>3 DEF PairedInv, ListTypeOK

(* A step that leaves the lists alone. *)
LEMMA PairedStays ==
  ASSUME PairedInv, NEW c \in Commands, Alone(c),
         UNCHANGED <<tokens, keyslots, copied>>,
         mem'[c].tok = mem[c].tok, pc'[c] # "killSlot"
  PROVE  PairedInv'
<1>1. copied[c] \in Seq(Slots) /\ copied' = [copied EXCEPT ![c] = copied[c]]
  BY DEF PairedInv, ListTypeOK
<1>2. QED BY <1>1, PairedFrame DEF PairedInv, ListTypeOK

LEMMA PairedReads ==
  ASSUME HeaderInv, NEW c \in Commands, NEW purpose, NEW old, Reads(c, purpose, old),
         UNCHANGED <<tokens, keyslots, cmd, copied>>
  PROVE  PairedInv'
  BY ReadsTurns, PairedStays DEF HeaderInv, Turns

LEMMA PairedEnds ==
  ASSUME HeaderInv, NEW c \in Commands, NEW how \in Ended, Ends(c, how),
         UNCHANGED <<tokens, keyslots, cmd, mem, copied>>
  PROVE  PairedInv'
  BY EndsHalts, PairedStays DEF HeaderInv, Halts, Ended

(* A step that takes the lists of a token. *)
LEMMA PairedTakes ==
  ASSUME HeaderInv, NEW c \in Commands, NEW step, NEW entries, NEW i, Goto(c, step),
         NEW list \in Seq(Slots), Paired(entries, list),
         mem' = [mem EXCEPT ![c].tok = entries, ![c].idx = i],
         copied' = [copied EXCEPT ![c] = list],
         step = "killSlot" => Intact(entries, list),
         UNCHANGED <<tokens, keyslots, cmd>>
  PROVE  PairedInv'
<1>1. Alone(c) /\ Takes(c, step, entries)
  BY GoesOnWith DEF HeaderInv
<1>2. QED BY <1>1, PairedFrame DEF Takes, HeaderInv, PairedInv, ListTypeOK

LEMMA PairedPlan ==
  ASSUME HeaderInv, NEW c \in Commands, NEW entries, NEW list,
         AfterPlan(c, entries, list), UNCHANGED <<tokens, keyslots, cmd>>
  PROVE  PairedInv'
<1>1. UNCHANGED copied
  BY DEF AfterPlan
<1>2. CASE \E purpose \in Purposes : \E old : Reads(c, purpose, old)
  BY <1>1, <1>2, PairedReads
<1>3. CASE \E how \in {"already", "refused"} : Ends(c, how) /\ UNCHANGED mem
  BY <1>1, <1>3, PairedEnds DEF Ended
<1>4. QED BY <1>2, <1>3 DEF AfterPlan, Purposes

LEMMA PairedLoad ==
  ASSUME HeaderInv, NEW c \in Commands,
         NEW entries \in Seq(Sound), NEW list \in Seq(Slots), Paired(entries, list),
         AfterLoad(c, entries, list), UNCHANGED <<tokens, keyslots, cmd>>
  PROVE  PairedInv'
<1>1. CASE Ends(c, "refused") /\ UNCHANGED <<mem, copied>>
  BY <1>1, PairedEnds DEF Ended
<1>2. CASE \E i : Intact(entries, list) /\ Removes(c, entries, list, i)
  BY <1>2, PairedTakes DEF Removes
<1>3. CASE \E old : Reads(c, "base", old) /\ UNCHANGED copied
  BY <1>3, PairedReads
<1>4. QED BY <1>1, <1>2, <1>3, LoadChoice

LEMMA PairedBase ==
  ASSUME HeaderInv, NEW c \in Commands,
         NEW entries, NEW list \in Seq(Slots), Paired(entries, list),
         AfterBase(c, entries, list), UNCHANGED <<tokens, keyslots, cmd>>
  PROVE  PairedInv'
<1>1. CASE Ends(c, "refused") /\ UNCHANGED <<mem, copied>>
  BY <1>1, PairedEnds DEF Ended
<1>2. CASE /\ Goto(c, "addKey")
           /\ mem' = [mem EXCEPT ![c].tok = entries]
           /\ copied' = [copied EXCEPT ![c] = list]
  <2>1. mem \in [Commands -> Mem] /\ mem[c] \in Mem
    BY DEF HeaderInv, KeysInv, MainTypeOK, Mem
  <2>2. [mem[c] EXCEPT !.tok = entries] = [mem[c] EXCEPT !.tok = entries, !.idx = mem[c].idx]
    BY <2>1 DEF Mem
  <2>3. mem' = [mem EXCEPT ![c].tok = entries, ![c].idx = mem[c].idx]
    BY <1>2, <2>1, <2>2
  <2>4. Alone(c) /\ Takes(c, "addKey", entries)
    BY <1>2, <2>3, GoesOnWith DEF HeaderInv
  <2>5. QED BY <1>2, <2>4, PairedFrame DEF Takes, HeaderInv, PairedInv, ListTypeOK
<1>3. QED BY <1>1, <1>2 DEF AfterBase

LEMMA PairedReload ==
  ASSUME HeaderInv, NEW c \in Commands,
         NEW entries \in Seq(Sound), NEW list \in Seq(Slots), Paired(entries, list),
         AfterReload(c, entries, list), UNCHANGED <<tokens, keyslots, cmd>>
  PROVE  PairedInv'
<1>1. CASE Ends(c, "failed") /\ UNCHANGED <<mem, copied>>
  BY <1>1, PairedEnds DEF Ended
<1>2. CASE \E i : Intact(entries, list) /\ Removes(c, entries, list, i)
  BY <1>2, PairedTakes DEF Removes
<1>3. QED BY <1>1, <1>2, ReloadChoice

LEMMA PairedRead ==
  ASSUME HeaderInv, NEW c \in Commands, NoTokenFound(c) \/ Export(c)
  PROVE  PairedInv'
<1>1. UNCHANGED <<tokens, keyslots, cmd>>
  BY DEF NoTokenFound, Export, header
<1>2. CASE NoTokenFound(c)
  <2>1. <<>> \in Seq(Slots) /\ Paired(<<>>, <<>>)
    BY DEF Paired, Intact
  <2>2. CASE \E how \in {"refused", "failed"} : Ends(c, how) /\ UNCHANGED <<mem, copied>>
    BY <1>1, <2>2, PairedEnds DEF Ended
  <2>3. QED BY <1>1, <1>2, <2>1, <2>2, PairedPlan, PairedBase DEF NoTokenFound
<1>3. CASE Export(c)
  <2> DEFINE entries == tokens[mem[c].id].entries
             list == keyslots[mem[c].id]
  <2>1. mem[c].id \in TokenIds
    BY <1>3 DEF HeaderInv, KeysInv, MainTypeOK, Export
  <2>2. entries \in Seq(Sound) /\ list \in Seq(Slots) /\ Paired(entries, list)
    BY <2>1 DEF HeaderInv, KeysInv, PairedInv, ListTypeOK
  <2>3. CASE Ends(c, "failed") /\ UNCHANGED <<mem, copied>>
    BY <1>1, <2>3, PairedEnds DEF Ended
  <2> HIDE DEF entries, list
  <2>4. QED BY <1>1, <1>3, <2>2, <2>3, PairedPlan, PairedLoad, PairedBase, PairedReload
            DEF Export, entries, list
<1>4. QED BY <1>2, <1>3

(* luksAddKey: both lists grow by the same keyslot. *)
LEMMA PairedAddKey ==
  ASSUME HeaderInv, NEW c \in Commands, AddKey(c)
  PROVE  PairedInv'
<1> DEFINE n == mem[c].free
           e == [id |-> cmd[c].newId, key |-> cmd[c].key, slot |-> n, p |-> c]
           longer == Append(mem[c].tok, e)
           list == Append(copied[c], n)
<1>1. UNCHANGED <<tokens, keyslots, cmd>> /\ n \in Slots
  BY DEF AddKey, HeaderInv, KeysInv
<1>2. /\ mem[c].tok \in Seq(Entry) /\ copied[c] \in Seq(Slots) /\ Paired(mem[c].tok, copied[c])
      /\ mem \in [Commands -> Mem] /\ mem[c] \in Mem
      /\ pc \in [Commands -> {"new"} \cup Running \cup Ended]
  BY DEF HeaderInv, KeysInv, MainTypeOK, PairedInv, ListTypeOK, Mem
<1>3. CASE Ends(c, "failed") /\ UNCHANGED <<slots, mem, copied>>
  BY <1>1, <1>3, PairedEnds DEF Ended
<1>4. ASSUME NEW step \in {"tokenImport", "tokenRemove"}, Goto(c, step),
             mem' = [mem EXCEPT ![c].tok = longer], copied' = [copied EXCEPT ![c] = list]
      PROVE  PairedInv'
  <2>1. e.slot = n
    OBVIOUS
  <2> HIDE DEF e
  <2>2. /\ Len(longer) = Len(mem[c].tok) + 1 /\ Len(list) = Len(copied[c]) + 1
        /\ list \in Seq(Slots)
        /\ longer[Len(longer)] = e /\ \A i \in DOMAIN mem[c].tok : longer[i] = mem[c].tok[i]
        /\ list[Len(list)] = n /\ \A i \in DOMAIN copied[c] : list[i] = copied[c][i]
    BY <1>1, <1>2
  <2>3. Paired(longer, list)
    BY <1>2, <2>1, <2>2 DEF Paired, Intact
  <2> HIDE DEF longer, list
  <2>4. [mem[c] EXCEPT !.tok = longer].tok = longer
    BY <1>2 DEF Mem
  <2>5. Alone(c) /\ mem'[c].tok = longer /\ pc'[c] # "killSlot"
    BY <1>1, <1>2, <1>4, <2>4 DEF Goto, Alone
  <2>6. QED BY <1>1, <1>4, <2>2, <2>3, <2>5, PairedFrame DEF HeaderInv, PairedInv, ListTypeOK
<1>5. QED BY <1>3, <1>4 DEF AddKey

(* Whatever keyslot is taken off a list, the list then is as before or     *)
(* too short for its entries.                                              *)
LEMMA WithoutStaysPaired ==
  ASSUME NEW entries \in Seq(Entry), NEW list \in Seq(Slots), NEW n \in Slots,
         Paired(entries, list)
  PROVE  Without(list, n) \in Seq(Slots) /\ Paired(entries, Without(list, n))
<1> DEFINE at == {i \in DOMAIN list : list[i] = n}
<1>1. CASE at = {}
  BY <1>1 DEF Without
<1>2. CASE at # {}
  <2>1. at \in SUBSET Nat
    OBVIOUS
  <2>2. Least(at) \in at
    BY <1>2, <2>1, LeastIsMember
  <2>3. Least(at) \in DOMAIN list
    BY <2>2
  <2>4. Without(list, n) = RemoveAt(list, Least(at))
    BY <1>2 DEF Without
  <2> HIDE DEF at
  <2>5. RemoveAt(list, Least(at)) \in Seq(Slots) /\ Len(RemoveAt(list, Least(at))) = Len(list) - 1
    BY <2>3, RemoveAtType, RemoveAtLength
  <2>6. QED BY <2>4, <2>5 DEF Paired, Intact
<1>3. QED BY <1>1, <1>2

(* The same position is dropped from both lists. *)
LEMMA RemoveAtStaysPaired ==
  ASSUME NEW entries \in Seq(Entry), NEW list \in Seq(Slots), NEW k \in DOMAIN entries,
         Paired(entries, list), Intact(entries, list)
  PROVE  /\ RemoveAt(list, k) \in Seq(Slots)
         /\ Paired(RemoveAt(entries, k), RemoveAt(list, k))
<1> DEFINE shorter == RemoveAt(entries, k)
           rest == RemoveAt(list, k)
           from(i) == IF i < k THEN i ELSE i + 1
<1>1. k \in DOMAIN list
  BY DEF Intact
<1>2. /\ rest \in Seq(Slots) /\ shorter \in Seq(Entry)
      /\ Len(rest) = Len(list) - 1 /\ Len(shorter) = Len(entries) - 1
  BY <1>1, RemoveAtType, RemoveAtLength
<1>3. \A i \in DOMAIN rest : from(i) \in DOMAIN list /\ rest[i] = list[from(i)]
  BY <1>1, RemoveAtElements
<1>4. \A i \in DOMAIN shorter : shorter[i] = entries[from(i)]
  BY RemoveAtElements
<1> HIDE DEF shorter, rest
<1>5. DOMAIN rest = DOMAIN shorter
  BY <1>2 DEF Intact
<1>6. \A i \in DOMAIN rest : rest[i] = shorter[i].slot
  BY <1>3, <1>4, <1>5 DEF Paired
<1>7. QED BY <1>2, <1>6 DEF Paired, Intact, shorter, rest

LEMMA PairedKillSlot ==
  ASSUME HeaderInv, NEW c \in Commands, KillSlot(c)
  PROVE  PairedInv'
<1> DEFINE k == mem[c].idx
           n == copied[c][k]
           shorter == RemoveAt(mem[c].tok, k)
           rest == RemoveAt(copied[c], k)
           gone == {mem[c].tok[k].p}
<1>1. UNCHANGED <<tokens, cmd>> /\ pc[c] = "killSlot"
  BY DEF KillSlot
<1>2. /\ mem[c].tok \in Seq(Entry) /\ copied[c] \in Seq(Slots)
      /\ Paired(mem[c].tok, copied[c]) /\ Intact(mem[c].tok, copied[c])
      /\ mem \in [Commands -> Mem] /\ mem[c] \in Mem
      /\ pc \in [Commands -> {"new"} \cup Running \cup Ended]
  BY <1>1 DEF HeaderInv, KeysInv, MainTypeOK, PairedInv, ListTypeOK, Mem
<1>3. k \in DOMAIN mem[c].tok /\ k \in DOMAIN copied[c] /\ n \in Slots
  BY <1>1, <1>2, KillsOwnEntry
<1>4. rest \in Seq(Slots) /\ Paired(shorter, rest)
  BY <1>2, <1>3, RemoveAtStaysPaired
<1>5. ASSUME NEW t \in TokenIds
      PROVE  /\ Without(keyslots[t], n) \in Seq(Slots)
             /\ Paired(tokens[t].entries, Without(keyslots[t], n))
  <2>1. tokens[t].entries \in Seq(Entry) /\ keyslots[t] \in Seq(Slots)
        /\ Paired(tokens[t].entries, keyslots[t])
    BY DEF HeaderInv, KeysInv, MainTypeOK, PairedInv, ListTypeOK
  <2>2. QED BY <1>3, <2>1, WithoutStaysPaired
<1>6. CASE Ends(c, "failed") /\ UNCHANGED <<slots, keyslots, mem, copied>>
  BY <1>1, <1>6, PairedEnds DEF Ended
<1> HIDE DEF shorter, rest, gone
<1>7. CASE /\ keyslots' = [t \in TokenIds |-> Without(keyslots[t], n)]
           /\ mem' = [mem EXCEPT ![c].tok = shorter, ![c].gone = gone]
           /\ copied' = [copied EXCEPT ![c] = rest]
           /\ Goto(c, "tokenRemove")
  <2>1. [mem[c] EXCEPT !.tok = shorter, !.gone = gone].tok = shorter
    BY <1>2 DEF Mem
  <2>2. Alone(c) /\ mem'[c].tok = shorter /\ pc'[c] # "killSlot"
    BY <1>1, <1>2, <1>7, <2>1 DEF Goto, Alone
  <2>3. /\ keyslots' \in [TokenIds -> Seq(Slots)]
        /\ \A t \in TokenIds : Paired(tokens'[t].entries, keyslots'[t])
    BY <1>1, <1>5, <1>7
  <2>4. QED BY <1>4, <1>7, <2>2, <2>3, PairedFrame DEF HeaderInv
<1>8. QED BY <1>6, <1>7 DEF KillSlot, KillsSlot, shorter, rest, gone

LEMMA PairedTokenRemove ==
  ASSUME HeaderInv, NEW c \in Commands, TokenRemove(c)
  PROVE  PairedInv'
<1>1. UNCHANGED <<cmd, mem, copied>>
  BY DEF TokenRemove
<1>2. CASE Ends(c, "failed") /\ UNCHANGED <<tokens, keyslots>>
  BY <1>1, <1>2, PairedEnds DEF Ended
<1>3. CASE /\ tokens' = [tokens EXCEPT ![mem[c].id] = NoToken]
           /\ keyslots' = [keyslots EXCEPT ![mem[c].id] = <<>>]
           /\ Goto(c, "tokenImport")
  <2>1. Alone(c) /\ pc'[c] # "killSlot"
    BY <1>1, <1>3 DEF Goto, Alone, HeaderInv, KeysInv, MainTypeOK
  <2>2. NoToken.entries = <<>> /\ <<>> \in Seq(Slots) /\ Paired(<<>>, <<>>)
    BY DEF NoToken, Paired, Intact
  <2>3. /\ keyslots' \in [TokenIds -> Seq(Slots)]
        /\ \A t \in TokenIds : Paired(tokens'[t].entries, keyslots'[t])
    BY <1>3, <2>2 DEF HeaderInv, KeysInv, MainTypeOK, PairedInv, ListTypeOK
  <2>4. /\ copied[c] \in Seq(Slots) /\ copied' = [copied EXCEPT ![c] = copied[c]]
        /\ Paired(mem'[c].tok, copied[c])
    BY <1>1 DEF HeaderInv, PairedInv, ListTypeOK
  <2>5. QED BY <2>1, <2>3, <2>4, PairedFrame DEF HeaderInv
<1>4. QED BY <1>2, <1>3 DEF TokenRemove

LEMMA PairedTokenImport ==
  ASSUME HeaderInv, NEW c \in Commands, TokenImport(c)
  PROVE  PairedInv'
<1>1. UNCHANGED <<cmd, copied>>
  BY DEF TokenImport
<1>2. CASE Ends(c, "failed") /\ UNCHANGED <<tokens, keyslots, mem, revoked>>
  BY <1>1, <1>2, PairedEnds DEF Ended
<1>3. ASSUME NEW t \in TokenIds,
             tokens' = [tokens EXCEPT ![t] = TokenWith(mem[c].tok)],
             keyslots' = [keyslots EXCEPT ![t] = copied[c]],
             AfterImport(c)
      PROVE  PairedInv'
  <2>1. Alone(c) /\ pc'[c] # "killSlot" /\ mem'[c].tok = mem[c].tok
    <3>1. CASE Reads(c, "reload", mem[c].old)
      BY <1>1, <3>1, ReadsTurns DEF Turns, HeaderInv
    <3>2. CASE Ends(c, "ok") /\ UNCHANGED mem
      BY <1>1, <3>2, EndsHalts DEF Halts, Ended, HeaderInv
    <3>3. QED BY <1>3, <3>1, <3>2 DEF AfterImport
  <2>2. /\ copied[c] \in Seq(Slots) /\ copied' = [copied EXCEPT ![c] = copied[c]]
        /\ Paired(mem[c].tok, copied[c])
    BY <1>1 DEF HeaderInv, PairedInv, ListTypeOK
  <2>3. TokenWith(mem[c].tok).entries = mem[c].tok
    BY DEF TokenWith
  <2>4. /\ keyslots' \in [TokenIds -> Seq(Slots)]
        /\ \A u \in TokenIds : Paired(tokens'[u].entries, keyslots'[u])
    BY <1>3, <2>2, <2>3 DEF HeaderInv, KeysInv, MainTypeOK, PairedInv, ListTypeOK
  <2>5. QED BY <2>1, <2>2, <2>4, PairedFrame DEF HeaderInv
<1>4. QED BY <1>2, <1>3 DEF TokenImport

LEMMA PairedStep == HeaderInv /\ [Next]_vars => PairedInv'
<1> SUFFICES ASSUME HeaderInv, [Next]_vars PROVE PairedInv'
  OBVIOUS
<1>1. ASSUME NEW c \in Commands, Start(c)
      PROVE  PairedInv'
  <2>1. PICK purpose : Reads(c, purpose, NoSlot)
    BY <1>1 DEF Start
  <2>2. QED BY <1>1, <2>1, PairedReads DEF Start, header
<1>2. ASSUME NEW c \in Commands, Dump(c)
      PROVE  PairedInv'
  <2> DEFINE m == [mem[c] EXCEPT !.id = SeenToken, !.free = LowestFree]
  <2>1. /\ pc \in [Commands -> {"new"} \cup Running \cup Ended] /\ mem \in [Commands -> Mem]
        /\ mem[c] \in Mem
    BY DEF HeaderInv, KeysInv, MainTypeOK, Mem
  <2>2. m.tok = mem[c].tok
    BY <2>1 DEF Mem
  <2>3. mem' = [mem EXCEPT ![c] = m] /\ pc' = [pc EXCEPT ![c] = "export"]
    BY <1>2 DEF Dump, Goto
  <2> HIDE DEF m
  <2>4. Alone(c) /\ pc'[c] # "killSlot" /\ mem'[c].tok = mem[c].tok
    BY <1>2, <2>1, <2>2, <2>3 DEF Alone, Dump
  <2>5. QED BY <1>2, <2>4, PairedStays DEF Dump, header, HeaderInv
<1>3. ASSUME NEW c \in Commands, Interrupt(c)
      PROVE  PairedInv'
  BY <1>3, PairedEnds DEF Interrupt, Ended, header
<1>4. CASE UNCHANGED vars
  BY <1>4 DEF vars, header, HeaderInv, PairedInv, ListTypeOK
<1>5. QED BY <1>1, <1>2, <1>3, <1>4, PairedRead, PairedAddKey, PairedKillSlot,
             PairedTokenRemove, PairedTokenImport DEF Next

LEMMA HeaderInit == Init => HeaderInv
  BY InitHolds, InitPaired DEF HeaderInv

LEMMA HeaderStep == HeaderInv /\ [Next]_vars => HeaderInv'
  BY KeysStep, PairedStep DEF HeaderInv

(* Every command, wherever the others are and wherever any of them is      *)
(* interrupted, keeps the header such that each secret is still to be      *)
(* added, in its own keyslot, or gone for good (enrolRecipient,            *)
(* removeRecipientAt and replaceRecipient, one cryptsetup call at a time). *)
THEOREM HeaderInvariant == Spec => []HeaderInv
  BY HeaderInit, HeaderStep, PTL DEF Spec

(* The entries a command works from always name keyslots of the volume,    *)
(* and the entry it has picked is one of its list (selectRecipient,        *)
(* removeRecipientAt): no index is left over from an older list.           *)
THEOREM HeaderTypes == Spec => []TypeOK
<1>1. HeaderInv => TypeOK
  BY DEF HeaderInv, KeysInv, PairedInv, TypeOK
<1>2. QED BY <1>1, HeaderInvariant, PTL

(* Nothing the commands do takes the operator's passphrase away: keyslot   *)
(* FirstSlot is never chosen for a new key, and never named by an entry    *)
(* that a removal works from, however stale (lowestFreeKeyslot,            *)
(* removeRecipientAt).                                                     *)
THEOREM PassphraseIsSafe == Spec => []PassphraseAlwaysOpens
<1>1. HeaderInv => PassphraseAlwaysOpens
  BY DEF HeaderInv, KeysInv
<1>2. QED BY <1>1, HeaderInvariant, PTL

(* A key that a command has reported revoked never opens the volume again, *)
(* although commands running at the same time may write the revoked entry  *)
(* back into the token (removeRecipientAt kills the keyslot first).        *)
THEOREM RevocationIsFinal == Spec => []RevokedOpensNothing
<1>1. HeaderInv => RevokedOpensNothing
  BY DEF HeaderInv, KeysInv, RevokedOpensNothing, Gone, MainTypeOK
<1>2. QED BY <1>1, HeaderInvariant, PTL

-----------------------------------------------------------------------------
(* What only holds by the identity of the entries, or one command at a     *)
(* time: who keeps access, and that a holder is enrolled once.             *)

(* An entry says truly whose secret it is, and what it says is in its      *)
(* keyslot is there if a holder enrolled before the first command is.      *)
Honest ==
  {e \in Entry :
     /\ e.p \in Holders => e.id = e.p
     /\ e.p \in Commands => e.id = cmd[e.p].newId
     /\ slots[e.slot] \in Holders => slots[e.slot] = e.p}

(* No command aims at the keyslot of a holder that it does not name.       *)
Aims(n, c) == slots[n] \in Holders => slots[n] \in {cmd[c].id, cmd[c].newId}

(* The keyslot that pair saw in its plan may be misread from damaged       *)
(* lists; it is a keyslot to revoke only once it has been looked up again. *)
OldAims(c) == mem[c].for # "load" /\ mem[c].old \in Slots => Aims(mem[c].old, c)
OnlyRemoves(c) ==
  mem[c].for = "load" /\ pc[c] \in {"addKey", "killSlot", "tokenRemove", "tokenImport"}
  => cmd[c].kind = "remove"

HonestInv ==
  /\ \A t \in TokenIds : tokens[t].entries \in Seq(Honest)
  /\ \A c \in Commands :
       /\ mem[c].tok \in Seq(Honest)
       /\ OldAims(c) /\ OnlyRemoves(c)
       /\ pc[c] = "killSlot" => Aims(mem[c].tok[mem[c].idx].slot, c)

(* The list that a reader of the header finds. *)
Listed == IF Present = {} THEN <<>> ELSE tokens[SeenToken].entries

(* One command at a time: what it has read is what is there. *)
SerialInv ==
  /\ \A c, d \in Commands : pc[c] \in Running /\ pc[d] \in Running => c = d
  /\ \A t, u \in Present : t = u
  /\ \A t \in TokenIds : tokens[t].present \/ tokens[t] = NoToken
  /\ \A c \in Commands :
       /\ pc[c] \in {"export", "addKey", "tokenRemove", "killSlot"} => mem[c].id = SeenToken
       /\ pc[c] \in {"addKey", "killSlot"} => mem[c].tok = Listed
       /\ pc[c] = "tokenImport" => Present = {}
       /\ pc[c] = "new" => mem[c].gone = {}

(* Every entry opens its own keyslot. *)
NeatIn(s, entries) ==
  /\ \A i \in DOMAIN entries : s[entries[i].slot] = entries[i].p
  /\ \A i, j \in DOMAIN entries : entries[i].slot = entries[j].slot => i = j
Neat(entries) == NeatIn(slots, entries)

(* One command at a time, two lists of the same length are never stale,    *)
(* whatever was interrupted: those of a token, and those of the command    *)
(* that is about to write them.                                            *)
Fits(s, entries, list) == Intact(entries, list) => NeatIn(s, entries)
Writing == {"addKey", "tokenRemove", "tokenImport", "killSlot"}
FitInv ==
  /\ \A t \in TokenIds : Fits(slots, tokens[t].entries, keyslots[t])
  /\ \A c \in Commands : pc[c] \in Writing => Fits(slots, mem[c].tok, copied[c])

(* The holders that a move listed without asking who had that transport id. *)
Twice == {h \in Holders : \E c \in Commands :
            /\ cmd[c].kind = "move" /\ cmd[c].newId = h
            /\ ~NotAdded(c) /\ pc[c] \in Running \cup {"ok"}}

(* Any other holder is listed once, the entry of keyslot n left aside. *)
OnceBut(entries, n) ==
  \A i, j \in DOMAIN entries :
    /\ entries[i].id = entries[j].id /\ entries[i].id \notin Twice \cup {NoId}
    /\ entries[i].slot # n /\ entries[j].slot # n
    => i = j

(* The entry the command was run to make. *)
HasMade(c, entries) ==
  \E i \in DOMAIN entries :
    /\ entries[i].id = cmd[c].newId /\ entries[i].key = cmd[c].key
    /\ entries[i].slot # mem[c].old

(* What is true of the header and of a command that runs, none having      *)
(* failed: it makes room before, or removes the old entry after, and in    *)
(* between it lists a holder twice only if that is the one it replaces, or *)
(* it moves an entry to it.                                                *)
Orderly(c) ==
  /\ cmd[c].kind = "remove" =>
       /\ mem[c].for = "load" /\ mem[c].old = NoSlot /\ pc[c] # "addKey"
       /\ pc[c] \in {"tokenRemove", "tokenImport"} => mem[c].gone # {}
  /\ pc[c] \in {"dump", "export", "addKey"} =>
       /\ mem[c].gone = {} /\ Neat(Listed)
       /\ mem[c].for # "reload" => OnceBut(Listed, NoSlot)
       /\ mem[c].for = "base" =>
            /\ cmd[c].kind # "move" /\ cmd[c].newId \notin Twice =>
                 \A i \in Matching(Listed, cmd[c].newId) : Listed[i].slot = mem[c].old
            /\ mem[c].old # NoSlot => slots[mem[c].old] # "free"
       /\ mem[c].for = "reload" =>
            /\ mem[c].old # NoSlot
            /\ OnceBut(Listed, mem[c].old) /\ HasMade(c, Listed)
       /\ pc[c] = "addKey" => mem[c].for = "base"
  /\ pc[c] = "killSlot" =>
       LET n == mem[c].tok[mem[c].idx].slot
       IN  /\ Neat(Listed) /\ OnceBut(Listed, n)
           /\ cmd[c].kind # "remove" => n = mem[c].old /\ HasMade(c, Listed)
  /\ pc[c] \in {"tokenRemove", "tokenImport"} =>
       /\ Neat(mem[c].tok)
       /\ OnceBut(mem[c].tok, IF mem[c].gone = {} THEN mem[c].old ELSE NoSlot)
       /\ cmd[c].kind # "remove" => HasMade(c, mem[c].tok)

NeatInv ==
  Untroubled =>
    /\ \A c \in Commands : pc[c] \in Running => Orderly(c)
    /\ (\A c \in Commands : pc[c] \notin Running) => Neat(Listed) /\ OnceBut(Listed, NoSlot)

(* A holder no command names, whose token was not lost, is listed once and *)
(* unlocks by what is listed, or will be.                                  *)
Bystander(h) == (\E n \in Slots : slots[n] = h) /\ ~Named(h) /\ ~gapped
HasPlace(entries, h) ==
  \E i \in DOMAIN entries : Matching(entries, h) = {i} /\ Opens(entries[i])

PlaceInv == \A h \in Holders : Bystander(h) =>
  /\ (\A c \in Commands : pc[c] # "tokenImport") => HasPlace(Listed, h)
  /\ \A c \in Commands : pc[c] \in {"tokenRemove", "tokenImport"} =>
       mem[c].id # NoTokenId /\ HasPlace(mem[c].tok, h)

-----------------------------------------------------------------------------
(* What a step of one command does, in full. *)

(* What it makes of a list. *)
Considers(c, entries) ==
  \/ Fails(c)
  \/ Halts(c) /\ pc'[c] = "refused" /\ mem[c].for # "reload"
  \/ /\ Halts(c) /\ pc'[c] = "already" /\ mem[c].for = "plan"
     /\ \E i \in Matching(entries, cmd[c].newId) :
          Matching(entries, cmd[c].newId) = {i} /\ entries[i].key = cmd[c].key
  \/ mem[c].for = "plan" /\ Matching(entries, cmd[c].newId) = {} /\ Turns(c, "base", NoSlot)
  \/ /\ mem[c].for = "plan" /\ cmd[c].kind = "pair"
     /\ Matching(entries, cmd[c].newId) # {} /\ \E old : Turns(c, "load", old)
  \/ /\ mem[c].for = "load" /\ cmd[c].kind = "remove"
     /\ \E i \in Matching(entries, cmd[c].id) :
          Takes(c, "killSlot", entries) /\ mem'[c].idx = i
  \/ /\ mem[c].for = "load" /\ cmd[c].kind # "remove"
     /\ \E i \in Matching(entries, cmd[c].id) : Turns(c, "base", entries[i].slot)
  \/ mem[c].for = "base" /\ mem[c].free # NoSlot /\ Takes(c, "addKey", entries)
  \/ /\ mem[c].for = "reload"
     /\ \E i \in DOMAIN entries :
          /\ entries[i].slot = mem[c].old
          /\ Takes(c, "killSlot", entries) /\ mem'[c].idx = i

LEMMA PlanConsiders ==
  ASSUME KeysInv, NEW c \in Commands, NEW entries, NEW list, mem[c].for = "plan",
         AfterPlan(c, entries, list), cmd' = cmd
  PROVE  Alone(c) /\ Considers(c, entries)
<1> DEFINE same == Matching(entries, cmd[c].newId)
<1>1. CASE same = {} /\ Reads(c, "base", NoSlot)
  BY <1>1, ReadsTurns DEF Considers
<1>2. CASE cmd[c].kind = "pair" /\ \E i \in same : Reads(c, "load", KeyslotOf(list, i))
  BY <1>2, ReadsTurns DEF Considers
<1>3. CASE Ends(c, "refused") /\ UNCHANGED mem
  BY <1>3, EndsHalts DEF Considers, Ended
<1>4. CASE /\ \E i \in same : same = {i} /\ entries[i].key = cmd[c].key
           /\ Ends(c, "already") /\ UNCHANGED mem
  BY <1>4, EndsHalts DEF Considers, Ended
<1>5. QED BY <1>1, <1>2, <1>3, <1>4 DEF AfterPlan

LEMMA LoadConsiders ==
  ASSUME KeysInv, NEW c \in Commands, NEW entries \in Seq(Sound),
         NEW list \in Seq(Slots), Paired(entries, list), mem[c].for = "load",
         AfterLoad(c, entries, list), cmd' = cmd
  PROVE  Alone(c) /\ Considers(c, entries)
<1> DEFINE matching == Matching(entries, cmd[c].id)
<1>1. CASE Ends(c, "refused") /\ UNCHANGED <<mem, copied>>
  BY <1>1, EndsHalts DEF Considers, Ended
<1>2. CASE cmd[c].kind # "remove" /\ \E i \in matching : Reads(c, "base", entries[i].slot)
  BY <1>2, ReadsTurns DEF Considers
<1>3. CASE cmd[c].kind = "remove" /\ \E i \in matching : Removes(c, entries, list, i)
  BY <1>3, GoesOnWith DEF Considers, Removes
<1>4. QED BY <1>1, <1>2, <1>3, LoadChoice

LEMMA BaseConsiders ==
  ASSUME KeysInv, NEW c \in Commands, NEW entries, NEW list, mem[c].for = "base",
         AfterBase(c, entries, list), cmd' = cmd
  PROVE  Alone(c) /\ Considers(c, entries)
<1>1. CASE Ends(c, "refused") /\ UNCHANGED mem
  BY <1>1, EndsHalts DEF Considers, Ended
<1>2. CASE /\ mem[c].free # NoSlot /\ Goto(c, "addKey")
           /\ mem' = [mem EXCEPT ![c].tok = entries]
  <2>1. mem \in [Commands -> Mem] /\ mem[c] \in Mem
    BY DEF KeysInv, MainTypeOK, Mem
  <2>2. [mem[c] EXCEPT !.tok = entries] = [mem[c] EXCEPT !.tok = entries, !.idx = mem[c].idx]
    BY <2>1 DEF Mem
  <2>3. mem' = [mem EXCEPT ![c].tok = entries, ![c].idx = mem[c].idx]
    BY <1>2, <2>1, <2>2
  <2>4. QED BY <1>2, <2>3, GoesOnWith DEF Considers
<1>3. QED BY <1>1, <1>2 DEF AfterBase

LEMMA ReloadConsiders ==
  ASSUME KeysInv, NEW c \in Commands, NEW entries \in Seq(Sound),
         NEW list \in Seq(Slots), Paired(entries, list), mem[c].for = "reload",
         AfterReload(c, entries, list), cmd' = cmd
  PROVE  Alone(c) /\ Considers(c, entries)
<1>1. CASE Ends(c, "failed") /\ UNCHANGED mem
  BY <1>1, EndsHalts DEF Considers, Ended, Halts, Fails
<1>2. CASE \E i \in DOMAIN entries :
             entries[i].slot = mem[c].old /\ Removes(c, entries, list, i)
  BY <1>2, GoesOnWith DEF Considers, Removes
<1>3. QED BY <1>1, <1>2, ReloadChoice

(* The list a command reads: that of the token its luksDump found. *)
ReadBy(c) == IF mem[c].id = NoTokenId THEN <<>> ELSE tokens[mem[c].id].entries

LEMMA Consideration ==
  ASSUME HeaderInv, NEW c \in Commands, NoTokenFound(c) \/ Export(c)
  PROVE  Alone(c) /\ Considers(c, ReadBy(c))
<1>0. KeysInv
  BY DEF HeaderInv
<1>1. CASE NoTokenFound(c)
  <2>1. mem[c].id = NoTokenId /\ cmd' = cmd /\ ReadBy(c) = <<>>
    BY <1>1 DEF NoTokenFound, ReadBy
  <2>2. CASE mem[c].for = "load" /\ Ends(c, "refused") /\ UNCHANGED <<mem, copied>>
    BY <1>0, <2>1, <2>2, EndsHalts DEF Ended, Considers
  <2>3. CASE Ends(c, "failed") /\ UNCHANGED <<mem, copied>>
    BY <1>0, <2>1, <2>3, EndsHalts DEF Ended, Considers, Halts, Fails
  <2>4. QED BY <1>0, <1>1, <2>1, <2>2, <2>3, PlanConsiders, BaseConsiders DEF NoTokenFound
<1>2. CASE Export(c)
  <2> DEFINE entries == tokens[mem[c].id].entries
             list == keyslots[mem[c].id]
  <2>1. cmd' = cmd /\ ReadBy(c) = entries /\ mem[c].id \in TokenIds
    BY <1>0, <1>2 DEF Export, ReadBy, KeysInv, MainTypeOK
  <2>2. CASE Ends(c, "failed") /\ UNCHANGED <<mem, copied>>
    BY <1>0, <2>1, <2>2, EndsHalts DEF Ended, Considers, Halts, Fails
  <2>3. entries \in Seq(Sound) /\ list \in Seq(Slots) /\ Paired(entries, list)
    BY <1>0, <2>1 DEF KeysInv, HeaderInv, PairedInv, ListTypeOK
  <2> HIDE DEF entries, list
  <2>4. QED BY <1>0, <1>2, <2>1, <2>2, <2>3, PlanConsiders, LoadConsiders, BaseConsiders,
                ReloadConsiders DEF Export, entries, list
<1>3. QED BY <1>1, <1>2

(* Opening a run, luksDump, and being interrupted. *)
LEMMA StartDoes ==
  ASSUME HeaderInv, NEW c \in Commands, Start(c)
  PROVE  /\ Alone(c) /\ UNCHANGED <<slots, tokens, gapped>> /\ pc[c] = "new"
         /\ \/ cmd[c].kind \notin {"anon", "remove"} /\ Turns(c, "plan", NoSlot)
            \/ cmd[c].kind = "anon" /\ Turns(c, "base", NoSlot)
            \/ Turns(c, "load", NoSlot)
<1>1. cmd[c].kind \in AllKinds
  BY DEF HeaderInv, KeysInv, MainTypeOK, Arguments
<1>2. \/ cmd[c].kind \notin {"anon", "remove"} /\ Reads(c, "plan", NoSlot)
      \/ cmd[c].kind = "anon" /\ Reads(c, "base", NoSlot)
      \/ Reads(c, "load", NoSlot)
  BY <1>1 DEF Start, AllKinds
<1>3. QED BY <1>2, ReadsTurns DEF Start, header, HeaderInv

LEMMA DumpDoes ==
  ASSUME HeaderInv, NEW c \in Commands, Dump(c)
  PROVE  /\ Alone(c) /\ UNCHANGED <<slots, tokens, gapped>> /\ pc[c] = "dump"
         /\ pc'[c] = "export" /\ mem'[c].id = SeenToken /\ mem'[c].tok = mem[c].tok
         /\ mem'[c].for = mem[c].for /\ mem'[c].old = mem[c].old /\ mem'[c].gone = mem[c].gone
<1> DEFINE m == [mem[c] EXCEPT !.id = SeenToken, !.free = LowestFree]
<1>1. pc \in [Commands -> {"new"} \cup Running \cup Ended] /\ mem \in [Commands -> Mem]
  BY DEF HeaderInv, KeysInv, MainTypeOK, Mem
<1>2. mem[c] \in Mem
  BY <1>1
<1>3. /\ m.id = SeenToken /\ m.tok = mem[c].tok /\ m.for = mem[c].for
      /\ m.old = mem[c].old /\ m.gone = mem[c].gone
  BY <1>2 DEF Mem
<1>4. mem' = [mem EXCEPT ![c] = m] /\ pc' = [pc EXCEPT ![c] = "export"]
  BY DEF Dump, Goto
<1> HIDE DEF m
<1>5. QED BY <1>1, <1>3, <1>4 DEF Alone, Dump, header

LEMMA InterruptDoes ==
  ASSUME HeaderInv, NEW c \in Commands, Interrupt(c)
  PROVE  /\ Alone(c) /\ UNCHANGED <<slots, tokens>> /\ pc[c] \in Running /\ Fails(c)
         /\ pc[c] = "tokenImport" /\ mem[c].id # NoTokenId => gapped'
  BY EndsHalts DEF HeaderInv, Interrupt, Ended, Halts, Fails, header

(* The steps that write: each fails and leaves the header, or does its     *)
(* part of the rewriting.                                                  *)
NewEntry(c) == [id |-> cmd[c].newId, key |-> cmd[c].key, slot |-> mem[c].free, p |-> c]

Adds(c) ==
  /\ slots[mem[c].free] = "free" /\ slots' = [slots EXCEPT ![mem[c].free] = c]
  /\ pc'[c] = IF mem[c].id = NoTokenId THEN "tokenImport" ELSE "tokenRemove"
  /\ mem'[c].tok = Append(mem[c].tok, NewEntry(c))
  /\ mem'[c].for = mem[c].for /\ mem'[c].old = mem[c].old
  /\ mem'[c].id = mem[c].id /\ mem'[c].gone = mem[c].gone

LEMMA AddKeyDoes ==
  ASSUME HeaderInv, NEW c \in Commands, AddKey(c)
  PROVE  /\ Alone(c) /\ UNCHANGED <<tokens, gapped>> /\ pc[c] = "addKey"
         /\ mem[c].free \in Slots
         /\ (Fails(c) /\ slots' = slots) \/ Adds(c)
<1> DEFINE m == [mem[c] EXCEPT !.tok = Append(mem[c].tok, NewEntry(c))]
           next == IF mem[c].id = NoTokenId THEN "tokenImport" ELSE "tokenRemove"
<1>1. pc \in [Commands -> {"new"} \cup Running \cup Ended] /\ mem \in [Commands -> Mem]
  BY DEF HeaderInv, KeysInv, MainTypeOK, Mem
<1>2. mem[c] \in Mem
  BY <1>1
<1>3. /\ m.tok = Append(mem[c].tok, NewEntry(c)) /\ m.for = mem[c].for
      /\ m.old = mem[c].old /\ m.gone = mem[c].gone /\ m.id = mem[c].id
  BY <1>2 DEF Mem
<1>4. UNCHANGED <<tokens, cmd, gapped>> /\ pc[c] = "addKey" /\ mem[c].free \in Slots
  BY DEF AddKey, HeaderInv, KeysInv
<1>5. CASE Ends(c, "failed") /\ UNCHANGED <<slots, mem, copied>>
  BY <1>4, <1>5, EndsHalts DEF HeaderInv, Ended, Halts, Fails
<1>6. CASE /\ slots[mem[c].free] = "free" /\ slots' = [slots EXCEPT ![mem[c].free] = c]
           /\ mem' = [mem EXCEPT ![c].tok = Append(@, NewEntry(c))] /\ Goto(c, next)
  <2>1. mem' = [mem EXCEPT ![c] = m] /\ pc' = [pc EXCEPT ![c] = next]
    BY <1>1, <1>6 DEF Goto
  <2> HIDE DEF m
  <2>2. QED BY <1>1, <1>3, <1>4, <1>6, <2>1 DEF Alone, Adds
<1>7. QED BY <1>5, <1>6 DEF AddKey, NewEntry

Kills(c) ==
  LET e == mem[c].tok[mem[c].idx]
  IN  /\ slots' = [slots EXCEPT ![e.slot] = "free"]
      /\ pc'[c] = "tokenRemove"
      /\ mem'[c].tok = RemoveAt(mem[c].tok, mem[c].idx)
      /\ mem'[c].gone = {e.p}
      /\ mem'[c].for = mem[c].for /\ mem'[c].old = mem[c].old /\ mem'[c].id = mem[c].id

LEMMA KillSlotDoes ==
  ASSUME HeaderInv, NEW c \in Commands, KillSlot(c)
  PROVE  /\ Alone(c) /\ UNCHANGED <<tokens, gapped>> /\ pc[c] = "killSlot"
         /\ mem[c].idx \in DOMAIN mem[c].tok
         /\ (Fails(c) /\ slots' = slots) \/ Kills(c)
<1> DEFINE e == mem[c].tok[mem[c].idx]
           rest == RemoveAt(mem[c].tok, mem[c].idx)
           m == [mem[c] EXCEPT !.tok = rest, !.gone = {e.p}]
<1>1. pc \in [Commands -> {"new"} \cup Running \cup Ended] /\ mem \in [Commands -> Mem]
  BY DEF HeaderInv, KeysInv, MainTypeOK, Mem
<1>2. mem[c] \in Mem
  BY <1>1
<1> HIDE DEF e, rest
<1>3. /\ m.tok = rest /\ m.gone = {e.p} /\ m.for = mem[c].for
      /\ m.old = mem[c].old /\ m.id = mem[c].id
  BY <1>2 DEF Mem
<1>4. UNCHANGED <<tokens, cmd, gapped>> /\ pc[c] = "killSlot"
      /\ mem[c].idx \in DOMAIN mem[c].tok /\ copied[c][mem[c].idx] = e.slot
  BY KillsOwnEntry DEF KillSlot, e
<1>5. CASE Ends(c, "failed") /\ UNCHANGED <<slots, keyslots, mem, copied>>
  BY <1>4, <1>5, EndsHalts DEF HeaderInv, Ended, Halts, Fails
<1>6. CASE /\ slots' = [slots EXCEPT ![e.slot] = "free"] /\ Goto(c, "tokenRemove")
           /\ mem' = [mem EXCEPT ![c].tok = rest, ![c].gone = {e.p}]
  <2>1. mem' = [mem EXCEPT ![c] = m] /\ pc' = [pc EXCEPT ![c] = "tokenRemove"]
    BY <1>1, <1>6 DEF Goto
  <2> HIDE DEF m
  <2>2. QED BY <1>1, <1>3, <1>4, <1>6, <2>1 DEF Alone, Kills, e, rest
<1>7. QED BY <1>4, <1>5, <1>6 DEF KillSlot, KillsSlot, e, rest

LEMMA TokenRemoveDoes ==
  ASSUME HeaderInv, NEW c \in Commands, TokenRemove(c)
  PROVE  /\ Alone(c) /\ UNCHANGED <<slots, gapped>> /\ pc[c] = "tokenRemove"
         /\ mem'[c] = mem[c]
         /\ \/ Fails(c) /\ tokens' = tokens
            \/ /\ pc'[c] = "tokenImport"
               /\ tokens' = [tokens EXCEPT ![mem[c].id] = NoToken]
<1>1. UNCHANGED <<slots, cmd, mem, gapped>> /\ pc[c] = "tokenRemove"
  BY DEF TokenRemove
<1>2. CASE Ends(c, "failed") /\ UNCHANGED <<tokens, keyslots>>
  BY <1>1, <1>2, EndsHalts DEF HeaderInv, Ended, Halts, Fails
<1>3. CASE /\ Goto(c, "tokenImport")
           /\ tokens' = [tokens EXCEPT ![mem[c].id] = NoToken]
  <2>1. pc' = [pc EXCEPT ![c] = "tokenImport"]
    BY <1>3 DEF Goto
  <2>2. QED BY <1>1, <1>3, <2>1 DEF Alone, HeaderInv, KeysInv, MainTypeOK
<1>4. QED BY <1>2, <1>3 DEF TokenRemove

(* Having written the token, a command is done or goes on to remove the    *)
(* entry that it replaces.                                                 *)
Imports(c) ==
  \E t \in TokenIds \ Present :
    /\ mem[c].id # NoTokenId => t = mem[c].id
    /\ tokens' = [tokens EXCEPT ![t] = TokenWith(mem[c].tok)]
    /\ \/ /\ mem[c].gone = {} /\ cmd[c].kind # "remove" /\ mem[c].old # NoSlot
          /\ Turns(c, "reload", mem[c].old)
       \/ /\ mem[c].gone # {} \/ mem[c].old = NoSlot
          /\ Halts(c) /\ pc'[c] = "ok"

LEMMA TokenImportDoes ==
  ASSUME HeaderInv, NEW c \in Commands, TokenImport(c)
  PROVE  /\ Alone(c) /\ UNCHANGED slots /\ pc[c] = "tokenImport"
         /\ \/ /\ Fails(c) /\ tokens' = tokens
               /\ mem[c].id # NoTokenId => gapped' \/ mem[c].id \in Present
            \/ Imports(c) /\ gapped' = gapped
<1> DEFINE free == TokenIds \ Present
           ids == IF mem[c].id # NoTokenId THEN free \cap {mem[c].id}
                  ELSE {t \in free : \A u \in free : t <= u}
<1>1. UNCHANGED <<slots, cmd>> /\ pc[c] = "tokenImport"
  BY DEF TokenImport
<1>2. CASE /\ gapped' = (gapped \/ (ids # {} /\ mem[c].id # NoTokenId))
           /\ Ends(c, "failed") /\ UNCHANGED <<tokens, mem>>
  <2>1. mem[c].id \in TokenIds \cup {NoTokenId}
    BY DEF HeaderInv, KeysInv, MainTypeOK
  <2>2. mem[c].id # NoTokenId => gapped' \/ mem[c].id \in Present
    BY <1>2, <2>1
  <2>3. QED BY <1>1, <1>2, <2>2, EndsHalts DEF HeaderInv, Ended, Halts, Fails
<1>3. ASSUME NEW t \in ids, tokens' = [tokens EXCEPT ![t] = TokenWith(mem[c].tok)],
             AfterImport(c), gapped' = gapped
      PROVE  Alone(c) /\ Imports(c) /\ gapped' = gapped
  <2>1. t \in TokenIds \ Present /\ (mem[c].id # NoTokenId => t = mem[c].id)
    OBVIOUS
  <2>2. CASE /\ mem[c].gone = {} /\ cmd[c].kind # "remove" /\ mem[c].old # NoSlot
             /\ Reads(c, "reload", mem[c].old)
    <3>1. Alone(c) /\ Turns(c, "reload", mem[c].old)
      BY <1>1, <2>2, ReadsTurns DEF HeaderInv
    <3>2. QED BY <1>3, <2>1, <2>2, <3>1 DEF Imports
  <2>3. CASE /\ mem[c].gone # {} \/ mem[c].old = NoSlot
             /\ Ends(c, "ok") /\ UNCHANGED mem
    <3>1. Alone(c) /\ Halts(c) /\ pc'[c] = "ok"
      BY <1>1, <2>3, EndsHalts DEF Ended, HeaderInv
    <3>2. QED BY <1>3, <2>1, <2>3, <3>1 DEF Imports
  <2>4. QED BY <1>3, <2>2, <2>3 DEF AfterImport
<1>4. QED BY <1>1, <1>2, <1>3 DEF TokenImport

-----------------------------------------------------------------------------
(* Nobody else's keyslot. *)

(* A step that puts no holder's secret anywhere leaves honest what was. *)
LEMMA HonestStays ==
  ASSUME HeaderInv, cmd' = cmd, \A n \in Slots : slots'[n] \in Holders => slots'[n] = slots[n]
  PROVE  Honest \subseteq Honest'
<1>1. \A e \in Entry : e.slot \in Slots
  BY DEF Entry
<1>2. QED BY <1>1 DEF Honest

LEMMA HonestStep ==
  ASSUME HeaderInv, HeaderInv', HonestInv, NEW c \in Commands, Alone(c),
         \A n \in Slots : slots'[n] \in Holders => slots'[n] = slots[n],
         \A t \in TokenIds : tokens'[t].entries \in Seq(Honest'),
         mem'[c].tok \in Seq(Honest'),
         mem'[c].for # "load" /\ mem'[c].old \in Slots => Aims(mem'[c].old, c),
         OnlyRemoves(c)',
         pc'[c] = "killSlot" => Aims(mem'[c].tok[mem'[c].idx].slot, c)
  PROVE  HonestInv'
<1>1. /\ mem \in [Commands -> Mem] /\ mem' \in [Commands -> Mem]
      /\ \A d \in Commands : pc[d] = "killSlot" => mem[d].idx \in DOMAIN mem[d].tok
      /\ \A d \in Commands : pc'[d] = "killSlot" => mem'[d].idx \in DOMAIN mem'[d].tok
  BY DEF HeaderInv, KeysInv, MainTypeOK, Mem
<1>2. \A n \in Slots : Aims(n, c) => Aims(n, c)'
  BY DEF Aims, Alone
<1>3. ASSUME NEW d \in Commands
      PROVE  (/\ mem[d].tok \in Seq(Honest)
              /\ OldAims(d) /\ OnlyRemoves(d)
              /\ pc[d] = "killSlot" => Aims(mem[d].tok[mem[d].idx].slot, d))'
  <2>1. mem[d].tok \in Seq(Entry) /\ mem'[d].tok \in Seq(Entry)
    BY <1>1 DEF Mem
  <2>2. \A i \in DOMAIN mem'[d].tok : mem'[d].tok[i].slot \in Slots
    <3>1. \A i \in DOMAIN mem'[d].tok : mem'[d].tok[i] \in Entry
      BY <2>1
    <3>2. QED BY <3>1 DEF Entry
  <2>3. CASE d = c
    BY <1>1, <1>2, <2>2, <2>3 DEF Aims, OldAims
  <2>4. CASE d # c
    <3>1. pc'[d] = pc[d] /\ mem'[d] = mem[d] /\ cmd' = cmd
      BY <2>4 DEF Alone
    <3>2. mem[d].tok \in Seq(Honest) /\ Honest \subseteq Honest'
      BY <3>1, HonestStays DEF HonestInv
    <3>3. mem'[d].tok \in Seq(Honest')
      BY <3>1, <3>2, SeqGrows
    <3>4. \A n \in Slots : Aims(n, d) => Aims(n, d)'
      BY <3>1 DEF Aims
    <3>5. /\ mem'[d].for # "load" /\ mem'[d].old \in Slots => Aims(mem'[d].old, d)
          /\ pc'[d] = "killSlot" => Aims(mem'[d].tok[mem'[d].idx].slot, d)
      BY <3>1 DEF HonestInv, OldAims
    <3>6. OnlyRemoves(d)'
      BY <3>1 DEF HonestInv, OnlyRemoves
    <3>7. QED BY <1>1, <2>2, <3>3, <3>4, <3>5, <3>6 DEF Aims, OldAims
  <2>5. QED BY <2>3, <2>4
<1>4. QED BY <1>3 DEF HonestInv

(* An entry under a name the command was given is one it may aim at. *)
LEMMA NamedIsAim ==
  ASSUME NEW c \in Commands, NEW entries \in Seq(Honest), NEW i \in DOMAIN entries,
         entries[i].id \in {cmd[c].id, cmd[c].newId}
  PROVE  Aims(entries[i].slot, c)
<1>1. entries[i] \in Honest
  OBVIOUS
<1>2. QED BY <1>1 DEF Honest, Aims

(* Steps that only read. *)
LEMMA HonestRead ==
  ASSUME HeaderInv, HeaderInv', HonestInv, NEW c \in Commands, Alone(c),
         UNCHANGED <<slots, tokens>>,
         mem'[c].tok \in Seq(Honest),
         mem'[c].for # "load" /\ mem'[c].old \in Slots => Aims(mem'[c].old, c),
         OnlyRemoves(c)',
         pc'[c] = "killSlot" => Aims(mem'[c].tok[mem'[c].idx].slot, c)
  PROVE  HonestInv'
<1>1. Honest \subseteq Honest'
  BY HonestStays DEF Alone
<1>2. \A t \in TokenIds : tokens'[t].entries \in Seq(Honest')
  BY <1>1, SeqGrows DEF HonestInv
<1>3. mem'[c].tok \in Seq(Honest')
  BY <1>1, SeqGrows
<1>4. QED BY <1>2, <1>3, HonestStep

LEMMA HonestReading ==
  ASSUME HeaderInv, HeaderInv', HonestInv, NEW c \in Commands,
         \/ Start(c) \/ Dump(c) \/ NoTokenFound(c) \/ Export(c) \/ Interrupt(c)
  PROVE  HonestInv'
<1>1. /\ mem[c].tok \in Seq(Honest)
      /\ mem[c].for # "load" /\ mem[c].old \in Slots => Aims(mem[c].old, c)
      /\ OnlyRemoves(c)
  BY DEF HonestInv, OldAims
<1>2. NoSlot \notin Slots
  BY DEF NoSlot
<1>3. CASE Start(c)
  BY <1>1, <1>2, <1>3, StartDoes, HonestRead DEF Turns, OnlyRemoves
<1>4. CASE Dump(c)
  BY <1>1, <1>4, DumpDoes, HonestRead DEF OnlyRemoves
<1>5. CASE Interrupt(c)
  BY <1>1, <1>5, InterruptDoes, HonestRead DEF Fails, OnlyRemoves
<1>6. CASE NoTokenFound(c) \/ Export(c)
  <2>1. Alone(c) /\ Considers(c, ReadBy(c)) /\ UNCHANGED <<slots, tokens>>
    BY <1>6, Consideration DEF NoTokenFound, Export, header
  <2>2. ReadBy(c) \in Seq(Honest)
    <3>1. mem[c].id # NoTokenId => mem[c].id \in TokenIds
      BY DEF HeaderInv, KeysInv, MainTypeOK
    <3>2. <<>> \in Seq(Honest)
      OBVIOUS
    <3>3. QED BY <3>1, <3>2 DEF HonestInv, ReadBy
  <2> DEFINE entries == ReadBy(c)
  <2> HIDE DEF entries
  <2>3. Matching(entries, cmd[c].id) \subseteq DOMAIN entries
        /\ Matching(entries, cmd[c].newId) \subseteq DOMAIN entries
        /\ \A i \in Matching(entries, cmd[c].id) \cup Matching(entries, cmd[c].newId) :
             entries[i].id \in {cmd[c].id, cmd[c].newId}
    BY DEF Matching
  <2>4. \A i \in Matching(entries, cmd[c].id) \cup Matching(entries, cmd[c].newId) :
          Aims(entries[i].slot, c)
    BY <2>2, <2>3, NamedIsAim DEF entries
  <2>5. CASE Fails(c) \/ Halts(c)
    BY <1>1, <2>1, <2>5, HonestRead DEF Fails, Halts, Ended, OnlyRemoves
  <2>6. CASE \E purpose \in Purposes : Turns(c, purpose, NoSlot)
    BY <1>1, <1>2, <2>1, <2>6, HonestRead DEF Turns, OnlyRemoves
  <2>7. CASE \/ \E old : Turns(c, "load", old)
             \/ \E i \in Matching(entries, cmd[c].id) : Turns(c, "base", entries[i].slot)
    BY <1>1, <2>1, <2>4, <2>7, HonestRead DEF Turns, OnlyRemoves
  <2>8. CASE \E i \in Matching(entries, cmd[c].id) :
               /\ cmd[c].kind = "remove"
               /\ Takes(c, "killSlot", entries) /\ mem'[c].idx = i
    BY <1>1, <2>1, <2>2, <2>4, <2>8, HonestRead DEF Takes, OnlyRemoves, Alone, entries
  <2>9. CASE mem[c].for = "base" /\ Takes(c, "addKey", entries)
    BY <1>1, <2>1, <2>2, <2>9, HonestRead DEF Takes, OnlyRemoves, entries
  <2>10. CASE /\ mem[c].for = "reload"
              /\ \E i \in DOMAIN entries :
                /\ entries[i].slot = mem[c].old
                /\ Takes(c, "killSlot", entries) /\ mem'[c].idx = i
    <3>1. \A i \in DOMAIN entries : entries[i].slot \in Slots
      <4>1. \A i \in DOMAIN entries : entries[i] \in Honest
        BY <2>2 DEF entries
      <4>2. QED BY <4>1 DEF Honest, Entry
    <3>2. QED BY <1>1, <2>1, <2>2, <2>10, <3>1, HonestRead DEF Takes, OnlyRemoves, entries
  <2>11. QED
    BY <2>1, <2>5, <2>6, <2>7, <2>8, <2>9, <2>10 DEF Considers, entries, Purposes
<1>7. QED BY <1>3, <1>4, <1>5, <1>6

(* Steps that write. *)
LEMMA HonestAddKey ==
  ASSUME HeaderInv, HeaderInv', HonestInv, NEW c \in Commands, AddKey(c)
  PROVE  HonestInv'
<1>1. /\ Alone(c) /\ tokens' = tokens /\ pc[c] = "addKey" /\ mem[c].free \in Slots
      /\ (Fails(c) /\ slots' = slots) \/ Adds(c)
  BY AddKeyDoes
<1>2. /\ mem[c].tok \in Seq(Honest) /\ OnlyRemoves(c)
      /\ mem[c].for # "load" /\ mem[c].old \in Slots => Aims(mem[c].old, c)
  BY DEF HonestInv, OldAims
<1>3. CASE Fails(c) /\ slots' = slots
  BY <1>1, <1>2, <1>3, HonestRead DEF Fails, OnlyRemoves
<1>4. CASE Adds(c)
  <2>1. \A n \in Slots : slots'[n] \in Holders => slots'[n] = slots[n]
    BY <1>1, <1>4 DEF Adds, HeaderInv, KeysInv, MainTypeOK
  <2>2. Honest \subseteq Honest'
    BY <1>1, <2>1, HonestStays DEF Alone
  <2>3. NewEntry(c) \in Honest'
    <3>1. cmd \in [Commands -> Arguments] /\ cmd' = cmd
      BY <1>1 DEF HeaderInv, KeysInv, MainTypeOK, Alone
    <3>2. cmd[c].newId \in Holders \cup {NoId} /\ cmd[c].key \in Keys
      BY <3>1 DEF Arguments
    <3>3. NewEntry(c) \in Entry
      BY <1>1, <3>2 DEF NewEntry, Entry, Secrets
    <3>4. slots'[mem[c].free] = c
      BY <1>1, <1>4 DEF Adds, HeaderInv, KeysInv, MainTypeOK
    <3>5. PICK e \in Entry : e = NewEntry(c)
      BY <3>3
    <3>6. e.id = cmd[c].newId /\ e.slot = mem[c].free /\ e.p = c
      BY <3>5 DEF NewEntry
    <3>7. e \in Honest'
      BY <3>1, <3>4, <3>6 DEF Honest
    <3>8. QED BY <3>5, <3>7
  <2>4. mem'[c].tok \in Seq(Honest')
    <3>1. mem[c].tok \in Seq(Honest')
      BY <1>2, <2>2, SeqGrows
    <3>2. QED BY <1>4, <2>3, <3>1 DEF Adds
  <2>5. \A t \in TokenIds : tokens'[t].entries \in Seq(Honest')
    BY <1>1, <2>2, SeqGrows DEF HonestInv
  <2>6. /\ pc'[c] # "killSlot" /\ mem'[c].old = mem[c].old /\ mem'[c].for = mem[c].for
        /\ OnlyRemoves(c)'
    BY <1>1, <1>2, <1>4 DEF Adds, OnlyRemoves, Alone
  <2>7. QED BY <1>1, <1>2, <2>1, <2>4, <2>5, <2>6, HonestStep
<1>5. QED BY <1>1, <1>3, <1>4

LEMMA HonestKillSlot ==
  ASSUME HeaderInv, HeaderInv', HonestInv, NEW c \in Commands, KillSlot(c)
  PROVE  HonestInv'
<1>1. /\ Alone(c) /\ tokens' = tokens /\ pc[c] = "killSlot" /\ mem[c].idx \in DOMAIN mem[c].tok
      /\ (Fails(c) /\ slots' = slots) \/ Kills(c)
  BY KillSlotDoes
<1>2. /\ mem[c].tok \in Seq(Honest) /\ OnlyRemoves(c)
      /\ mem[c].for # "load" /\ mem[c].old \in Slots => Aims(mem[c].old, c)
  BY DEF HonestInv, OldAims
<1>3. CASE Fails(c) /\ slots' = slots
  BY <1>1, <1>2, <1>3, HonestRead DEF Fails, OnlyRemoves
<1>4. CASE Kills(c)
  <2>1. \A n \in Slots : slots'[n] \in Holders => slots'[n] = slots[n]
    BY <1>4 DEF Kills, HeaderInv, KeysInv, MainTypeOK
  <2>2. Honest \subseteq Honest'
    BY <1>1, <2>1, HonestStays DEF Alone
  <2>3. mem'[c].tok \in Seq(Honest')
    <3>1. RemoveAt(mem[c].tok, mem[c].idx) \in Seq(Honest)
      BY <1>1, <1>2, RemoveAtType
    <3>2. QED BY <1>4, <2>2, <3>1, SeqGrows DEF Kills
  <2>4. \A t \in TokenIds : tokens'[t].entries \in Seq(Honest')
    BY <1>1, <2>2, SeqGrows DEF HonestInv
  <2>5. /\ pc'[c] # "killSlot" /\ mem'[c].old = mem[c].old /\ mem'[c].for = mem[c].for
        /\ OnlyRemoves(c)'
    BY <1>1, <1>2, <1>4 DEF Kills, OnlyRemoves, Alone
  <2>6. QED BY <1>1, <1>2, <2>1, <2>3, <2>4, <2>5, HonestStep
<1>5. QED BY <1>1, <1>3, <1>4

LEMMA HonestToken ==
  ASSUME HeaderInv, HeaderInv', HonestInv, NEW c \in Commands, TokenRemove(c) \/ TokenImport(c)
  PROVE  HonestInv'
<1>1. /\ mem[c].tok \in Seq(Honest) /\ OnlyRemoves(c)
      /\ mem[c].for # "load" /\ mem[c].old \in Slots => Aims(mem[c].old, c)
  BY DEF HonestInv, OldAims
<1>2. /\ Alone(c) /\ slots' = slots
      /\ mem'[c].tok = mem[c].tok /\ mem'[c].old = mem[c].old /\ pc'[c] # "killSlot"
      /\ \/ mem'[c].for = mem[c].for
         \/ pc'[c] = "dump" /\ cmd[c].kind # "remove" /\ pc[c] = "tokenImport"
      /\ pc[c] \in {"tokenRemove", "tokenImport"}
      /\ \/ tokens' = tokens
         \/ \E t \in TokenIds : tokens' = [tokens EXCEPT ![t] = TokenWith(mem[c].tok)]
         \/ tokens' = [tokens EXCEPT ![mem[c].id] = NoToken]
  BY TokenRemoveDoes, TokenImportDoes DEF Fails, Halts, Turns, Imports, Ended
<1>3. Honest \subseteq Honest'
  BY <1>2, HonestStays DEF Alone
<1>4. \A t \in TokenIds : tokens'[t].entries \in Seq(Honest)
  <2>1. \A t \in TokenIds : tokens[t].entries \in Seq(Honest)
    BY DEF HonestInv
  <2>2. TokenWith(mem[c].tok).entries \in Seq(Honest) /\ NoToken.entries \in Seq(Honest)
    BY <1>1 DEF TokenWith, NoToken
  <2>3. \A t \in TokenIds : \/ tokens'[t] = tokens[t] \/ tokens'[t] = TokenWith(mem[c].tok)
                            \/ tokens'[t] = NoToken
    BY <1>2 DEF HeaderInv, KeysInv, MainTypeOK
  <2>4. QED BY <2>1, <2>2, <2>3
<1>5. /\ \A t \in TokenIds : tokens'[t].entries \in Seq(Honest')
      /\ mem'[c].tok \in Seq(Honest')
  BY <1>1, <1>2, <1>3, <1>4, SeqGrows
<1>6. /\ OnlyRemoves(c)'
      /\ mem'[c].for # "load" /\ mem'[c].old \in Slots => Aims(mem'[c].old, c)
  BY <1>1, <1>2 DEF OnlyRemoves, Alone
<1>7. QED BY <1>2, <1>5, <1>6, HonestStep

LEMMA HonestNext == HeaderInv /\ HonestInv /\ [Next]_vars => HonestInv'
<1> SUFFICES ASSUME HeaderInv, HonestInv, [Next]_vars PROVE HonestInv'
  OBVIOUS
<1>1. HeaderInv'
  BY HeaderStep
<1>2. ASSUME NEW c \in Commands,
             \/ Start(c) \/ Dump(c) \/ NoTokenFound(c) \/ Export(c)
             \/ AddKey(c) \/ TokenRemove(c) \/ TokenImport(c) \/ KillSlot(c)
             \/ Interrupt(c)
      PROVE  HonestInv'
  BY <1>1, <1>2, HonestReading, HonestAddKey, HonestKillSlot, HonestToken
<1>3. CASE UNCHANGED vars
  <2>1. slots' = slots /\ tokens' = tokens /\ cmd' = cmd /\ pc' = pc /\ mem' = mem
    BY <1>3 DEF vars, header
  <2>2. Honest' = Honest
    BY <2>1 DEF Honest
  <2>3. QED BY <2>1, <2>2 DEF HonestInv, Aims, OldAims, OnlyRemoves
<1>4. QED BY <1>2, <1>3 DEF Next

(* Whatever any command does, the keyslot of a holder no command names is  *)
(* not touched.                                                            *)
LEMMA KeyslotStays ==
  ASSUME HeaderInv, HonestInv, [Next]_vars, NEW h \in Holders, ~Named(h),
         NEW n \in Slots, slots[n] = h
  PROVE  slots'[n] = h
<1>1. h # "free"
  OBVIOUS
<1>2. ASSUME NEW c \in Commands, AddKey(c)
      PROVE  slots'[n] = h
  <2>1. CASE slots' = slots
    BY <2>1
  <2>2. CASE Adds(c)
    <3>1. n # mem[c].free
      BY <1>1, <2>2 DEF Adds
    <3>2. slots' = [slots EXCEPT ![mem[c].free] = c]
      BY <2>2 DEF Adds
    <3>3. QED BY <3>1, <3>2 DEF HeaderInv, KeysInv, MainTypeOK
  <2>3. QED BY <1>2, <2>1, <2>2, AddKeyDoes
<1>3. ASSUME NEW c \in Commands, KillSlot(c)
      PROVE  slots'[n] = h
  <2>1. CASE slots' = slots
    BY <2>1
  <2>2. CASE Kills(c)
    <3> DEFINE e == mem[c].tok[mem[c].idx]
    <3>1. Aims(e.slot, c)
      BY <1>3 DEF HonestInv, KillSlot
    <3>2. e.slot # n
      BY <3>1 DEF Aims, Named
    <3> HIDE DEF e
    <3>3. slots' = [slots EXCEPT ![e.slot] = "free"]
      BY <2>2 DEF Kills, e
    <3>4. QED BY <3>2, <3>3 DEF HeaderInv, KeysInv, MainTypeOK
  <2>3. QED BY <1>3, <2>1, <2>2, KillSlotDoes
<1>4. ASSUME NEW c \in Commands,
             \/ Start(c) \/ Dump(c) \/ NoTokenFound(c) \/ Export(c)
             \/ TokenRemove(c) \/ TokenImport(c) \/ Interrupt(c)
      PROVE  slots' = slots
  BY <1>4 DEF Start, Dump, NoTokenFound, Export, TokenRemove, TokenImport, Interrupt, header
<1>5. CASE UNCHANGED vars
  BY <1>5 DEF vars, header
<1>6. QED BY <1>2, <1>3, <1>4, <1>5 DEF Next

LEMMA InitHonest == Init => HonestInv
<1> SUFFICES ASSUME Init PROVE HonestInv
  OBVIOUS
<1>1. PICK len \in 0 .. Cardinality(Holders) :
        \E list \in Injection(1 .. len, Holders), key \in Keys :
          /\ \A i \in 1 .. len : FirstSlot + i \in Slots
          /\ EnrolledBefore(list, key)
  BY DEF Init
<1>2. PICK list \in Injection(1 .. len, Holders), key \in Keys :
        /\ \A i \in 1 .. len : FirstSlot + i \in Slots
        /\ EnrolledBefore(list, key)
  BY <1>1
<1>3. len \in Nat /\ Slots \subseteq Nat /\ FirstSlot \in Nat
  BY <1>1, FS_CardinalityType
<1>4. list \in [1 .. len -> Holders]
  BY <1>2 DEF Injection
<1>5. /\ slots = [n \in Slots |->
            IF n = FirstSlot THEN "passphrase"
            ELSE IF n - FirstSlot \in 1 .. len THEN list[n - FirstSlot] ELSE "free"]
      /\ \A t \in TokenIds : tokens[t] \in
           {NoToken, TokenWith([i \in 1 .. len |->
              [id |-> list[i], key |-> key, slot |-> FirstSlot + i, p |-> list[i]]])}
  BY <1>2, <1>4 DEF EnrolledBefore
<1>6. ASSUME NEW i \in 1 .. len
      PROVE  [id |-> list[i], key |-> key, slot |-> FirstSlot + i, p |-> list[i]] \in Honest
  <2>1. list[i] \in Holders /\ FirstSlot + i \in Slots
    BY <1>2, <1>4
  <2>2. slots[FirstSlot + i] = list[i]
    BY <1>3, <1>5, <2>1
  <2>3. PICK e \in Entry :
          e = [id |-> list[i], key |-> key, slot |-> FirstSlot + i, p |-> list[i]]
    BY <2>1 DEF Entry, Secrets
  <2>4. e.id = list[i] /\ e.slot = FirstSlot + i /\ e.p = list[i]
    BY <2>3
  <2>5. e \in Honest
    BY <2>1, <2>2, <2>4 DEF Honest
  <2>6. QED BY <2>3, <2>5
<1>7. [i \in 1 .. len |-> [id |-> list[i], key |-> key, slot |-> FirstSlot + i, p |-> list[i]]]
        \in Seq(Honest)
  BY <1>3, <1>6
<1>8. \A t \in TokenIds : tokens[t].entries \in Seq(Honest)
  <2>1. NoToken.entries \in Seq(Honest) /\ \A l \in Seq(Honest) : TokenWith(l).entries = l
    BY DEF NoToken, TokenWith
  <2>2. QED BY <1>5, <1>7, <2>1
<1>9. \A c \in Commands : mem[c].tok = <<>> /\ mem[c].old = NoSlot /\ pc[c] = "new"
  BY DEF Init
<1>10. \A c \in Commands : mem[c].tok \in Seq(Honest) /\ mem[c].old = NoSlot /\ pc[c] = "new"
  <2>1. <<>> \in Seq(Honest)
    OBVIOUS
  <2>2. QED BY <1>9, <2>1
<1>11. NoSlot \notin Slots
  BY DEF NoSlot
<1>12. QED BY <1>8, <1>10, <1>11 DEF HonestInv, OldAims, OnlyRemoves

(* Every entry ever written says truly whose secret it is and does not     *)
(* claim the keyslot of a holder enrolled before the first command, and no *)
(* command aims at the keyslot of such a holder unless it names it, in any *)
(* interleaving (enrolRecipient, selectRecipient, replaceRecipient).       *)
THEOREM HonestInvariant == Spec => []HonestInv
<1>1. Spec => [](HeaderInv /\ HonestInv)
  BY HeaderInit, InitHonest, HeaderStep, HonestNext, PTL DEF Spec
<1>2. QED BY <1>1, PTL

(* The keyslot of a key holder that no command names survives everything:  *)
(* commands at the same time, from stale tokens, interrupted anywhere.     *)
THEOREM KeyslotsOfOthersStay ==
  Spec => [][\A h \in Holders, n \in Slots : slots[n] = h /\ ~Named(h) => slots'[n] = h]_vars
<1>1. HeaderInv /\ HonestInv /\ [Next]_vars =>
        \A h \in Holders, n \in Slots : slots[n] = h /\ ~Named(h) => slots'[n] = h
  BY KeyslotStays
<1>2. QED BY <1>1, HeaderInvariant, HonestInvariant, PTL DEF Spec

-----------------------------------------------------------------------------
(* One command at a time. *)

(* With one token the list read is its list; with none it is empty. *)
LEMMA ListOfToken ==
  ASSUME \A t, u \in Present : t = u
  PROVE  /\ \A t \in Present : SeenToken = t /\ Listed = tokens[t].entries
         /\ Present = {} => SeenToken = NoTokenId /\ Listed = <<>>
         /\ SeenToken = NoTokenId => Present = {}
<1>1. ASSUME Present # {}
      PROVE  Least(Present) \in Present
  BY <1>1, LeastIsMember DEF Present
<1>2. Present \subseteq TokenIds /\ NoTokenId \notin TokenIds
  BY DEF Present, NoTokenId
<1>3. QED BY <1>1, <1>2 DEF SeenToken, Listed

(* What a reader of the header sees is in the tokens alone. *)
LEMMA SeenStays ==
  ASSUME tokens' = tokens
  PROVE  Present' = Present /\ SeenToken' = SeenToken /\ Listed' = Listed
<1>1. Present' = Present
  BY DEF Present
<1>2. SeenToken' = SeenToken
  BY <1>1 DEF SeenToken
<1>3. QED BY <1>1, <1>2 DEF Listed

(* The list a command reads is the one there is. *)
LEMMA ReadsListed ==
  ASSUME SerialInv, NEW c \in Commands, pc[c] = "export"
  PROVE  mem[c].id = SeenToken /\ ReadBy(c) = Listed
<1>1. mem[c].id = SeenToken /\ \A t, u \in Present : t = u
  BY DEF SerialInv
<1>2. CASE Present = {}
  BY <1>1, <1>2, ListOfToken DEF ReadBy
<1>3. CASE Present # {}
  <2>1. PICK t \in Present : TRUE
    BY <1>3
  <2>2. t # NoTokenId
    BY DEF Present, NoTokenId
  <2>3. QED BY <1>1, <2>1, <2>2, ListOfToken DEF ReadBy
<1>4. QED BY <1>2, <1>3

(* The one that runs is the one that moves. *)
LEMMA NobodyElseRuns ==
  ASSUME MaxRunning <= 1, SerialInv, NEW c \in Commands, pc[c] \in Running \/ Start(c)
  PROVE  \A d \in Commands \ {c} : pc[d] \notin Running
<1>1. CASE pc[c] \in Running
  BY <1>1 DEF SerialInv
<1>2. CASE Start(c)
  <2> DEFINE R == {d \in Commands : pc[d] \in Running}
  <2>1. ASSUME NEW d \in R
        PROVE  FALSE
    <3>1. R = {d}
      BY DEF SerialInv
    <3>2. Cardinality(R) = 1
      BY <3>1, FS_Singleton
    <3>3. Cardinality(R) < MaxRunning
      BY <1>2 DEF Start
    <3>4. QED BY <3>2, <3>3
  <2>2. QED BY <2>1
<1>3. QED BY <1>1, <1>2

LEMMA SerialStep ==
  ASSUME SerialInv, NEW c \in Commands, Alone(c),
         \A d \in Commands \ {c} : pc[d] \notin Running,
         (\A t, u \in Present : t = u)',
         (\A t \in TokenIds : tokens[t].present \/ tokens[t] = NoToken)',
         (pc[c] \in {"export", "addKey", "tokenRemove", "killSlot"} => mem[c].id = SeenToken)',
         (pc[c] \in {"addKey", "killSlot"} => mem[c].tok = Listed)',
         (pc[c] = "tokenImport" => Present = {})',
         (pc[c] = "new" => mem[c].gone = {})'
  PROVE  SerialInv'
<1>1. \A d \in Commands \ {c} : /\ pc'[d] = pc[d] /\ mem'[d] = mem[d] /\ pc[d] \notin Running
                                /\ pc[d] = "new" => mem[d].gone = {}
  BY DEF Alone, SerialInv
<1>2. {"export", "addKey", "tokenRemove", "killSlot", "tokenImport"} \subseteq Running
  BY DEF Running
<1>3. (\A d, g \in Commands : pc[d] \in Running /\ pc[g] \in Running => d = g)'
  BY <1>1
<1>4. ASSUME NEW d \in Commands
      PROVE  (/\ pc[d] \in {"export", "addKey", "tokenRemove", "killSlot"} => mem[d].id = SeenToken
              /\ pc[d] \in {"addKey", "killSlot"} => mem[d].tok = Listed
              /\ pc[d] = "tokenImport" => Present = {}
              /\ pc[d] = "new" => mem[d].gone = {})'
  BY <1>1, <1>2
<1>5. QED BY <1>3, <1>4 DEF SerialInv

LEMMA SerialNextOne ==
  ASSUME MaxRunning <= 1, HeaderInv, SerialInv, NEW c \in Commands,
         \/ Start(c) \/ Dump(c) \/ NoTokenFound(c) \/ Export(c)
         \/ AddKey(c) \/ TokenRemove(c) \/ TokenImport(c) \/ KillSlot(c)
         \/ Interrupt(c)
  PROVE  SerialInv'
<1>1. \A d \in Commands \ {c} : pc[d] \notin Running
  <2>1. pc[c] \in Running \/ Start(c)
    BY DEF Dump, NoTokenFound, Export, AddKey, TokenRemove, TokenImport, KillSlot, Interrupt,
           Running
  <2>2. QED BY <2>1, NobodyElseRuns
<1>2. tokens' = tokens => /\ (\A t, u \in Present : t = u)'
                          /\ (\A t \in TokenIds : tokens[t].present \/ tokens[t] = NoToken)'
                          /\ Present' = Present /\ SeenToken' = SeenToken /\ Listed' = Listed
  BY SeenStays DEF SerialInv
<1>3. pc[c] = "export" => mem[c].id = SeenToken /\ Listed = ReadBy(c)
  BY ReadsListed
<1>4. CASE Start(c)
  BY <1>1, <1>2, <1>4, StartDoes, SerialStep DEF Turns
<1>5. CASE Dump(c)
  BY <1>1, <1>2, <1>5, DumpDoes, SerialStep
<1>6. CASE NoTokenFound(c) \/ Export(c)
  <2>1. /\ Alone(c) /\ Considers(c, ReadBy(c)) /\ tokens' = tokens /\ pc[c] = "export"
    BY <1>6, Consideration DEF NoTokenFound, Export, header
  <2>2. \/ pc'[c] \in Ended \cup {"dump"}
        \/ /\ pc'[c] \in {"addKey", "killSlot"}
           /\ mem'[c].id = mem[c].id /\ mem'[c].tok = ReadBy(c)
    BY <2>1 DEF Considers, Fails, Halts, Turns, Takes, Ended
  <2>3. QED BY <1>1, <1>2, <1>3, <2>1, <2>2, SerialStep DEF Ended
<1>7. CASE Interrupt(c)
  BY <1>1, <1>2, <1>7, InterruptDoes, SerialStep DEF Fails
<1>8. CASE AddKey(c)
  <2>1. /\ Alone(c) /\ tokens' = tokens /\ pc[c] = "addKey"
        /\ Fails(c) \/ Adds(c)
    BY <1>8, AddKeyDoes
  <2>2. mem[c].id = SeenToken /\ \A t, u \in Present : t = u
    BY <2>1 DEF SerialInv
  <2>3. CASE Fails(c)
    BY <1>1, <1>2, <2>1, <2>3, SerialStep DEF Fails
  <2>4. CASE Adds(c)
    <3>1. \/ pc'[c] = "tokenRemove" /\ mem'[c].id = SeenToken
          \/ pc'[c] = "tokenImport" /\ Present = {}
      BY <2>2, <2>4, ListOfToken DEF Adds
    <3>2. QED BY <1>1, <1>2, <2>1, <3>1, SerialStep
  <2>5. QED BY <2>1, <2>3, <2>4
<1>9. CASE KillSlot(c)
  <2>1. /\ Alone(c) /\ tokens' = tokens /\ pc[c] = "killSlot"
        /\ Fails(c) \/ Kills(c)
    BY <1>9, KillSlotDoes
  <2>2. mem[c].id = SeenToken
    BY <2>1 DEF SerialInv
  <2>3. CASE Fails(c)
    BY <1>1, <1>2, <2>1, <2>3, SerialStep DEF Fails
  <2>4. CASE Kills(c)
    BY <1>1, <1>2, <2>1, <2>2, <2>4, SerialStep DEF Kills
  <2>5. QED BY <2>1, <2>3, <2>4
<1>10. CASE TokenRemove(c)
  <2>1. /\ Alone(c) /\ pc[c] = "tokenRemove"
        /\ \/ Fails(c) /\ tokens' = tokens
           \/ pc'[c] = "tokenImport" /\ tokens' = [tokens EXCEPT ![mem[c].id] = NoToken]
    BY <1>10, TokenRemoveDoes
  <2>2. CASE Fails(c) /\ tokens' = tokens
    BY <1>1, <1>2, <2>1, <2>2, SerialStep DEF Fails
  <2>3. CASE pc'[c] = "tokenImport" /\ tokens' = [tokens EXCEPT ![mem[c].id] = NoToken]
    <3>1. mem[c].id = SeenToken /\ \A t, u \in Present : t = u
      BY <2>1 DEF SerialInv
    <3>2. \A t \in Present : t = mem[c].id
      BY <3>1, ListOfToken
    <3>3. \A t \in TokenIds : /\ t = mem[c].id => tokens'[t] = NoToken
                              /\ t # mem[c].id => tokens'[t] = tokens[t]
      BY <2>3 DEF HeaderInv, KeysInv, MainTypeOK
    <3>4. ~NoToken.present
      BY DEF NoToken
    <3>5. Present' = {}
      BY <3>2, <3>3, <3>4 DEF Present
    <3>6. (\A t \in TokenIds : tokens[t].present \/ tokens[t] = NoToken)'
      BY <3>3 DEF SerialInv
    <3>7. QED BY <1>1, <2>1, <2>3, <3>5, <3>6, SerialStep
  <2>4. QED BY <2>1, <2>2, <2>3
<1>11. CASE TokenImport(c)
  <2>1. /\ Alone(c) /\ pc[c] = "tokenImport"
        /\ (Fails(c) /\ tokens' = tokens) \/ Imports(c)
    BY <1>11, TokenImportDoes
  <2>2. CASE Fails(c) /\ tokens' = tokens
    BY <1>1, <1>2, <2>1, <2>2, SerialStep DEF Fails
  <2>3. CASE Imports(c)
    <3>1. PICK t \in TokenIds : tokens' = [tokens EXCEPT ![t] = TokenWith(mem[c].tok)]
      BY <2>3 DEF Imports
    <3>2. pc'[c] \in {"dump", "ok"}
      BY <2>3 DEF Imports, Turns
    <3>3. Present = {}
      BY <2>1 DEF SerialInv
    <3>4. TokenWith(mem[c].tok).present
      BY DEF TokenWith
    <3>5. \A u \in TokenIds : IF u = t THEN tokens'[u].present ELSE tokens'[u] = tokens[u]
      BY <3>1, <3>4 DEF HeaderInv, KeysInv, MainTypeOK
    <3>6. Present' = {t}
      BY <3>3, <3>5 DEF Present
    <3>7. (\A u \in TokenIds : tokens[u].present \/ tokens[u] = NoToken)'
      BY <3>5 DEF SerialInv
    <3>8. QED BY <1>1, <2>1, <3>2, <3>6, <3>7, SerialStep
  <2>4. QED BY <2>1, <2>2, <2>3
<1>12. QED BY <1>4, <1>5, <1>6, <1>7, <1>8, <1>9, <1>10, <1>11

LEMMA InitSerial == Init => SerialInv
<1> SUFFICES ASSUME Init PROVE SerialInv
  OBVIOUS
<1>1. PICK len \in 0 .. Cardinality(Holders) :
        \E list \in Injection(1 .. len, Holders), key \in Keys : EnrolledBefore(list, key)
  BY DEF Init
<1>2. PICK list \in Injection(1 .. len, Holders), key \in Keys : EnrolledBefore(list, key)
  BY <1>1
<1>3. \A t \in TokenIds : \/ tokens[t] = NoToken
                          \/ t = Least(TokenIds) /\ tokens[t].present
  BY <1>2 DEF EnrolledBefore, TokenWith
<1>4. Present \subseteq {Least(TokenIds)}
  <2>1. ~NoToken.present
    BY DEF NoToken
  <2>2. QED BY <1>3, <2>1 DEF Present
<1>5. \A c \in Commands : pc[c] = "new" /\ mem[c].gone = {}
  BY DEF Init
<1>6. QED BY <1>3, <1>4, <1>5 DEF SerialInv, Running

-----------------------------------------------------------------------------
(* A holder is enrolled once. *)

(* The list seen is a list of entries, each naming a keyslot. *)
LEMMA ListedType ==
  ASSUME HeaderInv
  PROVE  /\ Listed \in Seq(Sound) /\ Listed \in Seq(Entry)
         /\ \A i \in DOMAIN Listed : Listed[i] \in Entry /\ Listed[i].slot \in Slots
<1>1. Listed \in Seq(Sound)
  <2>1. CASE Present = {}
    BY <2>1 DEF Listed
  <2>2. CASE Present # {}
    <3>1. Least(Present) \in Present
      BY <2>2, LeastIsMember DEF Present
    <3>2. Listed = tokens[Least(Present)].entries /\ Least(Present) \in TokenIds
      BY <2>2, <3>1 DEF Listed, SeenToken, Present
    <3>3. QED BY <3>2 DEF HeaderInv, KeysInv
  <2>3. QED BY <2>1, <2>2
<1>2. Listed \in Seq(Entry)
  BY <1>1, SeqGrows DEF Sound
<1>3. \A i \in DOMAIN Listed : Listed[i] \in Entry
  BY <1>2
<1>4. QED BY <1>1, <1>2, <1>3 DEF Entry

(* Before a step of the one that runs, none having failed after it. *)
LEMMA NeatBefore ==
  ASSUME NeatInv, NEW c \in Commands, Alone(c), pc[c] \in Running \cup {"new"},
         \A d \in Commands \ {c} : pc[d] \notin Running, Untroubled'
  PROVE  /\ pc[c] \in Running => Orderly(c)
         /\ pc[c] = "new" => Neat(Listed) /\ OnceBut(Listed, NoSlot)
<1>1. pc[c] # "failed" /\ "new" \notin Running
  BY DEF Running
<1>2. Untroubled
  BY <1>1 DEF Untroubled, Alone
<1>3. QED BY <1>1, <1>2 DEF NeatInv

(* What a move has listed stays so, as long as no command fails. *)
LEMMA TwiceGrows ==
  ASSUME HeaderInv, NEW c \in Commands, Untroubled',
         \/ Start(c) \/ Dump(c) \/ NoTokenFound(c) \/ Export(c)
         \/ AddKey(c) \/ TokenRemove(c) \/ TokenImport(c) \/ KillSlot(c)
         \/ Interrupt(c)
  PROVE  Twice \subseteq Twice'
<1> DEFINE Added == ~NotAdded(c) /\ pc[c] \in Running \cup {"ok"}
<1>1. pc'[c] # "failed"
  BY DEF Untroubled
<1>2. Alone(c) /\ (Added => Added')
  <2>1. CASE Start(c)
    BY <2>1, StartDoes DEF NotAdded
  <2>2. CASE Dump(c)
    BY <2>2, DumpDoes DEF NotAdded, Running
  <2>3. CASE NoTokenFound(c) \/ Export(c)
    <3>1. Alone(c) /\ Considers(c, ReadBy(c)) /\ pc[c] = "export"
      BY <2>3, Consideration DEF NoTokenFound, Export
    <3>2. mem[c].for = "reload" => pc'[c] = "killSlot"
      BY <1>1, <3>1 DEF Considers, Fails, Turns, Takes
    <3>3. QED BY <3>1, <3>2 DEF NotAdded, Running
  <2>4. CASE AddKey(c)
    BY <2>4, AddKeyDoes DEF NotAdded
  <2>5. CASE TokenRemove(c)
    BY <1>1, <2>5, TokenRemoveDoes DEF NotAdded, Running, Fails
  <2>6. CASE TokenImport(c)
    BY <1>1, <2>6, TokenImportDoes DEF NotAdded, Running, Fails, Imports, Turns
  <2>7. CASE KillSlot(c)
    BY <1>1, <2>7, KillSlotDoes DEF NotAdded, Running, Fails, Kills
  <2>8. CASE Interrupt(c)
    BY <1>1, <2>8, InterruptDoes DEF Fails
  <2>9. QED BY <2>1, <2>2, <2>3, <2>4, <2>5, <2>6, <2>7, <2>8
<1>3. \A d \in Commands \ {c} : pc'[d] = pc[d] /\ mem'[d] = mem[d] /\ cmd' = cmd
  BY <1>2 DEF Alone
<1>4. \A d \in Commands \ {c} : NotAdded(d)' <=> NotAdded(d)
  BY <1>3 DEF NotAdded
<1>5. cmd' = cmd
  BY <1>2 DEF Alone
<1>6. QED BY <1>2, <1>3, <1>4, <1>5 DEF Twice

LEMMA NeatStep ==
  ASSUME NEW c \in Commands, Alone(c),
         \A d \in Commands \ {c} : pc[d] \notin Running,
         Untroubled' => /\ (pc[c] \in Running => Orderly(c))'
                        /\ (pc[c] \notin Running => Neat(Listed) /\ OnceBut(Listed, NoSlot))'
  PROVE  NeatInv'
<1>1. \A d \in Commands \ {c} : pc'[d] \notin Running
  BY DEF Alone
<1>2. QED BY <1>1 DEF NeatInv

(* The header is as it was, the command has failed or ended. *)
LEMMA NeatEnds ==
  ASSUME NEW c \in Commands, Alone(c), UNCHANGED <<slots, tokens>>,
         \A d \in Commands \ {c} : pc[d] \notin Running,
         pc'[c] \in Ended, Untroubled' => Twice \subseteq Twice',
         pc'[c] = "failed" \/ ~Untroubled' \/ (Neat(Listed) /\ OnceBut(Listed, NoSlot))
  PROVE  NeatInv'
<1>1. pc'[c] \notin Running
  BY DEF Ended, Running
<1>2. pc'[c] = "failed" => ~Untroubled'
  BY DEF Untroubled
<1>3. /\ Untroubled' /\ Neat(Listed) /\ OnceBut(Listed, NoSlot)
      => (Neat(Listed) /\ OnceBut(Listed, NoSlot))'
  BY SeenStays DEF Neat, NeatIn, OnceBut, Opens
<1>4. QED BY <1>1, <1>2, <1>3, NeatStep

LEMMA NeatStart ==
  ASSUME MaxRunning <= 1, HeaderInv, SerialInv, NeatInv, NEW c \in Commands, Start(c)
  PROVE  NeatInv'
<1>0. Untroubled' => Twice \subseteq Twice'
  BY TwiceGrows
<1>1. /\ Alone(c) /\ UNCHANGED <<slots, tokens>> /\ pc[c] = "new"
      /\ \/ cmd[c].kind \notin {"anon", "remove"} /\ Turns(c, "plan", NoSlot)
         \/ cmd[c].kind = "anon" /\ Turns(c, "base", NoSlot)
         \/ Turns(c, "load", NoSlot)
  BY StartDoes
<1>2. \A d \in Commands \ {c} : pc[d] \notin Running
  BY NobodyElseRuns
<1>3. ASSUME Untroubled'
      PROVE  Orderly(c)'
  <2>1. Neat(Listed) /\ OnceBut(Listed, NoSlot) /\ mem[c].gone = {}
    BY <1>1, <1>2, <1>3, NeatBefore DEF SerialInv
  <2>2. Listed' = Listed /\ slots' = slots /\ cmd' = cmd
    BY <1>1, SeenStays DEF Alone
  <2>3. pc'[c] = "dump" /\ mem'[c].gone = {} /\ mem'[c].old = NoSlot
    BY <1>1, <2>1 DEF Turns
  <2>4. Neat(Listed)' /\ OnceBut(Listed, NoSlot)'
    BY <1>0, <1>3, <2>1, <2>2 DEF Neat, NeatIn, Opens, OnceBut
  <2>5. cmd[c].kind = "anon" => cmd[c].newId = NoId
    BY DEF HeaderInv, KeysInv, MainTypeOK, Arguments
  <2>6. /\ cmd[c].kind = "remove" => mem'[c].for = "load"
        /\ mem'[c].for = "base" => cmd[c].newId = NoId
        /\ mem'[c].for # "reload"
    BY <1>1, <2>5 DEF Turns
  <2>7. cmd[c].newId = NoId => Matching(Listed, cmd[c].newId)' = {}
    BY <2>2 DEF Matching
  <2>8. QED BY <2>2, <2>3, <2>4, <2>6, <2>7 DEF Orderly
<1>4. pc'[c] \in Running
  BY <1>1 DEF Turns, Running
<1>5. QED BY <1>1, <1>2, <1>3, <1>4, NeatStep

LEMMA NeatDump ==
  ASSUME MaxRunning <= 1, HeaderInv, SerialInv, NeatInv, NEW c \in Commands, Dump(c)
  PROVE  NeatInv'
<1>0. Untroubled' => Twice \subseteq Twice'
  BY TwiceGrows
<1>1. /\ Alone(c) /\ UNCHANGED <<slots, tokens>> /\ pc[c] = "dump"
      /\ pc'[c] = "export" /\ mem'[c].tok = mem[c].tok
      /\ mem'[c].for = mem[c].for /\ mem'[c].old = mem[c].old /\ mem'[c].gone = mem[c].gone
  BY DumpDoes
<1>2. pc[c] \in Running /\ pc'[c] \in Running
  BY <1>1 DEF Running
<1>3. \A d \in Commands \ {c} : pc[d] \notin Running
  BY <1>2, NobodyElseRuns
<1>4. ASSUME Untroubled'
      PROVE  Orderly(c)'
  <2>1. Orderly(c)
    BY <1>1, <1>2, <1>3, <1>4, NeatBefore
  <2>2. Listed' = Listed /\ slots' = slots /\ cmd' = cmd
    BY <1>1, SeenStays DEF Alone
  <2>3. QED BY <1>0, <1>1, <1>4, <2>1, <2>2
            DEF Orderly, Neat, NeatIn, Opens, OnceBut, HasMade, Matching
<1>5. QED BY <1>1, <1>2, <1>3, <1>4, NeatStep

LEMMA NeatExport ==
  ASSUME MaxRunning <= 1, HeaderInv, SerialInv, NeatInv,
         NEW c \in Commands, NoTokenFound(c) \/ Export(c)
  PROVE  NeatInv'
<1>0. Untroubled' => Twice \subseteq Twice'
  BY TwiceGrows
<1>1. /\ Alone(c) /\ Considers(c, ReadBy(c)) /\ UNCHANGED <<slots, tokens>>
      /\ pc[c] = "export"
  BY Consideration DEF NoTokenFound, Export, header
<1>2. pc[c] \in Running
  BY <1>1 DEF Running
<1>3. \A d \in Commands \ {c} : pc[d] \notin Running
  BY <1>2, NobodyElseRuns
<1>4. mem[c].id = SeenToken /\ ReadBy(c) = Listed
  BY <1>1, ReadsListed
<1>5. /\ Listed' = Listed /\ slots' = slots /\ cmd' = cmd
      /\ \A i \in DOMAIN Listed : Listed[i].slot \in Slots
      /\ NoSlot \notin Slots
  BY <1>1, SeenStays, ListedType DEF Alone, NoSlot
<1>6. SUFFICES ASSUME Untroubled' PROVE NeatInv'
  BY DEF NeatInv
<1>7. Orderly(c)
  BY <1>1, <1>2, <1>3, <1>6, NeatBefore
<1>8. /\ mem[c].gone = {} /\ Neat(Listed)
      /\ mem[c].for # "reload" => OnceBut(Listed, NoSlot)
  BY <1>1, <1>7 DEF Orderly
<1>9. CASE Fails(c)
  BY <1>0, <1>1, <1>3, <1>9, NeatEnds DEF Fails, Ended
<1>10. CASE Halts(c) /\ pc'[c] # "failed" /\ mem[c].for # "reload"
  BY <1>0, <1>1, <1>3, <1>8, <1>10, NeatEnds DEF Halts
<1>11. CASE /\ mem[c].for = "plan" /\ Matching(Listed, cmd[c].newId) = {}
            /\ Turns(c, "base", NoSlot)
  <2>1. Orderly(c)'
    BY <1>0, <1>5, <1>6, <1>7, <1>8, <1>11 DEF Orderly, Turns, Neat, NeatIn, Opens, OnceBut, Matching
  <2>2. pc'[c] \in Running
    BY <1>11 DEF Turns, Running
  <2>3. QED BY <1>1, <1>3, <2>1, <2>2, NeatStep
<1>12. CASE /\ mem[c].for = "plan" /\ cmd[c].kind = "pair"
            /\ \E old : Turns(c, "load", old)
  <2>1. Orderly(c)'
    BY <1>0, <1>5, <1>6, <1>7, <1>8, <1>12 DEF Orderly, Turns, Neat, NeatIn, Opens, OnceBut, Matching
  <2>2. pc'[c] \in Running
    BY <1>12 DEF Turns, Running
  <2>3. QED BY <1>1, <1>3, <2>1, <2>2, NeatStep
<1>13. CASE /\ mem[c].for = "load" /\ cmd[c].kind = "remove"
            /\ \E i \in Matching(Listed, cmd[c].id) :
                 Takes(c, "killSlot", Listed) /\ mem'[c].idx = i
  <2>1. pc'[c] = "killSlot" /\ mem'[c].for = "load" /\ mem'[c].old = mem[c].old
    BY <1>13 DEF Takes
  <2>2. Neat(Listed)' /\ \A n \in Slots : OnceBut(Listed, n)'
    BY <1>0, <1>5, <1>6, <1>8, <1>13 DEF Neat, NeatIn, Opens, OnceBut
  <2>3. OnceBut(Listed, mem[c].tok[mem[c].idx].slot)'
    BY <1>0, <1>5, <1>6, <1>8, <1>13 DEF OnceBut, Takes
  <2>4. Orderly(c)'
    BY <1>5, <1>7, <1>13, <2>1, <2>2, <2>3 DEF Orderly
  <2>5. pc'[c] \in Running
    BY <2>1 DEF Running
  <2>6. QED BY <1>1, <1>3, <2>4, <2>5, NeatStep
<1>14. CASE /\ mem[c].for = "load" /\ cmd[c].kind # "remove"
            /\ \E i \in Matching(Listed, cmd[c].id) : Turns(c, "base", Listed[i].slot)
  <2>1. PICK i \in Matching(Listed, cmd[c].id) : Turns(c, "base", Listed[i].slot)
    BY <1>14
  <2>2. i \in DOMAIN Listed /\ Listed[i].id = cmd[c].id /\ cmd[c].id # NoId
    BY DEF Matching
  <2>3. slots[Listed[i].slot] # "free"
    <3>1. Listed[i] \in Entry
      BY <2>2, ListedType
    <3>2. Listed[i].p # "free"
      BY <3>1 DEF Entry, Secrets
    <3>3. QED BY <1>8, <2>2, <3>2 DEF Neat, NeatIn, Opens
  <2>4. cmd[c].kind # "move" /\ cmd[c].newId \notin Twice =>
          \A j \in Matching(Listed, cmd[c].newId) : j = i
    <3>1. cmd[c].kind \in AllKinds /\ cmd[c] \in Arguments
      BY DEF HeaderInv, KeysInv, MainTypeOK, Arguments
    <3>2. cmd[c].kind # "move" => cmd[c].newId \in {NoId, cmd[c].id}
      BY <1>14, <3>1 DEF Arguments, AllKinds
    <3>3. QED BY <1>5, <1>8, <1>14, <2>2, <3>2 DEF Matching, OnceBut
  <2>5. /\ pc'[c] = "dump" /\ mem'[c].for = "base" /\ mem'[c].old = Listed[i].slot
        /\ mem'[c].gone = {}
    BY <1>8, <2>1 DEF Turns
  <2>6. Neat(Listed)' /\ OnceBut(Listed, NoSlot)'
    BY <1>0, <1>5, <1>6, <1>8, <1>14 DEF Neat, NeatIn, Opens, OnceBut
  <2>7. (cmd[c].kind # "move" /\ cmd[c].newId \notin Twice =>
           \A j \in Matching(Listed, cmd[c].newId) : Listed[j].slot = mem[c].old)'
    BY <1>0, <1>5, <1>6, <2>4, <2>5 DEF Matching
  <2>8. Orderly(c)'
    BY <1>5, <1>14, <2>3, <2>5, <2>6, <2>7 DEF Orderly
  <2>9. pc'[c] \in Running
    BY <2>5 DEF Running
  <2>10. QED BY <1>1, <1>3, <2>8, <2>9, NeatStep
<1>15. CASE mem[c].for = "base" /\ Takes(c, "addKey", Listed)
  <2>1. cmd[c].kind # "remove"
    BY <1>7, <1>15 DEF Orderly
  <2>2. Orderly(c)'
    BY <1>0, <1>1, <1>5, <1>6, <1>7, <1>8, <1>15, <2>1 DEF Orderly, Takes, Neat, NeatIn, Opens, OnceBut, Matching
  <2>3. pc'[c] \in Running
    BY <1>15 DEF Takes, Running
  <2>4. QED BY <1>1, <1>3, <2>2, <2>3, NeatStep
<1>16. CASE /\ mem[c].for = "reload"
            /\ \E i \in DOMAIN Listed :
                 /\ Listed[i].slot = mem[c].old
                 /\ Takes(c, "killSlot", Listed) /\ mem'[c].idx = i
  <2>1. cmd[c].kind # "remove" /\ OnceBut(Listed, mem[c].old) /\ HasMade(c, Listed)
    BY <1>1, <1>7, <1>16 DEF Orderly
  <2>2. /\ pc'[c] = "killSlot" /\ mem'[c].old = mem[c].old
        /\ mem'[c].tok[mem'[c].idx].slot = mem[c].old
    BY <1>16 DEF Takes
  <2>3. Neat(Listed)' /\ HasMade(c, Listed)'
    BY <1>5, <1>8, <2>1, <2>2 DEF Neat, NeatIn, Opens, HasMade
  <2>4. OnceBut(Listed, mem[c].tok[mem[c].idx].slot)'
    BY <1>0, <1>5, <1>6, <2>1, <2>2 DEF OnceBut
  <2>5. Orderly(c)'
    BY <1>5, <2>1, <2>2, <2>3, <2>4 DEF Orderly
  <2>6. pc'[c] \in Running
    BY <2>2 DEF Running
  <2>7. QED BY <1>1, <1>3, <2>5, <2>6, NeatStep
<1>17. QED
  BY <1>1, <1>4, <1>9, <1>10, <1>11, <1>12, <1>13, <1>14, <1>15, <1>16 DEF Considers

(* A list stays neat while the keyslots that it names are left alone. *)
LEMMA OthersStayNeat ==
  ASSUME HeaderInv, NEW entries \in Seq(Entry), NEW n, NEW v, NeatIn(slots, entries),
         \A i \in DOMAIN entries : entries[i].slot # n,
         slots' = [slots EXCEPT ![n] = v]
  PROVE  NeatIn(slots', entries)
<1>1. \A i \in DOMAIN entries : entries[i].slot \in Slots
  <2>1. \A i \in DOMAIN entries : entries[i] \in Entry
    OBVIOUS
  <2>2. QED BY <2>1 DEF Entry
<1>2. \A k \in Slots : k # n => slots'[k] = slots[k]
  BY DEF HeaderInv, KeysInv, MainTypeOK
<1>3. QED BY <1>1, <1>2 DEF NeatIn

(* A longer list is neat if its last entry is in a keyslot of its own. *)
LEMMA AppendIsNeat ==
  ASSUME HeaderInv, NEW entries \in Seq(Entry), NEW e, NEW n \in Slots,
         NeatIn(slots, entries), slots[n] = "free",
         slots' = [slots EXCEPT ![n] = e.p], e.slot = n
  PROVE  NeatIn(slots', Append(entries, e))
<1> DEFINE longer == Append(entries, e)
<1>1. \A i \in DOMAIN entries : entries[i].slot # n
  <2>1. \A i \in DOMAIN entries : entries[i] \in Entry
    OBVIOUS
  <2>2. "free" \notin Secrets
    BY EnrolmentAssumption DEF Secrets
  <2>3. QED BY <2>1, <2>2 DEF NeatIn, Entry
<1>2. NeatIn(slots', entries)
  BY <1>1, OthersStayNeat
<1>3. slots'[n] = e.p
  BY DEF HeaderInv, KeysInv, MainTypeOK
<1>4. /\ DOMAIN longer = 1 .. Len(entries) + 1 /\ DOMAIN entries = 1 .. Len(entries)
      /\ \A i \in 1 .. Len(entries) : longer[i] = entries[i]
      /\ longer[Len(entries) + 1] = e /\ Len(entries) \in Nat
  OBVIOUS
<1> HIDE DEF longer
<1>5. \A i \in DOMAIN longer : slots'[longer[i].slot] = longer[i].p
  BY <1>2, <1>3, <1>4 DEF NeatIn
<1>6. \A i, j \in DOMAIN longer : longer[i].slot = longer[j].slot => i = j
  BY <1>1, <1>2, <1>4 DEF NeatIn
<1>7. QED BY <1>5, <1>6 DEF NeatIn, longer

(* A neat list stays so when an entry goes with its keyslot. *)
LEMMA RestIsNeat ==
  ASSUME HeaderInv, NEW entries \in Seq(Entry), NEW k \in DOMAIN entries,
         NeatIn(slots, entries), slots' = [slots EXCEPT ![entries[k].slot] = "free"]
  PROVE  NeatIn(slots', RemoveAt(entries, k))
<1> DEFINE rest == RemoveAt(entries, k)
           from(i) == IF i < k THEN i ELSE i + 1
<1>1. /\ \A i \in DOMAIN rest : /\ from(i) \in DOMAIN entries /\ from(i) # k
                                /\ rest[i] = entries[from(i)]
      /\ \A i, j \in DOMAIN rest : from(i) = from(j) => i = j
  BY RemoveAtElements
<1> HIDE DEF rest, from
<1>2. \A n \in Slots : n # entries[k].slot => slots'[n] = slots[n]
  BY DEF HeaderInv, KeysInv, MainTypeOK
<1>3. \A i \in DOMAIN entries : i # k => entries[i].slot # entries[k].slot
  BY DEF NeatIn
<1>4. \A i \in DOMAIN entries : entries[i].slot \in Slots
  <2>1. \A i \in DOMAIN entries : entries[i] \in Entry
    OBVIOUS
  <2>2. QED BY <2>1 DEF Entry
<1>5. \A i \in DOMAIN rest : slots'[rest[i].slot] = rest[i].p
  BY <1>1, <1>2, <1>3, <1>4 DEF NeatIn
<1>6. \A i, j \in DOMAIN rest : rest[i].slot = rest[j].slot => i = j
  BY <1>1 DEF NeatIn
<1>7. QED BY <1>5, <1>6 DEF NeatIn, rest

LEMMA NeatAddKey ==
  ASSUME MaxRunning <= 1, HeaderInv, SerialInv, NeatInv, NEW c \in Commands, AddKey(c)
  PROVE  NeatInv'
<1> DEFINE n == mem[c].free
           e == NewEntry(c)
           longer == Append(Listed, e)
<1>0. Untroubled' => Twice \subseteq Twice'
  BY TwiceGrows
<1>1. /\ Alone(c) /\ tokens' = tokens /\ pc[c] = "addKey" /\ n \in Slots
      /\ (Fails(c) /\ slots' = slots) \/ Adds(c)
  BY AddKeyDoes
<1>2. pc[c] \in Running
  BY <1>1 DEF Running
<1>3. \A d \in Commands \ {c} : pc[d] \notin Running
  BY <1>2, NobodyElseRuns
<1>4. CASE Fails(c) /\ slots' = slots
  BY <1>0, <1>1, <1>3, <1>4, NeatEnds DEF Fails, Ended
<1>5. CASE Adds(c)
  <2> SUFFICES ASSUME Untroubled' PROVE NeatInv'
    BY DEF NeatInv
  <2>1. Orderly(c)
    BY <1>1, <1>2, <1>3, NeatBefore
  <2>2. /\ mem[c].gone = {} /\ Neat(Listed) /\ OnceBut(Listed, NoSlot)
        /\ cmd[c].kind # "remove"
        /\ cmd[c].kind # "move" /\ cmd[c].newId \notin Twice =>
             \A i \in Matching(Listed, cmd[c].newId) : Listed[i].slot = mem[c].old
        /\ mem[c].old # NoSlot => slots[mem[c].old] # "free"
        /\ mem[c].for = "base"
    BY <1>1, <2>1 DEF Orderly
  <2>3. /\ e.id = cmd[c].newId /\ e.key = cmd[c].key /\ e.slot = n /\ e.p = c
    BY DEF NewEntry
  <2>4. mem'[c].tok = longer
    BY <1>1, <1>5 DEF Adds, SerialInv
  <2> HIDE DEF e
  <2>5. /\ Listed \in Seq(Entry)
        /\ \A i \in DOMAIN Listed : Listed[i].slot \in Slots /\ Listed[i].p # "free"
    <3>1. \A i \in DOMAIN Listed : Listed[i] \in Entry
      BY ListedType
    <3>2. QED BY <3>1, ListedType DEF Entry, Secrets
  <2>6. /\ DOMAIN longer = 1 .. Len(Listed) + 1 /\ DOMAIN Listed = 1 .. Len(Listed)
        /\ \A i \in 1 .. Len(Listed) : longer[i] = Listed[i]
        /\ longer[Len(Listed) + 1] = e
        /\ Len(Listed) \in Nat
    BY <2>5
  <2> HIDE DEF longer
  <2>7. /\ slots'[n] = c /\ slots[n] = "free"
        /\ \A k \in Slots : k # n => slots'[k] = slots[k]
    BY <1>1, <1>5 DEF Adds, HeaderInv, KeysInv, MainTypeOK
  <2>8. \A i \in DOMAIN Listed : Listed[i].slot # n
    BY <2>2, <2>5, <2>7 DEF Neat, NeatIn, Opens
  <2>9. Neat(mem[c].tok)'
    <3>1. NeatIn(slots', Append(Listed, e))
      BY <1>1, <1>5, <2>2, <2>3, <2>5, <2>7, AppendIsNeat DEF Adds, Neat
    <3>2. QED BY <2>4, <3>1 DEF Neat, longer
  <2>10. OnceBut(mem[c].tok, mem[c].old)'
    <3>1. \A i, j \in DOMAIN Listed :
            Listed[i].id = Listed[j].id /\ Listed[i].id \notin Twice \cup {NoId} => i = j
      <4>1. \A i \in DOMAIN Listed : Listed[i].slot # NoSlot
        BY <2>5 DEF NoSlot
      <4>2. QED BY <2>2, <4>1 DEF OnceBut
    <3>2. cmd[c].kind = "move" => cmd[c].newId \in Twice'
      <4>1. cmd[c].kind = "move" => cmd[c].newId \in Holders
        BY DEF HeaderInv, KeysInv, MainTypeOK, Arguments
      <4>2. (~NotAdded(c) /\ pc[c] \in Running)'
        BY <1>5, <2>2 DEF Adds, NotAdded, Running
      <4>3. cmd' = cmd
        BY <1>1 DEF Alone
      <4>4. QED BY <4>1, <4>2, <4>3 DEF Twice
    <3>3. \A i \in DOMAIN Listed :
            Listed[i].id = e.id /\ e.id \notin Twice' \cup {NoId} =>
              Listed[i].slot = mem[c].old
      BY <1>0, <2>2, <2>3, <3>2 DEF Matching
    <3>4. \A i, j \in DOMAIN longer :
            /\ longer[i].id = longer[j].id /\ longer[i].id \notin Twice' \cup {NoId}
            /\ longer[i].slot # mem[c].old /\ longer[j].slot # mem[c].old
            => i = j
      BY <1>0, <2>6, <3>1, <3>3
    <3>5. mem'[c].old = mem[c].old
      BY <1>5 DEF Adds
    <3>6. QED BY <2>4, <3>4, <3>5 DEF OnceBut
  <2>11. HasMade(c, mem[c].tok)'
    <3>1. e.slot # mem[c].old
      BY <1>1, <2>2, <2>3, <2>7 DEF NoSlot
    <3>2. Len(Listed) + 1 \in DOMAIN longer
      BY <2>6
    <3>3. cmd' = cmd /\ mem'[c].old = mem[c].old
      BY <1>1, <1>5 DEF Alone, Adds
    <3>4. QED BY <2>3, <2>4, <2>6, <3>1, <3>2, <3>3 DEF HasMade
  <2>12. /\ pc'[c] \in {"tokenRemove", "tokenImport"}
         /\ mem'[c].gone = {} /\ mem'[c].old = mem[c].old /\ cmd' = cmd
    BY <1>1, <1>5, <2>2 DEF Adds, Alone
  <2>13. OnceBut(mem[c].tok, IF mem[c].gone = {} THEN mem[c].old ELSE NoSlot)'
    BY <2>4, <2>10, <2>12 DEF OnceBut
  <2>14. Orderly(c)'
    BY <2>2, <2>9, <2>11, <2>12, <2>13 DEF Orderly
  <2>15. pc'[c] \in Running
    BY <2>12 DEF Running
  <2>16. QED BY <1>1, <1>3, <2>14, <2>15, NeatStep
<1>6. QED BY <1>1, <1>4, <1>5

LEMMA NeatKillSlot ==
  ASSUME MaxRunning <= 1, HeaderInv, SerialInv, NeatInv, NEW c \in Commands, KillSlot(c)
  PROVE  NeatInv'
<1> DEFINE k == mem[c].idx
           e == mem[c].tok[mem[c].idx]
           rest == RemoveAt(mem[c].tok, mem[c].idx)
           from(i) == IF i < k THEN i ELSE i + 1
           to(j) == IF j < k THEN j ELSE j - 1
<1>0. Untroubled' => Twice \subseteq Twice'
  BY TwiceGrows
<1>1. /\ Alone(c) /\ tokens' = tokens /\ pc[c] = "killSlot"
      /\ mem[c].idx \in DOMAIN mem[c].tok
      /\ (Fails(c) /\ slots' = slots) \/ Kills(c)
  BY KillSlotDoes
<1>2. pc[c] \in Running
  BY <1>1 DEF Running
<1>3. \A d \in Commands \ {c} : pc[d] \notin Running
  BY <1>2, NobodyElseRuns
<1>4. CASE Fails(c) /\ slots' = slots
  BY <1>0, <1>1, <1>3, <1>4, NeatEnds DEF Fails, Ended
<1>5. CASE Kills(c)
  <2> SUFFICES ASSUME Untroubled' PROVE NeatInv'
    BY DEF NeatInv
  <2>1. mem[c].tok = Listed /\ k \in DOMAIN Listed /\ e = Listed[k]
    BY <1>1 DEF SerialInv
  <2>2. Orderly(c)
    BY <1>1, <1>2, <1>3, NeatBefore
  <2>3. /\ Neat(Listed) /\ OnceBut(Listed, e.slot)
        /\ cmd[c].kind # "remove" => e.slot = mem[c].old /\ HasMade(c, Listed)
        /\ cmd[c].kind = "remove" => mem[c].for = "load" /\ mem[c].old = NoSlot
    BY <1>1, <2>1, <2>2 DEF Orderly
  <2>4. /\ \A i \in DOMAIN rest : /\ from(i) \in DOMAIN Listed /\ from(i) # k
                                  /\ rest[i] = Listed[from(i)]
        /\ \A j \in DOMAIN Listed : j # k => to(j) \in DOMAIN rest /\ rest[to(j)] = Listed[j]
        /\ \A i, j \in DOMAIN rest : from(i) = from(j) => i = j
    BY <2>1, ListedType, RemoveAtElements
  <2>5. /\ pc'[c] = "tokenRemove" /\ mem'[c].tok = rest /\ mem'[c].gone # {}
        /\ mem'[c].for = mem[c].for /\ mem'[c].old = mem[c].old /\ cmd' = cmd
        /\ slots' = [slots EXCEPT ![e.slot] = "free"]
    BY <1>1, <1>5 DEF Kills, Alone
  <2> HIDE DEF rest, from, to, e, k
  <2>6. \A i \in DOMAIN Listed : i # k => Listed[i].slot # e.slot
    BY <2>1, <2>3 DEF Neat, NeatIn
  <2>7. \A n \in Slots : n # e.slot => slots'[n] = slots[n]
    BY <2>5 DEF HeaderInv, KeysInv, MainTypeOK
  <2>8. Neat(mem[c].tok)'
    <3>1. NeatIn(slots', RemoveAt(Listed, k))
      BY <2>1, <2>3, <2>5, ListedType, RestIsNeat DEF Neat
    <3>2. QED BY <2>1, <2>5, <3>1 DEF Neat, rest, k
  <2>9. OnceBut(rest, NoSlot)
    BY <2>3, <2>4, <2>6 DEF OnceBut
  <2>10. OnceBut(mem[c].tok, IF mem[c].gone = {} THEN mem[c].old ELSE NoSlot)'
    BY <1>0, <2>5, <2>9 DEF OnceBut
  <2>11. cmd[c].kind # "remove" => HasMade(c, mem[c].tok)'
    <3>1. ASSUME cmd[c].kind # "remove"
          PROVE  HasMade(c, mem[c].tok)'
      <4>1. PICK j \in DOMAIN Listed :
              /\ Listed[j].id = cmd[c].newId /\ Listed[j].key = cmd[c].key
              /\ Listed[j].slot # mem[c].old
        BY <2>3, <3>1 DEF HasMade
      <4>2. j # k
        BY <2>1, <2>3, <3>1, <4>1
      <4>3. to(j) \in DOMAIN rest /\ rest[to(j)] = Listed[j]
        BY <2>4, <4>2
      <4>4. QED BY <2>5, <4>1, <4>3 DEF HasMade
    <3>2. QED BY <3>1
  <2>12. Orderly(c)'
    BY <2>3, <2>5, <2>8, <2>10, <2>11 DEF Orderly
  <2>13. pc'[c] \in Running
    BY <2>5 DEF Running
  <2>14. QED BY <1>1, <1>3, <2>12, <2>13, NeatStep
<1>6. QED BY <1>1, <1>4, <1>5

LEMMA NeatTokenRemove ==
  ASSUME MaxRunning <= 1, HeaderInv, SerialInv, NeatInv, NEW c \in Commands, TokenRemove(c)
  PROVE  NeatInv'
<1>0. Untroubled' => Twice \subseteq Twice'
  BY TwiceGrows
<1>1. /\ Alone(c) /\ slots' = slots /\ pc[c] = "tokenRemove" /\ mem'[c] = mem[c]
      /\ (Fails(c) /\ tokens' = tokens) \/ pc'[c] = "tokenImport"
  BY TokenRemoveDoes
<1>2. pc[c] \in Running
  BY <1>1 DEF Running
<1>3. \A d \in Commands \ {c} : pc[d] \notin Running
  BY <1>2, NobodyElseRuns
<1>4. CASE Fails(c) /\ tokens' = tokens
  BY <1>0, <1>1, <1>3, <1>4, NeatEnds DEF Fails, Ended
<1>5. CASE pc'[c] = "tokenImport"
  <2>1. ASSUME Untroubled'
        PROVE  Orderly(c)'
    <3>1. Orderly(c) /\ cmd' = cmd
      BY <1>1, <1>2, <1>3, <2>1, NeatBefore DEF Alone
    <3>2. QED BY <1>0, <1>1, <1>5, <2>1, <3>1 DEF Orderly, Neat, NeatIn, Opens, OnceBut, HasMade
  <2>2. pc'[c] \in Running
    BY <1>5 DEF Running
  <2>3. QED BY <1>1, <1>3, <2>1, <2>2, NeatStep
<1>6. QED BY <1>1, <1>4, <1>5

(* Once a token is written it is the one that is listed. *)
LEMMA ImportedIsListed ==
  ASSUME HeaderInv, Present = {}, NEW t \in TokenIds, NEW entries,
         tokens' = [tokens EXCEPT ![t] = TokenWith(entries)]
  PROVE  Present' = {t} /\ SeenToken' = t /\ Listed' = entries
<1>1. /\ tokens'[t] = TokenWith(entries)
      /\ \A u \in TokenIds \ {t} : tokens'[u] = tokens[u]
  BY DEF HeaderInv, KeysInv, MainTypeOK
<1>2. TokenWith(entries).present /\ TokenWith(entries).entries = entries
  BY DEF TokenWith
<1>3. Present' = {t}
  BY <1>1, <1>2 DEF Present
<1>4. Least({t}) = t
  BY LeastIsMember
<1>5. SeenToken' = t
  BY <1>3, <1>4 DEF SeenToken
<1>6. QED BY <1>1, <1>2, <1>3, <1>5 DEF Listed

LEMMA NeatTokenImport ==
  ASSUME MaxRunning <= 1, HeaderInv, SerialInv, NeatInv, NEW c \in Commands, TokenImport(c)
  PROVE  NeatInv'
<1>0. Untroubled' => Twice \subseteq Twice'
  BY TwiceGrows
<1>1. /\ Alone(c) /\ slots' = slots /\ pc[c] = "tokenImport"
      /\ (Fails(c) /\ tokens' = tokens) \/ Imports(c)
  BY TokenImportDoes
<1>2. pc[c] \in Running
  BY <1>1 DEF Running
<1>3. \A d \in Commands \ {c} : pc[d] \notin Running
  BY <1>2, NobodyElseRuns
<1>4. CASE Fails(c) /\ tokens' = tokens
  BY <1>0, <1>1, <1>3, <1>4, NeatEnds DEF Fails, Ended
<1>5. CASE Imports(c)
  <2> SUFFICES ASSUME Untroubled' PROVE NeatInv'
    BY DEF NeatInv
  <2>1. Orderly(c) /\ cmd' = cmd
    BY <1>1, <1>2, <1>3, NeatBefore DEF Alone
  <2>2. /\ Neat(mem[c].tok)
        /\ OnceBut(mem[c].tok, IF mem[c].gone = {} THEN mem[c].old ELSE NoSlot)
        /\ cmd[c].kind # "remove" => HasMade(c, mem[c].tok)
        /\ cmd[c].kind = "remove" => mem[c].gone # {}
    BY <1>1, <2>1 DEF Orderly
  <2>3. Listed' = mem[c].tok
    BY <1>1, <1>5, ImportedIsListed DEF SerialInv, Imports
  <2>4. Neat(Listed)'
    BY <1>1, <2>2, <2>3 DEF Neat, NeatIn, Opens
  <2>5. CASE /\ mem[c].gone = {} /\ cmd[c].kind # "remove" /\ mem[c].old # NoSlot
             /\ Turns(c, "reload", mem[c].old)
    <3>1. /\ pc'[c] = "dump" /\ mem'[c].for = "reload" /\ mem'[c].old = mem[c].old
          /\ mem'[c].gone = {}
      BY <2>5 DEF Turns
    <3>2. OnceBut(Listed, mem[c].old)' /\ HasMade(c, Listed)'
      BY <1>0, <2>1, <2>2, <2>3, <2>5, <3>1 DEF OnceBut, HasMade
    <3>3. Orderly(c)'
      BY <2>1, <2>4, <2>5, <3>1, <3>2 DEF Orderly
    <3>4. pc'[c] \in Running
      BY <3>1 DEF Running
    <3>5. QED BY <1>1, <1>3, <3>3, <3>4, NeatStep
  <2>6. CASE (mem[c].gone # {} \/ mem[c].old = NoSlot) /\ pc'[c] = "ok"
    <3>1. OnceBut(mem[c].tok, NoSlot)
      BY <2>2, <2>6
    <3>2. OnceBut(Listed, NoSlot)'
      BY <1>0, <2>3, <3>1 DEF OnceBut
    <3>3. pc'[c] \notin Running
      BY <2>6 DEF Running
    <3>4. QED BY <1>1, <1>3, <2>4, <3>2, <3>3, NeatStep
  <2>7. QED BY <1>5, <2>5, <2>6 DEF Imports
<1>6. QED BY <1>1, <1>4, <1>5

LEMMA NeatInterrupt ==
  ASSUME MaxRunning <= 1, HeaderInv, SerialInv, NeatInv, NEW c \in Commands, Interrupt(c)
  PROVE  NeatInv'
<1>0. Untroubled' => Twice \subseteq Twice'
  BY TwiceGrows
<1>1. \A d \in Commands \ {c} : pc[d] \notin Running
  BY InterruptDoes, NobodyElseRuns
<1>2. QED BY <1>0, <1>1, InterruptDoes, NeatEnds DEF Fails, Ended

LEMMA InitNeat == Init => NeatInv
<1> SUFFICES ASSUME Init PROVE NeatInv
  OBVIOUS
<1>1. PICK len \in 0 .. Cardinality(Holders) :
        \E list \in Injection(1 .. len, Holders), key \in Keys :
          /\ \A i \in 1 .. len : FirstSlot + i \in Slots
          /\ EnrolledBefore(list, key)
  BY DEF Init
<1>2. PICK list \in Injection(1 .. len, Holders), key \in Keys :
        /\ \A i \in 1 .. len : FirstSlot + i \in Slots
        /\ EnrolledBefore(list, key)
  BY <1>1
<1>3. len \in Nat /\ Slots \subseteq Nat /\ FirstSlot \in Nat
  BY <1>1, FS_CardinalityType
<1>4. /\ list \in [1 .. len -> Holders]
      /\ \A i, j \in 1 .. len : list[i] = list[j] => i = j
  BY <1>2 DEF Injection, IsInjective
<1> DEFINE written == [i \in 1 .. len |->
             [id |-> list[i], key |-> key, slot |-> FirstSlot + i, p |-> list[i]]]
<1>5. /\ slots = [n \in Slots |->
            IF n = FirstSlot THEN "passphrase"
            ELSE IF n - FirstSlot \in 1 .. len THEN list[n - FirstSlot] ELSE "free"]
      /\ \A t \in TokenIds : tokens[t] \in {NoToken, TokenWith(written)}
  BY <1>2, <1>4 DEF EnrolledBefore
<1>6. Listed \in {<<>>, written}
  <2>1. NoToken.entries = <<>> /\ TokenWith(written).entries = written
    BY DEF NoToken, TokenWith
  <2>2. CASE Present = {}
    BY <2>2 DEF Listed
  <2>3. CASE Present # {}
    <3>1. Least(Present) \in Present
      BY <2>3, LeastIsMember DEF Present
    <3>2. Listed = tokens[Least(Present)].entries /\ Least(Present) \in TokenIds
      BY <2>3, <3>1 DEF Listed, SeenToken, Present
    <3>3. QED BY <1>5, <2>1, <3>2
  <2>4. QED BY <2>2, <2>3
<1>7. DOMAIN written = 1 .. len
      /\ \A i \in 1 .. len : /\ written[i].id = list[i] /\ written[i].p = list[i]
                             /\ written[i].slot = FirstSlot + i
  OBVIOUS
<1> HIDE DEF written
<1>8. Neat(written) /\ OnceBut(written, NoSlot)
  <2>1. ASSUME NEW i \in 1 .. len
        PROVE  slots[FirstSlot + i] = list[i]
    <3>1. /\ FirstSlot + i \in Slots /\ FirstSlot + i # FirstSlot
          /\ FirstSlot + i - FirstSlot = i
      BY <1>2, <1>3
    <3>2. QED BY <1>5, <3>1
  <2>2. QED BY <1>3, <1>4, <1>7, <2>1 DEF Neat, NeatIn, Opens, OnceBut
<1>9. Neat(<<>>) /\ OnceBut(<<>>, NoSlot)
  BY DEF Neat, NeatIn, OnceBut
<1>10. \A c \in Commands : pc[c] \notin Running
  BY DEF Init, Running
<1>11. QED BY <1>6, <1>8, <1>9, <1>10 DEF NeatInv

LEMMA NeatNext ==
  ASSUME MaxRunning <= 1, HeaderInv, SerialInv, NeatInv, [Next]_vars
  PROVE  NeatInv'
<1>1. ASSUME NEW c \in Commands,
             \/ Start(c) \/ Dump(c) \/ NoTokenFound(c) \/ Export(c)
             \/ AddKey(c) \/ TokenRemove(c) \/ TokenImport(c) \/ KillSlot(c)
             \/ Interrupt(c)
      PROVE  NeatInv'
  BY <1>1, NeatStart, NeatDump, NeatExport, NeatAddKey, NeatTokenRemove, NeatTokenImport,
     NeatKillSlot, NeatInterrupt
<1>2. CASE UNCHANGED vars
  <2>1. slots' = slots /\ tokens' = tokens /\ cmd' = cmd /\ pc' = pc /\ mem' = mem
    BY <1>2 DEF vars, header
  <2>2. Listed' = Listed
    BY <2>1, SeenStays
  <2>3. Twice' = Twice
    BY <2>1 DEF Twice, NotAdded
  <2>4. QED BY <2>1, <2>2, <2>3
               DEF NeatInv, Untroubled, Orderly, Neat, NeatIn, Opens, OnceBut, HasMade, Matching
<1>3. QED BY <1>1, <1>2 DEF Next

LEMMA SerialNext ==
  ASSUME MaxRunning <= 1, HeaderInv, SerialInv, [Next]_vars
  PROVE  SerialInv'
<1>1. CASE UNCHANGED vars
  <2>1. tokens' = tokens /\ pc' = pc /\ mem' = mem
    BY <1>1 DEF vars, header
  <2>2. Present' = Present /\ SeenToken' = SeenToken /\ Listed' = Listed
    BY <2>1, SeenStays
  <2>3. QED BY <2>1, <2>2 DEF SerialInv
<1>2. QED BY <1>1, SerialNextOne DEF Next

(* A command that runs alone works from the header as it is: there is one  *)
(* mr-1 token at most, its id and its list are those the command has read, *)
(* and it is away only between token remove and token import.              *)
THEOREM SerialInvariant ==
  ASSUME MaxRunning <= 1
  PROVE  Spec => []SerialInv
<1>1. HeaderInv /\ SerialInv /\ [Next]_vars => SerialInv'
  BY SerialNext
<1>2. QED BY InitSerial, HeaderInvariant, <1>1, PTL DEF Spec

(* Run one at a time, and as long as none fails, the commands leave a      *)
(* header in which every entry opens its keyslot and a holder is listed    *)
(* once, unless an entry was moved to it; the one that runs lists a holder *)
(* twice only while it replaces it, or moves an entry to it (enrolOnce,    *)
(* replaceRecipient, removeRecipientAt).                                   *)
THEOREM NeatInvariant ==
  ASSUME MaxRunning <= 1
  PROVE  Spec => []NeatInv
<1>1. HeaderInv /\ SerialInv /\ NeatInv /\ [Next]_vars => NeatInv'
  BY NeatNext
<1>2. QED BY InitNeat, HeaderInvariant, SerialInvariant, <1>1, PTL DEF Spec

(* Between commands that ran one at a time and none of which failed, a     *)
(* holder is enrolled once, in the token and so in the keyslots, whichever *)
(* commands ran (enrolOnce, replaceRecipient, runPairOnce), unless         *)
(* --replace gave it an entry under another transport id, which the code   *)
(* lets an operator choose freely.                                         *)
THEOREM EnrolledOnce ==
  ASSUME MaxRunning <= 1
  PROVE  Spec => []OneRecipientPerTransportId
<1>1. HeaderInv /\ SerialInv /\ NeatInv => OneRecipientPerTransportId
  <2> SUFFICES ASSUME HeaderInv, SerialInv, NeatInv, Untroubled,
                      \A c \in Commands : pc[c] \notin Running,
                      NEW t \in TokenIds, NEW h \in Holders
               PROVE  Cardinality(Matching(tokens[t].entries, h)) <= 1 \/ MovedTo(h)
    BY DEF OneRecipientPerTransportId
  <2>1. OnceBut(Listed, NoSlot)
    BY DEF NeatInv
  <2>2. tokens[t].entries \in {<<>>, Listed}
    <3>1. CASE t \in Present
      BY <3>1, ListOfToken DEF SerialInv
    <3>2. CASE t \notin Present
      BY <3>2 DEF SerialInv, Present, NoToken
    <3>3. QED BY <3>1, <3>2
  <2>3. \A i \in DOMAIN Listed : Listed[i].slot # NoSlot
    BY ListedType DEF NoSlot
  <2> DEFINE M == Matching(tokens[t].entries, h)
  <2>4. MovedTo(h) \/ \A i, j \in M : i = j
    <3>1. h \in Twice => MovedTo(h)
      BY DEF Twice, MovedTo
    <3>2. ASSUME NEW i \in M, NEW j \in M, h \notin Twice
          PROVE  i = j
      BY <2>1, <2>2, <2>3, <3>2 DEF Matching, OnceBut
    <3>3. QED BY <3>1, <3>2
  <2> HIDE DEF M
  <2>5. CASE M = {}
    BY <2>5, FS_EmptySet DEF M
  <2>6. CASE M # {} /\ ~MovedTo(h)
    <3>1. PICK i \in M : M = {i}
      BY <2>4, <2>6
    <3>2. Cardinality(M) = 1
      BY <3>1, FS_Singleton
    <3>3. QED BY <3>2 DEF M
  <2>7. QED BY <2>5, <2>6
<1>2. QED BY <1>1, HeaderInvariant, SerialInvariant, NeatInvariant, PTL

-----------------------------------------------------------------------------
(* The lists of one length are never stale. *)

(* A step of the one that runs. *)
LEMMA FitStep ==
  ASSUME NEW c \in Commands, Alone(c), \A d \in Commands \ {c} : pc[d] \notin Running,
         \A t \in TokenIds : Fits(slots', tokens'[t].entries, keyslots'[t]),
         pc'[c] \in Writing => Fits(slots', mem'[c].tok, copied'[c])
  PROVE  FitInv'
<1>1. \A d \in Commands \ {c} : pc'[d] \notin Writing
  BY DEF Alone, Writing, Running
<1>2. QED BY <1>1 DEF FitInv

(* The lists a command goes on with are those it has read. *)
LEMMA GoesOnWithBoth ==
  ASSUME HeaderInv, NEW c \in Commands, cmd' = cmd,
         NEW entries \in Seq(Sound), NEW list \in Seq(Slots), Paired(entries, list),
         \/ AfterPlan(c, entries, list) \/ AfterLoad(c, entries, list)
         \/ AfterBase(c, entries, list) \/ AfterReload(c, entries, list)
  PROVE  /\ Alone(c)
         /\ pc'[c] \in Writing => mem'[c].tok = entries /\ copied'[c] = list
<1>0. KeysInv /\ copied \in [Commands -> Seq(Slots)]
  BY DEF HeaderInv, PairedInv, ListTypeOK
<1>1. CASE \E purpose, old : Reads(c, purpose, old)
  BY <1>0, <1>1, ReadsTurns DEF Turns, Writing
<1>2. CASE \E how \in Ended : Ends(c, how) /\ UNCHANGED mem
  BY <1>0, <1>2, EndsHalts DEF Halts, Writing, Ended
<1>3. CASE \E i : Removes(c, entries, list, i)
  <2>1. PICK i : Removes(c, entries, list, i)
    BY <1>3
  <2>2. Alone(c) /\ Takes(c, "killSlot", entries)
    BY <1>0, <2>1, GoesOnWith DEF Removes
  <2>3. QED BY <1>0, <2>1, <2>2 DEF Removes, Takes
<1>4. CASE /\ Goto(c, "addKey") /\ mem' = [mem EXCEPT ![c].tok = entries]
           /\ copied' = [copied EXCEPT ![c] = list]
  <2>1. mem \in [Commands -> Mem] /\ mem[c] \in Mem
    BY <1>0 DEF KeysInv, MainTypeOK, Mem
  <2>2. [mem[c] EXCEPT !.tok = entries] = [mem[c] EXCEPT !.tok = entries, !.idx = mem[c].idx]
    BY <2>1 DEF Mem
  <2>3. mem' = [mem EXCEPT ![c].tok = entries, ![c].idx = mem[c].idx]
    BY <1>4, <2>1, <2>2
  <2>4. Alone(c) /\ Takes(c, "addKey", entries)
    BY <1>0, <1>4, <2>3, GoesOnWith
  <2>5. QED BY <1>0, <1>4, <2>4 DEF Takes
<1>5. CASE AfterPlan(c, entries, list)
  BY <1>1, <1>2, <1>5 DEF AfterPlan, Ended
<1>6. CASE AfterLoad(c, entries, list)
  BY <1>1, <1>2, <1>3, <1>6, LoadChoice DEF Ended
<1>7. CASE AfterBase(c, entries, list)
  BY <1>2, <1>4, <1>7 DEF AfterBase, Ended
<1>8. CASE AfterReload(c, entries, list)
  BY <1>2, <1>3, <1>8, ReloadChoice DEF Ended
<1>9. QED BY <1>5, <1>6, <1>7, <1>8

LEMMA FitRead ==
  ASSUME HeaderInv, FitInv, NEW c \in Commands, NoTokenFound(c) \/ Export(c),
         \A d \in Commands \ {c} : pc[d] \notin Running
  PROVE  FitInv'
<1>1. UNCHANGED <<slots, tokens, keyslots, cmd>>
  BY DEF NoTokenFound, Export, header
<1>2. \A t \in TokenIds : Fits(slots', tokens'[t].entries, keyslots'[t])
  BY <1>1 DEF FitInv
<1>3. ASSUME NEW how \in Ended, Ends(c, how), UNCHANGED <<mem, copied>>
      PROVE  FitInv'
  <2>1. Alone(c) /\ pc'[c] \notin Writing
    BY <1>1, <1>3, EndsHalts DEF HeaderInv, Writing, Ended
  <2>2. QED BY <1>2, <2>1, FitStep
<1>4. CASE NoTokenFound(c)
  <2>1. <<>> \in Seq(Sound) /\ <<>> \in Seq(Slots) /\ Paired(<<>>, <<>>)
        /\ Fits(slots', <<>>, <<>>)
    BY DEF Paired, Intact, Fits, NeatIn
  <2>2. CASE AfterPlan(c, <<>>, <<>>) \/ AfterBase(c, <<>>, <<>>)
    BY <1>1, <1>2, <2>1, <2>2, GoesOnWithBoth, FitStep
  <2>3. QED BY <1>3, <1>4, <2>2 DEF NoTokenFound, Ended
<1>5. CASE Export(c)
  <2> DEFINE entries == tokens[mem[c].id].entries
             list == keyslots[mem[c].id]
  <2>1. mem[c].id \in TokenIds
    BY <1>5 DEF HeaderInv, KeysInv, MainTypeOK, Export
  <2>2. /\ entries \in Seq(Sound) /\ list \in Seq(Slots) /\ Paired(entries, list)
        /\ Fits(slots', entries, list)
    BY <1>1, <2>1 DEF HeaderInv, KeysInv, PairedInv, ListTypeOK, FitInv
  <2> HIDE DEF entries, list
  <2>3. CASE \/ AfterPlan(c, entries, list) \/ AfterLoad(c, entries, list)
             \/ AfterBase(c, entries, list) \/ AfterReload(c, entries, list)
    BY <1>1, <1>2, <2>2, <2>3, GoesOnWithBoth, FitStep
  <2>4. QED BY <1>3, <1>5, <2>3 DEF Export, Ended, entries, list
<1>6. QED BY <1>4, <1>5

LEMMA FitAddKey ==
  ASSUME HeaderInv, FitInv, NEW c \in Commands, AddKey(c),
         \A d \in Commands \ {c} : pc[d] \notin Running
  PROVE  FitInv'
<1> DEFINE n == mem[c].free
<1>1. /\ Alone(c) /\ UNCHANGED <<tokens, keyslots>> /\ pc[c] = "addKey" /\ n \in Slots
      /\ (Fails(c) /\ slots' = slots) \/ Adds(c)
  BY AddKeyDoes DEF AddKey
<1>2. CASE Fails(c) /\ slots' = slots
  BY <1>1, <1>2, FitStep DEF FitInv, Fails, Writing
<1>3. CASE Adds(c)
  <2>1. slots[n] = "free" /\ slots' = [slots EXCEPT ![n] = c]
    BY <1>3 DEF Adds
  <2>2. ASSUME NEW entries \in Seq(Entry), NeatIn(slots, entries)
        PROVE  NeatIn(slots', entries)
    <3>1. \A i \in DOMAIN entries : entries[i] \in Entry
      OBVIOUS
    <3>2. "free" \notin Secrets
      BY EnrolmentAssumption DEF Secrets
    <3>3. \A i \in DOMAIN entries : entries[i].slot # n
      BY <2>1, <2>2, <3>1, <3>2 DEF NeatIn, Entry
    <3>4. QED BY <2>1, <2>2, <3>3, OthersStayNeat
  <2>3. \A t \in TokenIds : Fits(slots', tokens'[t].entries, keyslots'[t])
    <3>1. \A t \in TokenIds : tokens[t].entries \in Seq(Entry)
      BY DEF HeaderInv, KeysInv, MainTypeOK
    <3>2. QED BY <1>1, <2>2, <3>1 DEF FitInv, Fits
  <2>4. Fits(slots', mem'[c].tok, copied'[c])
    <3>1. /\ mem[c].tok \in Seq(Entry) /\ copied[c] \in Seq(Slots)
          /\ Fits(slots, mem[c].tok, copied[c])
      BY <1>1 DEF HeaderInv, KeysInv, MainTypeOK, PairedInv, ListTypeOK, FitInv, Writing
    <3>2. mem'[c].tok = Append(mem[c].tok, NewEntry(c)) /\ copied'[c] = Append(copied[c], n)
      BY <1>3, <2>1 DEF AddKey, Adds, Fails, HeaderInv, PairedInv, ListTypeOK
    <3>3. NewEntry(c).slot = n /\ NewEntry(c).p = c
      BY DEF NewEntry
    <3>4. ASSUME Intact(mem'[c].tok, copied'[c])
          PROVE  NeatIn(slots', mem'[c].tok)
      <4>1. Intact(mem[c].tok, copied[c])
        BY <3>1, <3>2, <3>4 DEF Intact
      <4>2. QED BY <1>1, <2>1, <3>1, <3>2, <3>3, <4>1, AppendIsNeat DEF Fits
    <3>5. QED BY <3>4 DEF Fits
  <2>5. QED BY <1>1, <2>3, <2>4, FitStep
<1>4. QED BY <1>1, <1>2, <1>3

(* luksKillSlot shortens the lists of keyslots that name the keyslot, so   *)
(* that only the copies the command goes on with fit together.             *)
LEMMA FitKillSlot ==
  ASSUME HeaderInv, FitInv, NEW c \in Commands, KillSlot(c),
         \A d \in Commands \ {c} : pc[d] \notin Running
  PROVE  FitInv'
<1> DEFINE k == mem[c].idx
           n == mem[c].tok[k].slot
<1>1. /\ Alone(c) /\ tokens' = tokens /\ pc[c] = "killSlot"
      /\ (Fails(c) /\ slots' = slots) \/ Kills(c)
  BY KillSlotDoes
<1>2. k \in DOMAIN mem[c].tok /\ k \in DOMAIN copied[c] /\ copied[c][k] = n
  BY <1>1, KillsOwnEntry
<1>3. /\ mem[c].tok \in Seq(Entry) /\ copied[c] \in Seq(Slots)
      /\ Intact(mem[c].tok, copied[c]) /\ NeatIn(slots, mem[c].tok) /\ n \in Slots
  <2>1. mem[c].tok \in Seq(Entry) /\ copied[c] \in Seq(Slots) /\ Intact(mem[c].tok, copied[c])
    BY <1>1 DEF HeaderInv, KeysInv, MainTypeOK, PairedInv, ListTypeOK
  <2>2. NeatIn(slots, mem[c].tok)
    BY <1>1, <2>1 DEF FitInv, Fits, Writing
  <2>3. QED BY <1>2, <2>1, <2>2
<1>4. CASE Ends(c, "failed") /\ UNCHANGED <<slots, keyslots, mem, copied>>
  <2>1. pc'[c] = "failed"
    BY <1>4 DEF Ends, HeaderInv, KeysInv, MainTypeOK
  <2>2. QED BY <1>1, <1>4, <2>1, FitStep DEF FitInv, Writing
<1>5. CASE /\ slots' = [slots EXCEPT ![n] = "free"]
           /\ keyslots' = [t \in TokenIds |-> Without(keyslots[t], n)]
           /\ mem'[c].tok = RemoveAt(mem[c].tok, k)
  <2>1. NeatIn(slots', mem'[c].tok)
    BY <1>2, <1>3, <1>5, RestIsNeat
  <2>2. ASSUME NEW t \in TokenIds
        PROVE  Fits(slots', tokens'[t].entries, keyslots'[t])
    <3> DEFINE entries == tokens[t].entries
               list == keyslots[t]
               at == {i \in DOMAIN list : list[i] = n}
    <3>1. /\ entries \in Seq(Entry) /\ list \in Seq(Slots)
          /\ Paired(entries, list) /\ Fits(slots, entries, list)
      BY DEF HeaderInv, KeysInv, MainTypeOK, PairedInv, ListTypeOK, FitInv
    <3>2. tokens'[t].entries = entries /\ keyslots'[t] = Without(list, n)
      BY <1>1, <1>5
    <3> HIDE DEF entries, list
    <3>3. CASE at = {}
      <4>1. Without(list, n) = list
        BY <3>3 DEF Without
      <4>2. ASSUME Intact(entries, list)
            PROVE  NeatIn(slots', entries)
        <5>1. \A i \in DOMAIN entries : entries[i].slot # n
          BY <3>1, <3>3, <4>2 DEF Paired, Intact
        <5>2. QED BY <1>5, <3>1, <4>2, <5>1, OthersStayNeat DEF Fits
      <4>3. QED BY <3>2, <4>1, <4>2 DEF Fits
    <3>4. CASE at # {}
      <4>1. at \in SUBSET Nat
        BY <3>1
      <4>2. Least(at) \in DOMAIN list
        BY <3>4, <4>1, LeastIsMember
      <4>3. Without(list, n) = RemoveAt(list, Least(at))
        BY <3>4 DEF Without
      <4> HIDE DEF at
      <4>4. Len(Without(list, n)) = Len(list) - 1
        BY <3>1, <4>2, <4>3, RemoveAtLength
      <4>5. ~Intact(entries, Without(list, n))
        BY <3>1, <4>4 DEF Paired, Intact
      <4>6. QED BY <3>2, <4>5 DEF Fits
    <3>5. QED BY <3>3, <3>4
  <2>3. QED BY <1>1, <2>1, <2>2, FitStep DEF Fits
<1>6. \/ Ends(c, "failed") /\ UNCHANGED <<slots, keyslots, mem, copied>>
      \/ /\ slots' = [slots EXCEPT ![n] = "free"]
         /\ keyslots' = [t \in TokenIds |-> Without(keyslots[t], n)]
         /\ Goto(c, "tokenRemove")
  BY <1>2 DEF KillSlot, KillsSlot
<1>7. Goto(c, "tokenRemove") => mem'[c].tok = RemoveAt(mem[c].tok, k)
  BY <1>1 DEF Goto, Fails, Kills, HeaderInv, KeysInv, MainTypeOK
<1>8. QED BY <1>4, <1>5, <1>6, <1>7

LEMMA FitToken ==
  ASSUME HeaderInv, FitInv, NEW c \in Commands, TokenRemove(c) \/ TokenImport(c),
         \A d \in Commands \ {c} : pc[d] \notin Running
  PROVE  FitInv'
<1>1. Alone(c) /\ UNCHANGED <<slots, copied>> /\ pc[c] \in Writing /\ mem'[c].tok = mem[c].tok
  BY TokenRemoveDoes, TokenImportDoes DEF TokenRemove, TokenImport, Writing, Fails, Imports,
     Halts, Turns
<1>2. Fits(slots', mem'[c].tok, copied'[c])
  BY <1>1 DEF FitInv
<1>3. Fits(slots', NoToken.entries, <<>>)
  BY DEF NoToken, Fits, NeatIn
<1>4. TokenWith(mem[c].tok).entries = mem[c].tok
  BY DEF TokenWith
<1>5. ASSUME NEW t, NEW token, NEW list, Fits(slots', token.entries, list),
             tokens' = [tokens EXCEPT ![t] = token], keyslots' = [keyslots EXCEPT ![t] = list]
      PROVE  \A u \in TokenIds : Fits(slots', tokens'[u].entries, keyslots'[u])
  BY <1>1, <1>5 DEF FitInv, HeaderInv, KeysInv, MainTypeOK, PairedInv, ListTypeOK
<1>6. CASE UNCHANGED <<tokens, keyslots>>
  BY <1>1, <1>2, <1>6, FitStep DEF FitInv
<1>7. CASE /\ tokens' = [tokens EXCEPT ![mem[c].id] = NoToken]
           /\ keyslots' = [keyslots EXCEPT ![mem[c].id] = <<>>]
  BY <1>1, <1>2, <1>3, <1>5, <1>7, FitStep
<1>8. ASSUME NEW t, tokens' = [tokens EXCEPT ![t] = TokenWith(mem[c].tok)],
             keyslots' = [keyslots EXCEPT ![t] = copied[c]]
      PROVE  FitInv'
  BY <1>1, <1>2, <1>4, <1>5, <1>8, FitStep
<1>9. QED BY <1>6, <1>7, <1>8 DEF TokenRemove, TokenImport

LEMMA FitNext ==
  ASSUME MaxRunning <= 1, HeaderInv, SerialInv, FitInv, [Next]_vars
  PROVE  FitInv'
<1>1. ASSUME NEW c \in Commands,
             \/ Start(c) \/ Dump(c) \/ NoTokenFound(c) \/ Export(c)
             \/ AddKey(c) \/ TokenRemove(c) \/ TokenImport(c) \/ KillSlot(c)
             \/ Interrupt(c)
      PROVE  FitInv'
  <2>1. pc[c] \in Running \/ Start(c)
    BY <1>1 DEF Dump, NoTokenFound, Export, AddKey, TokenRemove, TokenImport, KillSlot,
                Interrupt, Running
  <2>2. \A d \in Commands \ {c} : pc[d] \notin Running
    BY <2>1, NobodyElseRuns
  <2>3. CASE Start(c) \/ Dump(c) \/ Interrupt(c)
    <3>1. Alone(c) /\ UNCHANGED <<slots, tokens, keyslots>> /\ pc'[c] \notin Writing
      BY <2>3, StartDoes, DumpDoes, InterruptDoes
         DEF Start, Dump, Interrupt, header, Turns, Fails, Writing
    <3>2. QED BY <2>2, <3>1, FitStep DEF FitInv
  <2>4. QED BY <1>1, <2>2, <2>3, FitRead, FitAddKey, FitKillSlot, FitToken
<1>2. CASE UNCHANGED vars
  BY <1>2 DEF vars, header, FitInv
<1>3. QED BY <1>1, <1>2 DEF Next

LEMMA InitFit == Init => FitInv
<1> SUFFICES ASSUME Init PROVE FitInv
  OBVIOUS
<1>1. \A t \in TokenIds : tokens[t].entries \in {<<>>, Listed}
  <2>1. SerialInv
    BY InitSerial
  <2>2. ASSUME NEW t \in TokenIds
        PROVE  tokens[t].entries \in {<<>>, Listed}
    <3>1. CASE t \in Present
      BY <2>1, <3>1, ListOfToken DEF SerialInv
    <3>2. CASE t \notin Present
      BY <2>1, <3>2 DEF SerialInv, Present, NoToken
    <3>3. QED BY <3>1, <3>2
  <2>3. QED BY <2>2
<1>2. \A c \in Commands : pc[c] = "new"
  BY DEF Init
<1>3. NeatIn(slots, Listed)
  BY <1>2, InitNeat DEF NeatInv, Untroubled, Running, Neat
<1>4. NeatIn(slots, <<>>)
  BY DEF NeatIn
<1>5. QED BY <1>1, <1>2, <1>3, <1>4 DEF FitInv, Fits, Writing

(* What a removal, or the removing half of a replacement, destroys is the  *)
(* keyslot of the key holder whose entry it chose, whatever commands were  *)
(* interrupted before: an entry left behind in a token, whose keyslot      *)
(* another key may then have, is in lists of different lengths             *)
(* (loadEnrolledToken; removeRecipient's comment, "no other's").           *)
THEOREM RevocationHitsNobodyElse ==
  ASSUME MaxRunning <= 1
  PROVE  Spec => []RevocationHitsItsOwn
<1>1. HeaderInv /\ SerialInv /\ FitInv /\ [Next]_vars => FitInv'
  BY FitNext
<1>2. HeaderInv /\ FitInv => RevocationHitsItsOwn
  <2> SUFFICES ASSUME HeaderInv, FitInv, NEW c \in Commands, pc[c] = "killSlot"
               PROVE  slots[copied[c][mem[c].idx]] = mem[c].tok[mem[c].idx].p
    BY DEF RevocationHitsItsOwn
  <2>1. NeatIn(slots, mem[c].tok)
    BY DEF FitInv, Fits, Writing, HeaderInv, PairedInv
  <2>2. QED BY <2>1, KillsOwnEntry DEF NeatIn
<1>3. QED BY <1>1, <1>2, InitFit, HeaderInvariant, SerialInvariant, PTL DEF Spec

-----------------------------------------------------------------------------
(* Who can unlock. *)

(* The agent lets a holder unlock that has one entry in the list, which    *)
(* opens its keyslot.                                                      *)
LEMMA PlaceUnlocks ==
  SerialInv =>
    \A h \in Holders :
      HasPlace(Listed, h) =>
        /\ Unlockable(h)
        /\ \A k \in Keys :
             (\A i \in Matching(Listed, h) : Listed[i].key = k) => UnlockableWith(h, k)
<1> SUFFICES ASSUME SerialInv, NEW h \in Holders, HasPlace(Listed, h)
             PROVE  /\ Unlockable(h)
                    /\ \A k \in Keys :
                         (\A i \in Matching(Listed, h) : Listed[i].key = k)
                           => UnlockableWith(h, k)
  OBVIOUS
<1>1. Present # {}
  BY DEF HasPlace, Listed
<1>2. Listed = tokens[SeenToken].entries
  BY <1>1 DEF Listed
<1>3. QED BY <1>1, <1>2 DEF HasPlace, Unlockable, UnlockableWith

LEMMA PlaceUnlocksAfter ==
  SerialInv' =>
    (\A h \in Holders :
       HasPlace(Listed, h) =>
         /\ Unlockable(h)
         /\ \A k \in Keys :
              (\A i \in Matching(Listed, h) : Listed[i].key = k) => UnlockableWith(h, k))'
  BY PlaceUnlocks, PTL

(* A command ends well with its entry alone in its name, in a neat list,   *)
(* if no entry was moved to that name.                                     *)
ListsAlone(entries, h, k) ==
  /\ Neat(entries)
  /\ \E i \in DOMAIN entries : Matching(entries, h) = {i} /\ entries[i].key = k

LEMMA EndsWell ==
  ASSUME MaxRunning <= 1, HeaderInv, SerialInv, NeatInv, [Next]_vars,
         NEW c \in Commands, pc'[c] # pc[c], pc'[c] \in {"ok", "already"},
         cmd[c].kind \notin {"remove", "anon"}, Untroubled'
  PROVE  cmd' = cmd /\ (ListsAlone(Listed, cmd[c].newId, cmd[c].key) \/ MovedTo(cmd[c].newId))'
<1>1. ASSUME NEW d \in Commands, Start(d) \/ Dump(d) \/ AddKey(d) \/ TokenRemove(d)
                                 \/ KillSlot(d) \/ Interrupt(d)
      PROVE  FALSE
  <2>1. Alone(d) /\ pc'[d] \notin {"ok", "already"}
    BY <1>1, StartDoes, DumpDoes, AddKeyDoes, TokenRemoveDoes, KillSlotDoes, InterruptDoes
       DEF Turns, Fails, Adds, Kills
  <2>2. QED BY <2>1 DEF Alone
<1>2. ASSUME NEW d \in Commands, NoTokenFound(d) \/ Export(d)
      PROVE  cmd' = cmd /\ (ListsAlone(Listed, cmd[c].newId, cmd[c].key)
                            \/ MovedTo(cmd[c].newId))'
  <2>1. /\ Alone(d) /\ Considers(d, ReadBy(d)) /\ UNCHANGED <<slots, tokens>>
        /\ pc[d] = "export"
    BY <1>2, Consideration DEF NoTokenFound, Export, header
  <2>2. d = c
    BY <2>1 DEF Alone
  <2>3. \E i \in Matching(ReadBy(c), cmd[c].newId) :
          Matching(ReadBy(c), cmd[c].newId) = {i} /\ ReadBy(c)[i].key = cmd[c].key
    BY <2>1, <2>2 DEF Considers, Fails, Turns, Takes
  <2>4. ReadBy(c) = Listed
    BY <2>1, <2>2, ReadsListed
  <2>5. pc[c] \in Running /\ \A g \in Commands \ {c} : pc[g] \notin Running
    <3>1. pc[c] \in Running
      BY <2>1, <2>2 DEF Running
    <3>2. QED BY <3>1, NobodyElseRuns
  <2>6. Orderly(c)
    BY <2>1, <2>2, <2>5, NeatBefore
  <2>7. Listed' = Listed /\ slots' = slots /\ cmd' = cmd
    BY <2>1, SeenStays DEF Alone
  <2>8. Neat(Listed)'
    BY <2>1, <2>2, <2>6, <2>7 DEF Orderly, Neat, NeatIn, Opens
  <2>9. \A i \in Matching(Listed, cmd[c].newId) : i \in DOMAIN Listed
    BY DEF Matching
  <2>10. QED BY <2>3, <2>4, <2>7, <2>8, <2>9 DEF ListsAlone, Matching
<1>3. ASSUME NEW d \in Commands, TokenImport(d)
      PROVE  cmd' = cmd /\ (ListsAlone(Listed, cmd[c].newId, cmd[c].key)
                            \/ MovedTo(cmd[c].newId))'
  <2>1. /\ Alone(d) /\ slots' = slots /\ pc[d] = "tokenImport"
        /\ Fails(d) \/ Imports(d)
    BY <1>3, TokenImportDoes
  <2>2. d = c
    BY <2>1 DEF Alone
  <2>3. Imports(c) /\ ~Turns(c, "reload", mem[c].old)
    BY <2>1, <2>2 DEF Fails, Turns
  <2>4. pc[c] \in Running /\ \A g \in Commands \ {c} : pc[g] \notin Running
    <3>1. pc[c] \in Running
      BY <2>1, <2>2 DEF Running
    <3>2. QED BY <3>1, NobodyElseRuns
  <2>5. Orderly(c) /\ cmd' = cmd
    BY <2>1, <2>2, <2>4, NeatBefore DEF Alone
  <2>6. Listed' = mem[c].tok
    BY <2>1, <2>2, <2>3, ImportedIsListed DEF SerialInv, Imports
  <2>7. /\ Neat(mem[c].tok) /\ HasMade(c, mem[c].tok) /\ OnceBut(mem[c].tok, NoSlot)
    BY <2>1, <2>2, <2>3, <2>5 DEF Orderly, Imports
  <2>8. PICK i \in DOMAIN mem[c].tok :
          mem[c].tok[i].id = cmd[c].newId /\ mem[c].tok[i].key = cmd[c].key
    BY <2>7 DEF HasMade
  <2>9. cmd[c].newId \in Holders /\ cmd[c].newId # NoId
    BY DEF HeaderInv, KeysInv, MainTypeOK, Arguments
  <2>10. \A j \in DOMAIN mem[c].tok : mem[c].tok[j].slot # NoSlot
    <3>1. mem[c].tok \in Seq(Entry)
      BY DEF HeaderInv, KeysInv, MainTypeOK
    <3>2. \A j \in DOMAIN mem[c].tok : mem[c].tok[j] \in Entry
      BY <3>1
    <3>3. QED BY <3>2 DEF Entry, NoSlot
  <2>11. CASE cmd[c].newId \notin Twice
    <3>1. Matching(mem[c].tok, cmd[c].newId) = {i}
      BY <2>7, <2>8, <2>9, <2>10, <2>11 DEF OnceBut, Matching
    <3>2. Neat(Listed)'
      BY <2>1, <2>6, <2>7 DEF Neat, NeatIn, Opens
    <3>3. QED BY <2>5, <2>6, <2>8, <3>1, <3>2 DEF ListsAlone, Matching
  <2>12. CASE cmd[c].newId \in Twice
    <3>1. PICK g \in Commands : /\ cmd[g].kind = "move" /\ cmd[g].newId = cmd[c].newId
                                /\ pc[g] \in Running \cup {"ok"}
      BY <2>12 DEF Twice
    <3>2. pc'[g] = "ok"
      <4>1. CASE g = c
        BY <2>3, <4>1 DEF Imports
      <4>2. CASE g # c
        BY <2>1, <2>2, <2>4, <3>1, <4>2 DEF Alone
      <4>3. QED BY <4>1, <4>2
    <3>3. QED BY <2>5, <3>1, <3>2 DEF MovedTo
  <2>13. QED BY <2>11, <2>12
<1>4. CASE UNCHANGED vars
  BY <1>4 DEF vars
<1>5. QED BY <1>1, <1>2, <1>3, <1>4 DEF Next

LEMMA SuccessStep ==
  ASSUME MaxRunning <= 1, HeaderInv, SerialInv, NeatInv, [Next]_vars,
         NEW c \in Commands, pc'[c] # pc[c], pc'[c] \in {"ok", "already"},
         cmd[c].kind \notin {"remove", "anon"}, Untroubled'
  PROVE  (UnlockableWith(cmd[c].newId, cmd[c].key) \/ MovedTo(cmd[c].newId))'
<1>1. cmd' = cmd /\ (ListsAlone(Listed, cmd[c].newId, cmd[c].key) \/ MovedTo(cmd[c].newId))'
  BY EndsWell
<1>2. cmd[c].newId \in Holders /\ cmd[c].key \in Keys
  BY DEF HeaderInv, KeysInv, MainTypeOK, Arguments
<1>3. PICK h \in Holders, k \in Keys : h = cmd[c].newId /\ k = cmd[c].key
  BY <1>2
<1>4. SUFFICES ASSUME ListsAlone(Listed, h, k)' PROVE UnlockableWith(cmd[c].newId, cmd[c].key)'
  BY <1>1, <1>3 DEF ListsAlone, Neat, NeatIn, Opens, Matching
<1>5. HasPlace(Listed, h)' /\ (\A i \in Matching(Listed, h) : Listed[i].key = k)'
  BY <1>4 DEF ListsAlone, HasPlace, Neat, NeatIn, Opens
<1>6. SerialInv'
  BY SerialNext
<1>7. UnlockableWith(h, k)'
  BY <1>5, <1>6, PlaceUnlocksAfter
<1>8. cmd'[c].newId = h /\ cmd'[c].key = k
  BY <1>1, <1>3
<1>9. QED BY <1>7, <1>8 DEF UnlockableWith, Unlockable, Matching

(* "Already enrolled", or success, of enrol, --replace and pair is true:   *)
(* the agent will let that holder unlock with that key, unless a command   *)
(* was interrupted or failed before, or moved another's entry to that      *)
(* holder (enrolOnce, replaceRecipient, runPairOnce).                      *)
THEOREM SuccessIsTrue ==
  ASSUME MaxRunning <= 1
  PROVE  Spec => SuccessMeansEnrolled
<1> DEFINE A == \A c \in Commands :
       pc[c] # pc'[c] /\ pc'[c] \in {"ok", "already"} /\ cmd[c].kind \notin {"remove", "anon"}
         => (Untroubled => \/ UnlockableWith(cmd[c].newId, cmd[c].key)
                           \/ MovedTo(cmd[c].newId))'
<1>1. HeaderInv /\ SerialInv /\ NeatInv /\ [Next]_vars => A
  BY SuccessStep
<1>2. SuccessMeansEnrolled <=> [][A]_vars
  BY DEF SuccessMeansEnrolled
<1> HIDE DEF A
<1>3. QED
  BY <1>1, <1>2, HeaderInvariant, SerialInvariant, NeatInvariant, PTL DEF Spec

-----------------------------------------------------------------------------
(* Those no command names. *)

(* A list keeps its one entry for h when others come and go. *)
LEMMA AppendKeepsPlace ==
  ASSUME NEW s \in Seq(Entry), NEW e, NEW h, e.id # h, NEW i \in DOMAIN s, Matching(s, h) = {i}
  PROVE  /\ i \in DOMAIN Append(s, e) /\ Append(s, e)[i] = s[i]
         /\ Matching(Append(s, e), h) = {i}
<1> DEFINE longer == Append(s, e)
<1>1. /\ DOMAIN longer = 1 .. Len(s) + 1 /\ DOMAIN s = 1 .. Len(s) /\ Len(s) \in Nat
      /\ \A j \in 1 .. Len(s) : longer[j] = s[j]
      /\ longer[Len(s) + 1] = e
  OBVIOUS
<1> HIDE DEF longer
<1>2. i \in DOMAIN longer /\ longer[i] = s[i] /\ Matching(longer, h) = {i}
  BY <1>1 DEF Matching
<1>3. QED BY <1>2 DEF longer

LEMMA RemoveAtKeepsPlace ==
  ASSUME NEW s \in Seq(Entry), NEW k \in DOMAIN s, NEW h \in Holders,
         NEW i \in DOMAIN s, Matching(s, h) = {i}, i # k
  PROVE  \E j \in DOMAIN RemoveAt(s, k) :
           RemoveAt(s, k)[j] = s[i] /\ Matching(RemoveAt(s, k), h) = {j}
<1> DEFINE r == RemoveAt(s, k)
           from(j) == IF j < k THEN j ELSE j + 1
           to(j) == IF j < k THEN j ELSE j - 1
<1>1. /\ \A j \in DOMAIN r : from(j) \in DOMAIN s /\ from(j) # k /\ r[j] = s[from(j)]
      /\ \A j \in DOMAIN s : j # k => to(j) \in DOMAIN r /\ r[to(j)] = s[j]
      /\ \A j, l \in DOMAIN r : from(j) = from(l) => j = l
  BY RemoveAtElements
<1>2. i \in Nat /\ k \in Nat
  OBVIOUS
<1>3. from(to(i)) = i
  BY <1>2
<1> HIDE DEF r, from, to
<1>4. to(i) \in DOMAIN r /\ r[to(i)] = s[i]
  BY <1>1
<1>5. h # NoId /\ s[i].id = h /\ \A j \in DOMAIN s : s[j].id = h => j = i
  BY DEF Matching
<1>6. \A j \in DOMAIN r : r[j].id = h => j = to(i)
  BY <1>1, <1>3, <1>4, <1>5
<1>7. Matching(r, h) = {to(i)}
  BY <1>4, <1>5, <1>6 DEF Matching
<1>8. QED BY <1>4, <1>7 DEF r

LEMMA BystanderBefore ==
  ASSUME HeaderInv, NEW h \in Holders, Bystander(h)', NEW c \in Commands, Alone(c),
         \A n \in Slots : slots'[n] = h => slots[n] = h, gapped => gapped'
  PROVE  Bystander(h)
  BY DEF Bystander, Named, Alone

LEMMA PlaceStep ==
  ASSUME NEW c \in Commands, Alone(c), \A d \in Commands \ {c} : pc[d] \notin Running,
         \A h \in Holders : Bystander(h)' =>
           /\ (pc[c] # "tokenImport" => HasPlace(Listed, h))'
           /\ (pc[c] \in {"tokenRemove", "tokenImport"} =>
                 mem[c].id # NoTokenId /\ HasPlace(mem[c].tok, h))'
  PROVE  PlaceInv'
<1>1. \A d \in Commands \ {c} : pc'[d] \notin {"tokenRemove", "tokenImport"}
  BY DEF Alone, Running
<1>2. ASSUME NEW h \in Holders, Bystander(h)'
      PROVE  (/\ (\A d \in Commands : pc[d] # "tokenImport") => HasPlace(Listed, h)
              /\ \A d \in Commands : pc[d] \in {"tokenRemove", "tokenImport"} =>
                   mem[d].id # NoTokenId /\ HasPlace(mem[d].tok, h))'
  <2>1. /\ (pc[c] # "tokenImport" => HasPlace(Listed, h))'
        /\ (pc[c] \in {"tokenRemove", "tokenImport"} =>
              mem[c].id # NoTokenId /\ HasPlace(mem[c].tok, h))'
    BY <1>2
  <2>2. QED BY <1>1, <2>1
<1>3. QED BY <1>2 DEF PlaceInv

(* A step that leaves the header. *)
LEMMA PlaceRead ==
  ASSUME HeaderInv, PlaceInv, NEW c \in Commands, Alone(c), UNCHANGED <<slots, tokens>>,
         \A d \in Commands \ {c} : pc[d] \notin Running,
         gapped => gapped',
         pc[c] = "tokenImport" =>
           \A h \in Holders : ~(mem[c].id # NoTokenId /\ HasPlace(mem[c].tok, h) /\ Bystander(h)'),
         pc'[c] \notin {"tokenRemove", "tokenImport"}
  PROVE  PlaceInv'
<1>1. ASSUME NEW h \in Holders, Bystander(h)'
      PROVE  HasPlace(Listed, h)'
  <2>1. Bystander(h)
    BY <1>1, BystanderBefore
  <2>2. pc[c] # "tokenImport"
    BY <1>1, <2>1 DEF PlaceInv
  <2>3. \A d \in Commands : pc[d] # "tokenImport"
    BY <2>2 DEF Running
  <2>4. HasPlace(Listed, h)
    BY <2>1, <2>3 DEF PlaceInv
  <2>5. Listed' = Listed /\ slots' = slots
    BY SeenStays
  <2>6. QED BY <2>4, <2>5 DEF HasPlace, Opens, Matching
<1>2. QED BY <1>1, PlaceStep

LEMMA PlaceReading ==
  ASSUME MaxRunning <= 1, HeaderInv, SerialInv, PlaceInv, NEW c \in Commands,
         Start(c) \/ Dump(c) \/ NoTokenFound(c) \/ Export(c) \/ Interrupt(c)
  PROVE  PlaceInv'
<1>1. \A d \in Commands \ {c} : pc[d] \notin Running
  <2>1. pc[c] \in Running \/ Start(c)
    BY DEF Dump, NoTokenFound, Export, Interrupt, Running
  <2>2. QED BY <2>1, NobodyElseRuns
<1>2. CASE Start(c)
  BY <1>1, <1>2, StartDoes, PlaceRead DEF Turns
<1>3. CASE Dump(c)
  BY <1>1, <1>3, DumpDoes, PlaceRead
<1>4. CASE NoTokenFound(c) \/ Export(c)
  <2>1. /\ Alone(c) /\ Considers(c, ReadBy(c)) /\ UNCHANGED <<slots, tokens, gapped>>
        /\ pc[c] = "export"
    BY <1>4, Consideration DEF NoTokenFound, Export, header
  <2>2. pc'[c] \notin {"tokenRemove", "tokenImport"}
    BY <2>1 DEF Considers, Fails, Halts, Turns, Takes, Ended
  <2>3. QED BY <1>1, <2>1, <2>2, PlaceRead
<1>5. CASE Interrupt(c)
  <2>1. /\ Alone(c) /\ UNCHANGED <<slots, tokens>> /\ Fails(c)
        /\ pc[c] = "tokenImport" /\ mem[c].id # NoTokenId => gapped'
    BY <1>5, InterruptDoes
  <2>2. gapped => gapped'
    BY <1>5 DEF Interrupt, HeaderInv, KeysInv, MainTypeOK
  <2>3. pc[c] = "tokenImport" => \A h \in Holders : ~(mem[c].id # NoTokenId /\ Bystander(h)')
    BY <2>1 DEF Bystander
  <2>4. QED BY <1>1, <2>1, <2>2, <2>3, PlaceRead DEF Fails
<1>6. QED BY <1>2, <1>3, <1>4, <1>5

LEMMA PlaceAddKey ==
  ASSUME MaxRunning <= 1, HeaderInv, SerialInv, PlaceInv, NEW c \in Commands, AddKey(c)
  PROVE  PlaceInv'
<1>1. /\ Alone(c) /\ UNCHANGED <<tokens, gapped>> /\ pc[c] = "addKey"
      /\ mem[c].free \in Slots
      /\ (Fails(c) /\ slots' = slots) \/ Adds(c)
  BY AddKeyDoes
<1>2. \A d \in Commands \ {c} : pc[d] \notin Running
  BY <1>1, NobodyElseRuns DEF Running
<1>3. CASE Fails(c) /\ slots' = slots
  BY <1>1, <1>2, <1>3, PlaceRead DEF Fails
<1>4. CASE Adds(c)
  <2>1. mem[c].tok = Listed /\ mem[c].id = SeenToken /\ \A t, u \in Present : t = u
    BY <1>1 DEF SerialInv
  <2>2. /\ slots[mem[c].free] = "free" /\ slots'[mem[c].free] = c
        /\ \A n \in Slots : n # mem[c].free => slots'[n] = slots[n]
    BY <1>1, <1>4 DEF Adds, HeaderInv, KeysInv, MainTypeOK
  <2>3. /\ mem'[c].tok = Append(Listed, NewEntry(c)) /\ mem'[c].id = mem[c].id
        /\ cmd' = cmd /\ Listed' = Listed
        /\ pc'[c] = IF mem[c].id = NoTokenId THEN "tokenImport" ELSE "tokenRemove"
    BY <1>1, <1>4, <2>1, SeenStays DEF Adds, Alone
  <2>4. ASSUME NEW h \in Holders, Bystander(h)'
        PROVE  /\ (pc[c] # "tokenImport" => HasPlace(Listed, h))'
               /\ (pc[c] \in {"tokenRemove", "tokenImport"} =>
                     mem[c].id # NoTokenId /\ HasPlace(mem[c].tok, h))'
    <3>1. Bystander(h)
      BY <1>1, <2>2, <2>4, BystanderBefore
    <3>2. \A d \in Commands : pc[d] # "tokenImport"
      BY <1>1, <1>2 DEF Running
    <3>3. PICK i \in DOMAIN Listed : Matching(Listed, h) = {i} /\ Opens(Listed[i])
      BY <3>1, <3>2 DEF PlaceInv, HasPlace
    <3>4. Listed \in Seq(Entry) /\ Listed[i] \in Entry /\ Listed[i].slot \in Slots
      BY ListedType
    <3>5. slots'[Listed[i].slot] = Listed[i].p
      <4>1. Listed[i].p # "free"
        BY <3>4 DEF Entry, Secrets
      <4>2. Listed[i].slot # mem[c].free
        BY <2>2, <3>3, <4>1 DEF Opens
      <4>3. QED BY <2>2, <3>3, <3>4, <4>2 DEF Opens
    <3>6. mem[c].id # NoTokenId
      <4>1. Listed # <<>>
        BY <3>3
      <4>2. QED BY <2>1, <4>1, ListOfToken
    <3>7. NewEntry(c).id # h
      BY <3>1 DEF NewEntry, Bystander, Named
    <3>8. LET s == Append(Listed, NewEntry(c))
          IN  i \in DOMAIN s /\ s[i] = Listed[i] /\ Matching(s, h) = {i}
      BY <3>3, <3>4, <3>7, AppendKeepsPlace
    <3>9. HasPlace(mem[c].tok, h)'
      BY <2>3, <3>5, <3>8 DEF HasPlace, Opens
    <3>10. HasPlace(Listed, h)'
      BY <2>3, <3>3, <3>5 DEF HasPlace, Opens
    <3>11. QED BY <2>3, <3>6, <3>9, <3>10
  <2>5. QED BY <1>1, <1>2, <2>4, PlaceStep
<1>5. QED BY <1>1, <1>3, <1>4

(* The entry removed is not that of one who is not named. *)
LEMMA PlaceKillSlot ==
  ASSUME MaxRunning <= 1, HeaderInv, HonestInv, SerialInv, PlaceInv, NEW c \in Commands,
         KillSlot(c)
  PROVE  PlaceInv'
<1> DEFINE k == mem[c].idx
           e == Listed[k]
<1>1. /\ Alone(c) /\ UNCHANGED <<tokens, gapped>> /\ pc[c] = "killSlot"
      /\ mem[c].idx \in DOMAIN mem[c].tok
      /\ (Fails(c) /\ slots' = slots) \/ Kills(c)
  BY KillSlotDoes
<1>2. \A d \in Commands \ {c} : pc[d] \notin Running
  BY <1>1, NobodyElseRuns DEF Running
<1>3. CASE Fails(c) /\ slots' = slots
  BY <1>1, <1>2, <1>3, PlaceRead DEF Fails
<1>4. CASE Kills(c)
  <2>1. /\ mem[c].tok = Listed /\ mem[c].id = SeenToken /\ k \in DOMAIN Listed
        /\ \A t, u \in Present : t = u
    BY <1>1 DEF SerialInv
  <2>2. /\ Listed \in Seq(Entry) /\ \A i \in DOMAIN Listed : Listed[i].slot \in Slots
        /\ \A i \in DOMAIN Listed : Listed[i] \in Honest
    <3>1. Listed \in Seq(Honest)
      BY <2>1 DEF HonestInv
    <3>2. QED BY <3>1, ListedType
  <2>3. Aims(e.slot, c)
    BY <1>1, <2>1 DEF HonestInv
  <2>4. /\ slots' = [slots EXCEPT ![e.slot] = "free"] /\ pc'[c] = "tokenRemove"
        /\ mem'[c].tok = RemoveAt(Listed, k) /\ mem'[c].id = mem[c].id
        /\ cmd' = cmd /\ Listed' = Listed
    BY <1>1, <1>4, <2>1, SeenStays DEF Kills, Alone
  <2> HIDE DEF e, k
  <2>5. \A n \in Slots : slots'[n] = IF n = e.slot THEN "free" ELSE slots[n]
    BY <2>4 DEF HeaderInv, KeysInv, MainTypeOK
  <2>6. ASSUME NEW h \in Holders, Bystander(h)'
        PROVE  /\ (pc[c] # "tokenImport" => HasPlace(Listed, h))'
               /\ (pc[c] \in {"tokenRemove", "tokenImport"} =>
                     mem[c].id # NoTokenId /\ HasPlace(mem[c].tok, h))'
    <3>1. Bystander(h)
      BY <1>1, <2>5, <2>6, BystanderBefore
    <3>2. \A d \in Commands : pc[d] # "tokenImport"
      BY <1>1, <1>2 DEF Running
    <3>3. PICK i \in DOMAIN Listed : Matching(Listed, h) = {i} /\ Opens(Listed[i])
      BY <3>1, <3>2 DEF PlaceInv, HasPlace
    <3>4. Listed[i].id = h /\ Listed[i].slot \in Slots /\ Listed[i] \in Honest
      BY <2>2, <3>3 DEF Matching
    <3>5. Listed[i].p = h
      <4>1. Listed[i].p \in Commands => Named(h)
        BY <3>4 DEF Honest, Named
      <4>2. QED BY <3>1, <3>4, <4>1 DEF Honest, Entry, Secrets, Bystander
    <3>6. slots[Listed[i].slot] = h
      BY <3>3, <3>5 DEF Opens
    <3>7. Listed[i].slot # e.slot
      BY <2>3, <3>1, <3>6 DEF Aims, Bystander, Named
    <3>8. i # k
      BY <3>7 DEF e
    <3>9. slots'[Listed[i].slot] = Listed[i].p
      BY <2>5, <3>4, <3>5, <3>6, <3>7
    <3>10. mem[c].id # NoTokenId
      <4>1. Listed # <<>>
        BY <3>3
      <4>2. QED BY <2>1, <4>1, ListOfToken
    <3>11. \E j \in DOMAIN RemoveAt(Listed, k) :
             RemoveAt(Listed, k)[j] = Listed[i] /\ Matching(RemoveAt(Listed, k), h) = {j}
      <4>1. k \in DOMAIN Listed /\ Listed \in Seq(Entry) /\ Matching(Listed, h) = {i}
        BY <2>1, <2>2, <3>3
      <4>2. QED BY <3>8, <4>1, RemoveAtKeepsPlace
    <3>12. HasPlace(mem[c].tok, h)'
      BY <2>4, <3>9, <3>11 DEF HasPlace, Opens
    <3>13. HasPlace(Listed, h)'
      BY <2>4, <3>3, <3>9 DEF HasPlace, Opens
    <3>14. QED BY <2>4, <3>10, <3>12, <3>13
  <2>7. QED BY <1>1, <1>2, <2>6, PlaceStep
<1>5. QED BY <1>1, <1>3, <1>4

LEMMA PlaceTokenRemove ==
  ASSUME MaxRunning <= 1, HeaderInv, SerialInv, PlaceInv, NEW c \in Commands, TokenRemove(c)
  PROVE  PlaceInv'
<1>1. /\ Alone(c) /\ UNCHANGED <<slots, gapped>> /\ pc[c] = "tokenRemove" /\ mem'[c] = mem[c]
      /\ (Fails(c) /\ tokens' = tokens) \/ pc'[c] = "tokenImport"
  BY TokenRemoveDoes
<1>2. \A d \in Commands \ {c} : pc[d] \notin Running
  BY <1>1, NobodyElseRuns DEF Running
<1>3. CASE Fails(c) /\ tokens' = tokens
  BY <1>1, <1>2, <1>3, PlaceRead DEF Fails
<1>4. CASE pc'[c] = "tokenImport"
  <2>1. ASSUME NEW h \in Holders, Bystander(h)'
        PROVE  (mem[c].id # NoTokenId /\ HasPlace(mem[c].tok, h))'
    <3>1. Bystander(h)
      BY <1>1, <2>1, BystanderBefore
    <3>2. mem[c].id # NoTokenId /\ HasPlace(mem[c].tok, h)
      BY <1>1, <3>1 DEF PlaceInv
    <3>3. QED BY <1>1, <3>2 DEF HasPlace, Opens
  <2>2. QED BY <1>1, <1>2, <1>4, <2>1, PlaceStep
<1>5. QED BY <1>1, <1>3, <1>4

LEMMA PlaceTokenImport ==
  ASSUME MaxRunning <= 1, HeaderInv, SerialInv, PlaceInv, NEW c \in Commands, TokenImport(c)
  PROVE  PlaceInv'
<1>1. /\ Alone(c) /\ slots' = slots /\ pc[c] = "tokenImport"
      /\ \/ /\ Fails(c) /\ tokens' = tokens
            /\ mem[c].id # NoTokenId => gapped' \/ mem[c].id \in Present
         \/ Imports(c) /\ gapped' = gapped
  BY TokenImportDoes
<1>2. \A d \in Commands \ {c} : pc[d] \notin Running
  BY <1>1, NobodyElseRuns DEF Running
<1>3. Present = {} /\ (gapped => gapped')
  BY <1>1 DEF SerialInv, TokenImport, HeaderInv, KeysInv, MainTypeOK
<1>4. CASE /\ Fails(c) /\ tokens' = tokens
           /\ mem[c].id # NoTokenId => gapped' \/ mem[c].id \in Present
  <2>1. mem[c].id # NoTokenId => \A h \in Holders : ~Bystander(h)'
    BY <1>3, <1>4 DEF Bystander
  <2>2. pc'[c] = "failed"
    BY <1>4 DEF Fails
  <2>3. QED BY <1>1, <1>2, <1>3, <1>4, <2>1, <2>2, PlaceRead
<1>5. CASE Imports(c)
  <2>1. Listed' = mem[c].tok
    BY <1>3, <1>5, ImportedIsListed DEF Imports
  <2>2. pc'[c] \in {"dump", "ok"}
    BY <1>5 DEF Imports, Turns
  <2>3. ASSUME NEW h \in Holders, Bystander(h)'
        PROVE  HasPlace(Listed, h)'
    <3>1. Bystander(h)
      BY <1>1, <1>3, <2>3, BystanderBefore
    <3>2. HasPlace(mem[c].tok, h)
      BY <1>1, <3>1 DEF PlaceInv
    <3>3. QED BY <1>1, <2>1, <3>2 DEF HasPlace, Opens
  <2>4. QED BY <1>1, <1>2, <2>2, <2>3, PlaceStep
<1>6. QED BY <1>1, <1>4, <1>5

LEMMA PlaceNext ==
  ASSUME MaxRunning <= 1, HeaderInv, HonestInv, SerialInv, PlaceInv, [Next]_vars
  PROVE  PlaceInv'
<1>1. ASSUME NEW c \in Commands,
             \/ Start(c) \/ Dump(c) \/ NoTokenFound(c) \/ Export(c)
             \/ AddKey(c) \/ TokenRemove(c) \/ TokenImport(c) \/ KillSlot(c)
             \/ Interrupt(c)
      PROVE  PlaceInv'
  BY <1>1, PlaceReading, PlaceAddKey, PlaceTokenRemove, PlaceTokenImport, PlaceKillSlot
<1>2. CASE UNCHANGED vars
  <2>1. /\ slots' = slots /\ tokens' = tokens /\ cmd' = cmd /\ pc' = pc /\ mem' = mem
        /\ gapped' = gapped
    BY <1>2 DEF vars, header
  <2>2. Listed' = Listed
    BY <2>1, SeenStays
  <2>3. QED BY <2>1, <2>2 DEF PlaceInv, Bystander, Named, HasPlace, Opens
<1>3. QED BY <1>1, <1>2 DEF Next

(* A holder has a keyslot at the start because the token lists it so. *)
LEMMA InitPlace == Init => PlaceInv
<1> SUFFICES ASSUME Init PROVE PlaceInv
  OBVIOUS
<1>1. PICK len \in 0 .. Cardinality(Holders) :
        \E list \in Injection(1 .. len, Holders), key \in Keys :
          /\ \A i \in 1 .. len : FirstSlot + i \in Slots
          /\ EnrolledBefore(list, key)
  BY DEF Init
<1>2. PICK list \in Injection(1 .. len, Holders), key \in Keys :
        /\ \A i \in 1 .. len : FirstSlot + i \in Slots
        /\ EnrolledBefore(list, key)
  BY <1>1
<1>3. len \in Nat /\ Slots \subseteq Nat /\ FirstSlot \in Nat
  BY <1>1, FS_CardinalityType
<1>4. /\ list \in [1 .. len -> Holders]
      /\ \A i, j \in 1 .. len : list[i] = list[j] => i = j
  BY <1>2 DEF Injection, IsInjective
<1> DEFINE written == [i \in 1 .. len |->
             [id |-> list[i], key |-> key, slot |-> FirstSlot + i, p |-> list[i]]]
           t0 == Least(TokenIds)
<1>5. slots = [n \in Slots |->
            IF n = FirstSlot THEN "passphrase"
            ELSE IF n - FirstSlot \in 1 .. len THEN list[n - FirstSlot] ELSE "free"]
  BY <1>2, <1>4 DEF EnrolledBefore
<1>6. /\ tokens = [t \in TokenIds |->
            IF t = t0 /\ list # <<>> THEN TokenWith([i \in DOMAIN list |->
                 [id |-> list[i], key |-> key, slot |-> FirstSlot + i, p |-> list[i]]])
            ELSE NoToken]
      /\ DOMAIN list = 1 .. len
      /\ t0 \in TokenIds
  BY <1>2, <1>4, LeastIsMember DEF EnrolledBefore
<1>7. DOMAIN written = 1 .. len
      /\ \A i \in 1 .. len : /\ written[i].id = list[i] /\ written[i].p = list[i]
                             /\ written[i].slot = FirstSlot + i
  OBVIOUS
<1>8. list # <<>> => tokens[t0] = TokenWith(written)
  BY <1>6
<1> HIDE DEF written
<1>9. ASSUME NEW h \in Holders, NEW n \in Slots, slots[n] = h
      PROVE  HasPlace(Listed, h)
  <2>1. n - FirstSlot \in 1 .. len /\ list[n - FirstSlot] = h
    BY <1>3, <1>5, <1>9
  <2>2. PICK i \in 1 .. len : n = FirstSlot + i /\ list[i] = h
    BY <1>3, <2>1
  <2>3. list # <<>>
    BY <1>6, <2>2
  <2>4. tokens[t0].present /\ tokens[t0].entries = written
    BY <1>8, <2>3 DEF TokenWith
  <2>5. \A t \in Present : t = t0
    <3>1. ~NoToken.present
      BY DEF NoToken
    <3>2. QED BY <1>6, <3>1 DEF Present
  <2>6. Listed = written
    BY <1>6, <2>4, <2>5, ListOfToken DEF Present
  <2>7. Matching(written, h) = {i}
    BY <1>4, <1>7, <2>2 DEF Matching
  <2>8. Opens(written[i])
    BY <1>7, <1>9, <2>2 DEF Opens
  <2>9. QED BY <1>7, <2>2, <2>6, <2>7, <2>8 DEF HasPlace
<1>10. \A c \in Commands : pc[c] = "new"
  BY DEF Init
<1>11. QED BY <1>9, <1>10 DEF PlaceInv, Bystander

(* A holder whom no command names and whose token was not lost in an       *)
(* interruption keeps one entry that opens its keyslot, in the token or,   *)
(* while that is rewritten, in the list that will be written.              *)
THEOREM PlaceInvariant ==
  ASSUME MaxRunning <= 1
  PROVE  Spec => []PlaceInv
<1>1. HeaderInv /\ HonestInv /\ SerialInv /\ PlaceInv /\ [Next]_vars => PlaceInv'
  BY PlaceNext
<1>2. QED BY InitPlace, HeaderInvariant, HonestInvariant, SerialInvariant, <1>1, PTL DEF Spec

(* So whatever is done for the other holders, one command after the other, *)
(* and wherever a command is interrupted, that holder can unlock after     *)
(* every step, except while the token is away (removeRecipientAt,          *)
(* enrolRecipient: replaceToken).                                          *)
THEOREM AccessOfOthersStays ==
  ASSUME MaxRunning <= 1
  PROVE  Spec => BystandersKeepAccess
<1> DEFINE A == \A h \in Holders :
       (\E n \in Slots : slots[n] = h) /\ ~Named(h)
         => /\ \E n \in Slots : slots'[n] = h
            /\ (~gapped /\ (\A c \in Commands : ~InGap(c)) => Unlockable(h))'
<1>1. HeaderInv /\ HonestInv /\ SerialInv' /\ PlaceInv' /\ [Next]_vars => A
  <2> SUFFICES ASSUME HeaderInv, HonestInv, SerialInv', PlaceInv', [Next]_vars,
                      NEW h \in Holders, NEW n \in Slots, slots[n] = h, ~Named(h)
               PROVE  /\ \E m \in Slots : slots'[m] = h
                      /\ (~gapped /\ (\A c \in Commands : ~InGap(c)) => Unlockable(h))'
    OBVIOUS
  <2>1. slots'[n] = h
    BY KeyslotStays
  <2>2. cmd' = cmd
    BY DEF Next, Start, Dump, NoTokenFound, Export, AddKey, TokenRemove, TokenImport, KillSlot,
           Interrupt, vars
  <2>3. ASSUME ~gapped', (\A c \in Commands : ~InGap(c))'
        PROVE  Unlockable(h)'
    <3>1. Bystander(h)'
      BY <2>1, <2>2, <2>3 DEF Bystander, Named
    <3>2. (\A c \in Commands : pc[c] # "tokenImport")'
      BY <2>3, <3>1 DEF PlaceInv, InGap
    <3>3. HasPlace(Listed, h)'
      BY <3>1, <3>2 DEF PlaceInv
    <3>4. QED BY <3>3, PlaceUnlocksAfter
  <2>4. QED BY <2>1, <2>3
<1>2. BystandersKeepAccess <=> [][A]_vars
  BY DEF BystandersKeepAccess
<1> HIDE DEF A
<1>3. QED
  BY <1>1, <1>2, HeaderInvariant, HonestInvariant, SerialInvariant, PlaceInvariant, PTL DEF Spec
=============================================================================
