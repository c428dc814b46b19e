----------------------------- MODULE Enrolment -----------------------------
(***************************************************************************)
(* The LUKS2 header of one volume and the operator's commands that rewrite *)
(* it: enrol, enrol --replace, enrol --remove, and what pair does once a   *)
(* key holder has proved itself (cmd/synctang-unlocker, enrol.go).         *)
(*                                                                         *)
(* The header has keyslots, and mr-1 tokens.  A token has two lists that   *)
(* belong together by position: its recipients, which only the commands    *)
(* write, and its keyslots, which cryptsetup knows too.  Each cryptsetup   *)
(* call is atomic; nothing holds across two of them.  So every             *)
(* call is a step, other commands and the agent see what lies between, and *)
(* a command may be interrupted before any of them: the call fails, the    *)
(* operator presses ^C, the machine loses power.                           *)
(***************************************************************************)
EXTENDS Integers, Sequences, FiniteSets, SequencesExt

CONSTANTS
  Commands,       \* the commands the operator runs, each once
  Holders,        \* the transport ids of the key holders
  NoId,           \* enrolled by hand, without a transport id
  Keys,           \* the key holders' public keys (their kids)
  Slots,          \* the keyslots; FirstSlot holds the operator's passphrase
  FirstSlot,
  TokenIds,       \* the token ids cryptsetup may give
  Kinds,          \* which kinds of command are run, see AllKinds
  MaxRunning,     \* how many commands may run at the same time
  Interruptions   \* whether commands may be interrupted

(* "anon" is enrol without --recipient-transport-id; "move" is --replace   *)
(* with a --recipient-transport-id other than the one replaced.            *)
AllKinds == {"enrol", "anon", "pair", "replace", "move", "remove"}

ASSUME EnrolmentAssumption ==
  /\ IsFiniteSet(Holders) /\ NoId \notin Holders /\ Commands \cap Holders = {}
  /\ {"free", "passphrase"} \cap (Commands \cup Holders) = {}
  /\ Slots \subseteq Nat /\ FirstSlot \in Slots
  /\ TokenIds \subseteq Nat /\ TokenIds # {}
  /\ Kinds \subseteq AllKinds /\ MaxRunning \in Nat /\ Interruptions \in BOOLEAN

(* The secret P of an enrolment is named after the command that made it,   *)
(* or after the holder when it was there before the first command.  An     *)
(* entry's slot is the keyslot that secret was added to (history): the     *)
(* code knows it only by the list of keyslots.                             *)
Secrets == Commands \cup Holders
Entry == [id : Holders \cup {NoId}, key : Keys, slot : Slots, p : Secrets]
NoToken == [present |-> FALSE, entries |-> <<>>]
TokenWith(entries) == [present |-> TRUE, entries |-> entries]
NoSlot == -1
UnknownSlot == -2
NoTokenId == -1

VARIABLES
  slots,     \* what each keyslot opens for
  tokens,    \* the mr-1 tokens, with their recipients
  keyslots,  \* the keyslots each token lists
  cmd,       \* the arguments of each command, fixed
  pc,        \* where each command is
  mem,       \* what it has read, and decided
  copied,    \* the list of keyslots it has read, and changed
  revoked,   \* secrets a command has reported revoked (history)
  gapped     \* a command ended between token remove and import (history)

header == <<slots, tokens, keyslots>>
vars == <<header, cmd, pc, mem, copied, revoked, gapped>>

Ended == {"ok", "already", "refused", "failed"}
Running == {"dump", "export", "addKey", "tokenRemove", "tokenImport", "killSlot"}
(* Why the header is being read. *)
Purposes == {"plan", "load", "base", "reload"}

-----------------------------------------------------------------------------
(* What a command sees. *)

Present == {t \in TokenIds : tokens[t].present}
Least(S) == CHOOSE n \in S : \A m \in S : n <= m

(* tokenIDsOfType is ascending and loadToken takes ids[0]. *)
SeenToken == IF Present = {} THEN NoTokenId ELSE Least(Present)

LowestFree ==
  LET free == {n \in Slots : slots[n] = "free"}
  IN  IF free = {} THEN NoSlot ELSE Least(free)

(* recipientsByTransportID *)
Matching(entries, id) == {i \in DOMAIN entries : id # NoId /\ entries[i].id = id}

(* keyslotOf, "?" where the lists disagree about their length. *)
KeyslotOf(list, i) == IF i \in DOMAIN list THEN list[i] ELSE UnknownSlot

(* slices.Index, and selectRecipient with a keyslot: the first of several. *)
FirstOf(S) == {i \in S : \A j \in S : i <= j}

(* selectRecipient: without a keyslot, there must be one match. *)
Selected(entries, list, id, n) ==
  LET matching == Matching(entries, id)
  IN  IF n = NoSlot THEN {i \in matching : matching = {i}}
      ELSE FirstOf({i \in matching : KeyslotOf(list, i) = n})

(* loadEnrolledToken: the two lists have the same length. *)
Intact(entries, list) == Len(list) = Len(entries)

(* The agent answers h only when one entry has its transport id, and that  *)
(* unlocks if the entry's secret is in its keyslot.                        *)
Opens(e) == slots[e.slot] = e.p
Unlockable(h) ==
  LET entries == tokens[SeenToken].entries
  IN  /\ Present # {}
      /\ \E i \in DOMAIN entries : Matching(entries, h) = {i} /\ Opens(entries[i])
UnlockableWith(h, k) ==
  Unlockable(h) /\ \A i \in Matching(tokens[SeenToken].entries, h) :
                     tokens[SeenToken].entries[i].key = k

-----------------------------------------------------------------------------
Ends(c, how) == pc' = [pc EXCEPT ![c] = how]
Goto(c, step) == pc' = [pc EXCEPT ![c] = step]

(* Start reading the header: luksDump comes first. *)
Reads(c, purpose, old) ==
  /\ Goto(c, "dump")
  /\ mem' = [mem EXCEPT ![c].for = purpose, ![c].old = old]

Start(c) ==
  /\ pc[c] = "new"
  /\ Cardinality({d \in Commands : pc[d] \in Running}) < MaxRunning
  /\ Reads(c, CASE cmd[c].kind \in {"enrol", "pair"} -> "plan"
                [] cmd[c].kind = "anon" -> "base"
                [] cmd[c].kind \in {"replace", "move", "remove"} -> "load", NoSlot)
  /\ UNCHANGED <<header, cmd, copied, revoked, gapped>>

(* Mutant of AfterPlan: the transport id is not looked up first. *)
AfterPlanUnchecked(c, entries, list) == Reads(c, "base", NoSlot) /\ UNCHANGED copied

(* planEnrolment, for enrol (enrolOnce) and for pair, which enrols, or     *)
(* replaces the old entry, only when the operator agrees.                  *)
AfterPlan(c, entries, list) ==
  LET same == Matching(entries, cmd[c].newId)
      Holds(i) == entries[i].key = cmd[c].key
  IN  /\ \/ same = {} /\ Reads(c, "base", NoSlot)
         \/ \E i \in same : same = {i} /\ Holds(i) /\ Ends(c, "already") /\ UNCHANGED mem
         \/ \E i \in same : /\ same = {i} /\ ~Holds(i) /\ cmd[c].kind = "pair"
                            /\ Reads(c, "load", KeyslotOf(list, i))
         \/ /\ same # {} \/ cmd[c].kind = "pair"
            /\ ~(\E i \in same : same = {i} /\ Holds(i))
            /\ Ends(c, "refused") /\ UNCHANGED mem
      /\ UNCHANGED copied

(* The --keyslot of the command: the operator may name any, or none; pair  *)
(* names the one planEnrolment saw.                                        *)
KeyslotGiven(c) == IF cmd[c].kind = "pair" THEN {mem[c].old} ELSE Slots \cup {NoSlot}

(* The entry chosen is to be removed: its removal works on copies of both  *)
(* lists.                                                                  *)
Removes(c, entries, list, i) ==
  /\ Goto(c, "killSlot")
  /\ mem' = [mem EXCEPT ![c].tok = entries, ![c].idx = i]
  /\ copied' = [copied EXCEPT ![c] = list]

(* Mutant of AfterLoad: lists of different lengths are worked with. *)
AfterLoadUnchecked(c, entries, list) ==
  \E n \in KeyslotGiven(c) :
    LET chosen == {i \in Selected(entries, list, cmd[c].id, n) : i \in DOMAIN list}
    IN  \/ chosen = {} /\ Ends(c, "refused") /\ UNCHANGED <<mem, copied>>
        \/ \E i \in chosen :
             \/ cmd[c].kind = "remove" /\ Removes(c, entries, list, i)
             \/ cmd[c].kind # "remove" /\ Reads(c, "base", list[i]) /\ UNCHANGED copied

(* loadEnrolledToken and selectRecipient, for a removal and a replacement. *)
AfterLoad(c, entries, list) ==
  \E n \in KeyslotGiven(c) :
    LET chosen == {i \in Selected(entries, list, cmd[c].id, n) : Intact(entries, list)}
    IN  \/ chosen = {} /\ Ends(c, "refused") /\ UNCHANGED <<mem, copied>>
        \/ \E i \in chosen :
             \/ cmd[c].kind = "remove" /\ Removes(c, entries, list, i)
             \/ cmd[c].kind # "remove" /\ Reads(c, "base", list[i]) /\ UNCHANGED copied

(* The start of enrolRecipient: the keyslot is from the luksDump. *)
AfterBase(c, entries, list) ==
  \/ mem[c].free = NoSlot /\ Ends(c, "refused") /\ UNCHANGED <<mem, copied>>
  \/ /\ mem[c].free # NoSlot /\ Goto(c, "addKey")
     /\ mem' = [mem EXCEPT ![c].tok = entries]
     /\ copied' = [copied EXCEPT ![c] = list]

(* replaceRecipient, once the new key is enrolled, finds the old keyslot.  *)
AfterReload(c, entries, list) ==
  LET old == {i \in FirstOf({i \in DOMAIN list : list[i] = mem[c].old}) :
                Intact(entries, list)}
  IN  \/ old = {} /\ Ends(c, "failed") /\ UNCHANGED <<mem, copied>>
      \/ \E i \in old : Removes(c, entries, list, i)

(* luksDump finds the tokens and the free keyslots. *)
Dump(c) ==
  /\ pc[c] = "dump"
  /\ Goto(c, "export")
  /\ mem' = [mem EXCEPT ![c].id = SeenToken, ![c].free = LowestFree]
  /\ UNCHANGED <<header, cmd, copied, revoked, gapped>>

(* With no token: nothing to plan around, nothing to remove, and the first *)
(* enrolment starts with empty lists.                                      *)
NoTokenFound(c) ==
  /\ pc[c] = "export" /\ mem[c].id = NoTokenId
  /\ \/ mem[c].for = "plan" /\ AfterPlan(c, <<>>, <<>>)
     \/ mem[c].for = "base" /\ AfterBase(c, <<>>, <<>>)
     \/ mem[c].for = "load" /\ Ends(c, "refused") /\ UNCHANGED <<mem, copied>>
     \/ mem[c].for = "reload" /\ Ends(c, "failed") /\ UNCHANGED <<mem, copied>>
  /\ UNCHANGED <<header, cmd, revoked, gapped>>

(* token export: retried while the token is away, then an error. *)
Export(c) ==
  /\ pc[c] = "export" /\ mem[c].id # NoTokenId
  /\ LET token == tokens[mem[c].id]
         list == keyslots[mem[c].id]
     IN  \/ ~token.present /\ Ends(c, "failed") /\ UNCHANGED <<mem, copied>>
         \/ /\ token.present
            /\ \/ mem[c].for = "plan" /\ AfterPlan(c, token.entries, list)
               \/ mem[c].for = "load" /\ AfterLoad(c, token.entries, list)
               \/ mem[c].for = "base" /\ AfterBase(c, token.entries, list)
               \/ mem[c].for = "reload" /\ AfterReload(c, token.entries, list)
  /\ UNCHANGED <<header, cmd, revoked, gapped>>

(* luksAddKey fails on a keyslot taken since the luksDump; enrolRecipient  *)
(* appends to both lists.                                                  *)
AddKey(c) ==
  /\ pc[c] = "addKey"
  /\ LET n == mem[c].free
         e == [id |-> cmd[c].newId, key |-> cmd[c].key, slot |-> n, p |-> c]
     IN  \/ /\ slots[n] = "free"
            /\ slots' = [slots EXCEPT ![n] = c]
            /\ mem' = [mem EXCEPT ![c].tok = Append(@, e)]
            /\ copied' = [copied EXCEPT ![c] = Append(@, n)]
            /\ Goto(c, IF mem[c].id = NoTokenId THEN "tokenImport" ELSE "tokenRemove")
         \/ slots[n] # "free" /\ Ends(c, "failed") /\ UNCHANGED <<slots, mem, copied>>
  /\ UNCHANGED <<tokens, keyslots, cmd, revoked, gapped>>

TokenRemove(c) ==
  /\ pc[c] = "tokenRemove"
  /\ LET t == mem[c].id
     IN  \/ /\ tokens[t].present
            /\ tokens' = [tokens EXCEPT ![t] = NoToken]
            /\ keyslots' = [keyslots EXCEPT ![t] = <<>>]
            /\ Goto(c, "tokenImport")
         \/ ~tokens[t].present /\ Ends(c, "failed") /\ UNCHANGED <<tokens, keyslots>>
  /\ UNCHANGED <<slots, cmd, mem, copied, revoked, gapped>>

(* Mutant of AfterImport: a replacement does not go on to revoke. *)
AfterImportOnly(c) ==
  /\ revoked' = revoked \cup mem[c].gone
  /\ Ends(c, "ok") /\ UNCHANGED mem

(* The token is written: a removal, or the removing half of a replacement, *)
(* is complete; the enrolling half goes on to the removal.                 *)
AfterImport(c) ==
  \/ /\ mem[c].gone = {} /\ cmd[c].kind # "remove" /\ mem[c].old # NoSlot
     /\ Reads(c, "reload", mem[c].old)
     /\ UNCHANGED revoked
  \/ /\ mem[c].gone # {} \/ mem[c].old = NoSlot
     /\ revoked' = revoked \cup mem[c].gone
     /\ Ends(c, "ok") /\ UNCHANGED mem

(* token import, to the id just removed or to the lowest free one; it does *)
(* not replace a token, and refuses one that lists a keyslot the volume    *)
(* does not have.                                                          *)
TokenImport(c) ==
  /\ pc[c] = "tokenImport"
  /\ LET free == TokenIds \ Present
         ids == IF mem[c].id # NoTokenId THEN free \cap {mem[c].id}
                ELSE {t \in free : \A u \in free : t <= u}
         valid == \A i \in DOMAIN copied[c] : slots[copied[c][i]] # "free"
     IN  \/ \E t \in ids :
              /\ valid
              /\ tokens' = [tokens EXCEPT ![t] = TokenWith(mem[c].tok)]
              /\ keyslots' = [keyslots EXCEPT ![t] = copied[c]]
              /\ AfterImport(c)
              /\ UNCHANGED gapped
         \/ /\ ids = {} \/ ~valid
            /\ gapped' = (gapped \/ (ids # {} /\ mem[c].id # NoTokenId))
            /\ Ends(c, "failed") /\ UNCHANGED <<tokens, keyslots, mem, revoked>>
  /\ UNCHANGED <<slots, cmd, copied>>

(* luksKillSlot also takes the keyslot off every token's list: its first   *)
(* mention.                                                                *)
Without(list, n) ==
  LET at == {i \in DOMAIN list : list[i] = n}
  IN  IF at = {} THEN list ELSE RemoveAt(list, Least(at))

(* removeRecipientAt: luksKillSlot, which fails on an empty keyslot, and   *)
(* the entry is dropped from the copies of both lists.                     *)
KillsSlot(c, n) ==
  \/ /\ slots[n] # "free"
     /\ slots' = [slots EXCEPT ![n] = "free"]
     /\ keyslots' = [t \in TokenIds |-> Without(keyslots[t], n)]
     /\ mem' = [mem EXCEPT ![c].tok = RemoveAt(@, mem[c].idx),
                           ![c].gone = {mem[c].tok[mem[c].idx].p}]
     /\ copied' = [copied EXCEPT ![c] = RemoveAt(@, mem[c].idx)]
     /\ Goto(c, "tokenRemove")
  \/ slots[n] = "free" /\ Ends(c, "failed") /\ UNCHANGED <<slots, keyslots, mem, copied>>

(* Mutant of KillSlot: the token is rewritten, the keyslot is left alone. *)
KillSlotLater(c) ==
  /\ pc[c] = "killSlot"
  /\ mem' = [mem EXCEPT ![c].tok = RemoveAt(@, mem[c].idx),
                        ![c].gone = {mem[c].tok[mem[c].idx].p}]
  /\ copied' = [copied EXCEPT ![c] = RemoveAt(@, mem[c].idx)]
  /\ Goto(c, "tokenRemove")
  /\ UNCHANGED <<header, cmd, revoked, gapped>>

(* Mutant of KillSlot: the index is taken in a list that has grown. *)
KillSlotOfLast(c) ==
  /\ pc[c] = "killSlot"
  /\ KillsSlot(c, copied[c][Len(copied[c])])
  /\ UNCHANGED <<tokens, cmd, revoked, gapped>>

KillSlot(c) ==
  /\ pc[c] = "killSlot"
  /\ KillsSlot(c, copied[c][mem[c].idx])
  /\ UNCHANGED <<tokens, cmd, revoked, gapped>>

Interrupt(c) ==
  /\ Interruptions
  /\ pc[c] \in Running
  /\ Ends(c, "failed")
  /\ gapped' = (gapped \/ (pc[c] = "tokenImport" /\ mem[c].id # NoTokenId))
  /\ UNCHANGED <<header, cmd, mem, copied, revoked>>

-----------------------------------------------------------------------------
(* Some of the holders are enrolled already, one keyslot each. *)
EnrolledBefore(list, key) ==
  /\ slots = [n \in Slots |->
       IF n = FirstSlot THEN "passphrase"
       ELSE IF n - FirstSlot \in DOMAIN list THEN list[n - FirstSlot] ELSE "free"]
  /\ tokens = [t \in TokenIds |->
       IF t = Least(TokenIds) /\ list # <<>>
         THEN TokenWith([i \in DOMAIN list |->
                [id |-> list[i], key |-> key, slot |-> FirstSlot + i, p |-> list[i]]])
         ELSE NoToken]
  /\ keyslots = [t \in TokenIds |->
       IF t = Least(TokenIds) THEN [i \in DOMAIN list |-> FirstSlot + i] ELSE <<>>]

Arguments ==
  {a \in [kind : Kinds, id : Holders, newId : Holders \cup {NoId}, key : Keys] :
     /\ a.kind = "anon" <=> a.newId = NoId
     /\ a.kind \in {"enrol", "pair", "replace", "remove"} => a.newId = a.id}

Init ==
  /\ \E n \in 0 .. Cardinality(Holders) :
       \E list \in Injection(1 .. n, Holders), key \in Keys :
         /\ \A i \in 1 .. n : FirstSlot + i \in Slots
         /\ EnrolledBefore(list, key)
  /\ cmd \in [Commands -> Arguments]
  /\ pc = [c \in Commands |-> "new"]
  /\ mem = [c \in Commands |->
       [tok |-> <<>>, id |-> NoTokenId, free |-> NoSlot, old |-> NoSlot, idx |-> 1,
        gone |-> {}, for |-> "plan"]]
  /\ copied = [c \in Commands |-> <<>>]
  /\ revoked = {} /\ gapped = FALSE

Next == \E c \in Commands :
  \/ Start(c) \/ Dump(c) \/ NoTokenFound(c) \/ Export(c)
  \/ AddKey(c) \/ TokenRemove(c) \/ TokenImport(c) \/ KillSlot(c)
  \/ Interrupt(c)

Spec == Init /\ [][Next]_vars
-----------------------------------------------------------------------------
(* Properties. *)

(* The variables keep their types: entries and lists name keyslots that    *)
(* exist, and an index chosen in a token is one of its entries.            *)
MainTypeOK ==
  /\ slots \in [Slots -> {"free", "passphrase"} \cup Secrets]
  /\ tokens \in [TokenIds -> [present : BOOLEAN, entries : Seq(Entry)]]
  /\ cmd \in [Commands -> Arguments]
  /\ pc \in [Commands -> {"new"} \cup Running \cup Ended]
  /\ mem \in [Commands ->
       [tok : Seq(Entry), id : TokenIds \cup {NoTokenId}, free : Slots \cup {NoSlot},
        old : Slots \cup {NoSlot, UnknownSlot}, idx : Int, gone : SUBSET Secrets,
        for : Purposes]]
  /\ \A c \in Commands : pc[c] = "killSlot" => mem[c].idx \in DOMAIN mem[c].tok
  /\ revoked \subseteq Secrets /\ gapped \in BOOLEAN

ListTypeOK ==
  /\ keyslots \in [TokenIds -> Seq(Slots)]
  /\ copied \in [Commands -> Seq(Slots)]

TypeOK == MainTypeOK /\ ListTypeOK

InGap(c) == pc[c] = "tokenImport" /\ mem[c].id # NoTokenId
Untroubled == \A c \in Commands : pc[c] # "failed"
Named(h) == \E c \in Commands : h \in {cmd[c].id, cmd[c].newId}

(* enrol --replace gave h, who may have had one, another's entry; the      *)
(* agent then refuses h until the operator removes one of them.            *)
MovedTo(h) == \E c \in Commands :
  cmd[c].kind = "move" /\ cmd[c].newId = h /\ pc[c] = "ok"

(* A command that says the holder is enrolled, now or already, leaves a    *)
(* volume the agent will let it unlock with that key, unless a command     *)
(* failed before, or moved another's entry to the holder (enrolOnce,       *)
(* replaceRecipient, runPairOnce).                                         *)
SuccessMeansEnrolled ==
  [][\A c \in Commands :
       pc[c] # pc'[c] /\ pc'[c] \in {"ok", "already"} /\ cmd[c].kind \notin {"remove", "anon"}
         => (Untroubled => \/ UnlockableWith(cmd[c].newId, cmd[c].key)
                           \/ MovedTo(cmd[c].newId))']_vars

(* A holder no command names can unlock throughout, whatever is done for   *)
(* the others and wherever it is interrupted, except between token remove  *)
(* and token import, when nobody can.                                      *)
BystandersKeepAccess ==
  [][\A h \in Holders :
       (\E n \in Slots : slots[n] = h) /\ ~Named(h)
         => /\ \E n \in Slots : slots'[n] = h
            /\ (~gapped /\ (\A c \in Commands : ~InGap(c)) => Unlockable(h))']_vars

(* There is one enrolled recipient per transport id (enrolOnce), between   *)
(* the commands of an operator none of whose commands failed, except where *)
(* an entry was moved to another's transport id: a replacement does not    *)
(* ask who has it.                                                         *)
OneRecipientPerTransportId ==
  Untroubled /\ (\A c \in Commands : pc[c] \notin Running) =>
    \A t \in TokenIds, h \in Holders :
      Cardinality(Matching(tokens[t].entries, h)) <= 1 \/ MovedTo(h)

(* The operator's passphrase opens the volume after anything: commands     *)
(* that run at the same time, work from stale tokens and are interrupted.  *)
PassphraseAlwaysOpens == slots[FirstSlot] = "passphrase"

(* Once a command has reported a key revoked, its secret opens nothing,    *)
(* however the commands interleave: "its previous key no longer opens the  *)
(* device" (removeRecipientAt, runEnrol).                                  *)
RevokedOpensNothing == \A n \in Slots : slots[n] \notin revoked

(* Revoking one key holder destroys that key holder's keyslot and no       *)
(* other's (removeRecipient's comment), also in a token an interrupted     *)
(* removal has left with an entry whose keyslot is in use again.           *)
RevocationHitsItsOwn == \A c \in Commands :
  pc[c] = "killSlot" =>
    slots[copied[c][mem[c].idx]] \in {"free", mem[c].tok[mem[c].idx].p}

(* While its key is replaced there is never a moment at which the key      *)
(* holder cannot unlock the device (replaceRecipient's comment), not       *)
(* counting the gap between token remove and token import.                 *)
RotationKeepsAccess == \A c \in Commands :
  /\ cmd[c].kind = "replace" /\ pc[c] \in Running /\ ~InGap(c)
  /\ mem[c].for \in {"base", "reload"}
  => Unlockable(cmd[c].id)

-----------------------------------------------------------------------------
(* Why PassphraseAlwaysOpens and RevokedOpensNothing are invariant. *)

(* The command may still add its key. *)
NotAdded(c) ==
  \/ pc[c] \in {"new", "addKey"}
  \/ pc[c] \in {"dump", "export"} /\ mem[c].for # "reload"

(* An entry, however stale, names a keyslot other than the passphrase's,   *)
(* and the only one its secret was ever in.                                *)
Sound ==
  {e \in Entry :
     /\ e.slot # FirstSlot
     /\ e.p \in Commands => ~NotAdded(e.p)
     /\ \A n \in Slots : slots[n] = e.p => n = e.slot}

Gone == revoked \cup UNION {mem[c].gone : c \in Commands}

(* Every secret has at most one life: not added yet, in its keyslot, gone. *)
KeysInv ==
  /\ MainTypeOK
  /\ PassphraseAlwaysOpens
  /\ \A t \in TokenIds : tokens[t].entries \in Seq(Sound)
  /\ \A c \in Commands :
       /\ mem[c].tok \in Seq(Sound)
       /\ mem[c].free # FirstSlot
       /\ pc[c] = "addKey" => mem[c].free \in Slots
       /\ NotAdded(c) => \A n \in Slots : slots[n] # c
  /\ \A p \in Secrets : p \in Gone =>
       /\ \A n \in Slots : slots[n] # p
       /\ p \in Commands => ~NotAdded(p)

(* The lists of a token or a command, if they have the same length, name   *)
(* each entry's own keyslot; the list of keyslots is never the longer one. *)
Paired(entries, list) ==
  /\ Len(list) <= Len(entries)
  /\ Intact(entries, list) => \A i \in DOMAIN list : list[i] = entries[i].slot

PairedInv ==
  /\ ListTypeOK
  /\ \A t \in TokenIds : Paired(tokens[t].entries, keyslots[t])
  /\ \A c \in Commands : /\ Paired(mem[c].tok, copied[c])
                         /\ pc[c] = "killSlot" => Intact(mem[c].tok, copied[c])

HeaderInv == KeysInv /\ PairedInv
=============================================================================
