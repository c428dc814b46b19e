--------------------------- MODULE LocalDiscovery ---------------------------
(***************************************************************************)
(* The local leg of both sides: the machine's Listen opens a TCP port and  *)
(* multicasts it, the key holder's Dial waits for such an announcement,    *)
(* dials it and shakes hands, and keeps waiting if that leads nowhere.     *)
(* Neither announcements nor the port are authenticated: anybody on the    *)
(* network can announce the machine's id or connect to it.  Multi starts   *)
(* Listen again when it fails (MultiRace), on another port.                *)
(*                                                                         *)
(* An announcement reaches the sockets that are open, or is lost; by the   *)
(* time it is read, the port it names may have closed.  A TCP connection   *)
(* waits in the listener's queue until it is accepted, and is reset if the *)
(* listener closes first.                                                  *)
(***************************************************************************)
EXTENDS Integers, Sequences, FiniteSets

CONSTANTS
  Interfaces, \* of the key holder, multicast-capable
  MaxListens, \* bounds calls of Listen, each of which has a port of its own
  MaxTrouble  \* bounds false announcements, strangers' connections, and
              \* what breaks

ASSUME LocalAssumption ==
  /\ IsFiniteSet(Interfaces)
  /\ MaxListens \in Nat /\ MaxTrouble \in Nat

Ports == 1..MaxListens

(* Port 0 is where nothing answers, -1 where another identity does.        *)
Dead == 0
Impostor == -1
Lies == {Dead, Impostor}
Addresses == Ports \cup Lies

Peers == {"holder", "stranger"}
Nobody == "nobody"

VARIABLES
  listen,    \* where Listen is, or how it returned
  port,      \* of the latest listener
  ready,     \* connections in its queue
  acceptor,  \* the goroutine in Accept, or the connection it has sent
  guest,     \* whose handshake it is, and whose connection after that
  announcer, \* the goroutine that multicasts
  mCtx,      \* the machine's ctx is live
  dial,      \* where Dial is, or how it returned
  sockets,   \* its multicast sockets that are open
  readers,   \* goroutines reading from them
  found,     \* the channel of addresses
  addr,      \* the address it has taken
  pCtx,      \* the key holder's ctx is live
  link,      \* the key holder's connection is up
  air,       \* announcements in the sockets' buffers
  trouble    \* that there has been

machineVars == <<listen, port, ready, acceptor, guest, announcer, mCtx>>
holderVars == <<dial, sockets, readers, found, addr, pCtx>>
netVars == <<air, trouble>>
localVars == <<machineVars, holderVars, link, netVars>>

-----------------------------------------------------------------------------
(* The machine: Listen.                                                    *)

(* The announcer may have no interface to announce on; Listen goes on.     *)
StartListen ==
  /\ listen \in {"off", "failed"} /\ mCtx /\ port < MaxListens
  /\ listen' = "accepting" /\ port' = port + 1
  /\ acceptor' = "accepting"
  /\ \/ announcer' = "announcing" /\ UNCHANGED trouble
     \/ trouble < MaxTrouble /\ announcer' = "done" /\ trouble' = trouble + 1
  /\ UNCHANGED <<ready, guest, mCtx, holderVars, link, air>>

ListenFails ==
  /\ listen \in {"off", "failed"} /\ mCtx /\ trouble < MaxTrouble
  /\ listen' = "failed" /\ trouble' = trouble + 1
  /\ UNCHANGED <<port, ready, acceptor, guest, announcer, mCtx, holderVars, link, air>>

(* The listener closes: what is in its queue is reset.                     *)
CloseListener ==
  /\ ready' = {}
  /\ link' = (link /\ "holder" \notin ready)

(* The goroutine of acceptWithContext.                                     *)
Accepts(p) ==
  /\ acceptor = "accepting" /\ p \in ready
  /\ acceptor' = p /\ ready' = ready \ {p}
  /\ UNCHANGED <<listen, port, guest, announcer, mCtx, holderVars, link, netVars>>

AcceptFails ==
  /\ acceptor = "accepting" /\ listen # "accepting"
  /\ acceptor' = Nobody
  /\ UNCHANGED <<listen, port, ready, guest, announcer, mCtx, holderVars, link, netVars>>

TakeConnection ==
  /\ listen = "accepting" /\ acceptor \in Peers
  /\ guest' = acceptor /\ acceptor' = Nobody
  /\ CloseListener
  /\ listen' = "handshake"
  /\ UNCHANGED <<port, announcer, mCtx, holderVars, netVars>>

(* The ctx ends first: a connection the goroutine has accepted, or is      *)
(* about to send, is left where it is.                                     *)
ListenCancelled ==
  /\ listen = "accepting" /\ ~mCtx
  /\ CloseListener
  /\ listen' = "givingUp"
  /\ UNCHANGED <<port, acceptor, guest, announcer, mCtx, holderVars, netVars>>

(* The key holder has finished its half, or will not: another identity,    *)
(* silence until handshakeTimeout, a broken connection.                    *)
ServerHandshake ==
  /\ listen = "handshake"
  /\ \/ /\ guest = "holder" /\ dial = "connected"
        /\ listen' = "returning" /\ UNCHANGED guest
     \/ /\ guest = "stranger"
        /\ listen' = "givingUp" /\ guest' = Nobody
  /\ UNCHANGED <<port, ready, acceptor, announcer, mCtx, holderVars, link, netVars>>

(* Mutant of StopsAnnouncing: it does not wait for the goroutine. *)
StopsAnnouncingAtOnce == TRUE

(* The deferred stopAnnounce has closed stop and waits for done.           *)
StopsAnnouncing == announcer = "done"

ListenReturns ==
  /\ listen \in {"returning", "givingUp"} /\ StopsAnnouncing
  /\ listen' = IF listen = "returning" THEN "served" ELSE "failed"
  /\ UNCHANGED <<port, ready, acceptor, guest, announcer, mCtx, holderVars, link, netVars>>

EndMachineCtx ==
  /\ mCtx /\ mCtx' = FALSE
  /\ UNCHANGED <<listen, port, ready, acceptor, guest, announcer, holderVars, link, netVars>>

(* On every interface, at once and on every tick.                          *)
Announce ==
  /\ announcer = "announcing"
  /\ air' = air \cup (sockets \X {port})
  /\ UNCHANGED <<machineVars, holderVars, link, trouble>>

AnnounceEnds ==
  /\ announcer = "announcing" /\ (~mCtx \/ listen \in {"returning", "givingUp"})
  /\ announcer' = "done"
  /\ UNCHANGED <<listen, port, ready, acceptor, guest, mCtx, holderVars, link, netVars>>

-----------------------------------------------------------------------------
(* The key holder: Dial.                                                   *)

(* A socket on every interface that lets it.  The readers of the wait      *)
(* before have gone by then: what they send is read by nobody.             *)
OpenSockets ==
  /\ dial = "lookup" /\ pCtx /\ readers = {}
  /\ \E opened \in SUBSET Interfaces :
       /\ trouble + Cardinality(Interfaces \ opened) <= MaxTrouble
       /\ trouble' = trouble + Cardinality(Interfaces \ opened)
       /\ sockets' = opened /\ readers' = opened /\ found' = <<>>
       /\ dial' = IF opened = {} THEN "noInterface" ELSE "wait"
  /\ UNCHANGED <<machineVars, addr, pCtx, link, air>>

(* The loop finds the ctx over.                                            *)
DialGivesUp ==
  /\ dial = "lookup" /\ ~pCtx
  /\ dial' = "failed"
  /\ UNCHANGED <<machineVars, sockets, readers, found, addr, pCtx, link, netVars>>

(* An announcement of the machine's id arrives: the reader sends its       *)
(* address and ends.  (Others it skips.)                                   *)
Hears(i, a) ==
  /\ i \in readers \cap sockets /\ <<i, a>> \in air
  /\ air' = air \ {<<i, a>>}
  /\ found' = Append(found, a) /\ readers' = readers \ {i}
  /\ UNCHANGED <<machineVars, dial, sockets, addr, pCtx, link, trouble>>

ReaderEnds(i) ==
  /\ i \in readers \ sockets
  /\ readers' = readers \ {i}
  /\ UNCHANGED <<machineVars, dial, sockets, found, addr, pCtx, link, netVars>>

(* Mutant of CloseSockets: those still being read are left. *)
CloseSocketsIdle ==
  /\ sockets' = sockets \cap readers
  /\ air' = {m \in air : m[1] \in sockets'}

(* The deferred close, and the AfterFunc's.                                *)
CloseSockets == sockets' = {} /\ air' = {}

TakeAddress ==
  /\ dial = "wait" /\ found # <<>>
  /\ dial' = "connect" /\ addr' = Head(found)
  /\ CloseSockets
  /\ UNCHANGED <<machineVars, readers, found, pCtx, link, trouble>>

WaitCancelled ==
  /\ dial = "wait" /\ ~pCtx
  /\ dial' = "failed"
  /\ CloseSockets
  /\ UNCHANGED <<machineVars, readers, found, addr, pCtx, link, trouble>>

(* Something listens at the address.                                       *)
Answers == addr = Impostor \/ (addr = port /\ listen = "accepting")

(* A try of dialTCPRetrying succeeds.                                      *)
Connects ==
  /\ dial = "connect" /\ pCtx /\ Answers
  /\ dial' = "handshake"
  /\ IF addr = port
       THEN ready' = ready \cup {"holder"} /\ link' = TRUE
       ELSE UNCHANGED <<ready, link>>
  /\ UNCHANGED <<listen, port, acceptor, guest, announcer, mCtx,
                 sockets, readers, found, addr, pCtx, netVars>>

(* Mutant of AddressTimeout: the address has the whole of the dial. *)
AddressTimeoutNever ==
  /\ dial = "connect" /\ ~pCtx
  /\ dial' = "lookup"
  /\ UNCHANGED <<machineVars, sockets, readers, found, addr, pCtx, link, netVars>>

(* announcedAddrTimeout, or the ctx.                                       *)
AddressTimeout ==
  /\ dial = "connect" /\ (~pCtx \/ ~Answers)
  /\ dial' = "lookup"
  /\ UNCHANGED <<machineVars, sockets, readers, found, addr, pCtx, link, netVars>>

(* TLS 1.3: the client is done first, whatever has become of the ctx.      *)
ClientHandshake ==
  /\ dial = "handshake"
  /\ guest = "holder" /\ listen = "handshake"
  /\ dial' = "connected"
  /\ UNCHANGED <<machineVars, sockets, readers, found, addr, pCtx, link, netVars>>

AfterImpostor == "lookup"

(* Accepted by the machine, which was cancelled before it could look.      *)
Stranded == acceptor = "holder" /\ listen # "accepting"

(* Another identity answers, or nobody does before handshakeTimeout.       *)
ClientHandshakeFails ==
  /\ dial = "handshake" /\ (~link \/ Stranded)
  /\ dial' = AfterImpostor
  /\ link' = FALSE
  /\ acceptor' = IF acceptor = "holder" THEN "stranger" ELSE acceptor
  /\ UNCHANGED <<listen, port, ready, guest, announcer, mCtx,
                 sockets, readers, found, addr, pCtx, netVars>>

EndHolderCtx ==
  /\ pCtx /\ pCtx' = FALSE
  /\ UNCHANGED <<machineVars, dial, sockets, readers, found, addr, link, netVars>>

-----------------------------------------------------------------------------
(* The network, and others on it.                                          *)

Lose(i, a) ==
  /\ <<i, a>> \in air /\ air' = air \ {<<i, a>>}
  /\ UNCHANGED <<machineVars, holderVars, link, trouble>>

Lie ==
  /\ trouble < MaxTrouble /\ trouble' = trouble + 1
  /\ \E i \in sockets, a \in Lies : air' = air \cup {<<i, a>>}
  /\ UNCHANGED <<machineVars, holderVars, link>>

Intrude ==
  /\ listen = "accepting" /\ trouble < MaxTrouble
  /\ ready' = ready \cup {"stranger"} /\ trouble' = trouble + 1
  /\ UNCHANGED <<listen, port, acceptor, guest, announcer, mCtx, holderVars, link, air>>

(* An interface goes down under its reader.                                *)
InterfaceFails(i) ==
  /\ i \in sockets /\ trouble < MaxTrouble /\ trouble' = trouble + 1
  /\ sockets' = sockets \ {i} /\ air' = {m \in air : m[1] # i}
  /\ UNCHANGED <<machineVars, dial, readers, found, addr, pCtx, link>>

(* What is left of the connection at the machine is as good as a           *)
(* stranger's.                                                             *)
LinkBreaks ==
  LET Orphan(c) == IF c = "holder" THEN "stranger" ELSE c
  IN  /\ link /\ trouble < MaxTrouble /\ trouble' = trouble + 1
      /\ link' = FALSE
      /\ ready' = {Orphan(c) : c \in ready}
      /\ acceptor' = Orphan(acceptor) /\ guest' = Orphan(guest)
      /\ UNCHANGED <<listen, port, announcer, mCtx, holderVars, air>>

LocalInit ==
  /\ listen = "off" /\ port = 0 /\ ready = {} /\ acceptor = Nobody /\ guest = Nobody
  /\ announcer = "done" /\ mCtx = TRUE
  /\ dial = "lookup" /\ sockets = {} /\ readers = {} /\ found = <<>> /\ addr = Dead /\ pCtx = TRUE
  /\ link = FALSE /\ air = {} /\ trouble = 0

ListenStep ==
  \/ StartListen \/ ListenFails \/ TakeConnection \/ ListenCancelled \/ ServerHandshake \/ ListenReturns
AcceptStep == AcceptFails \/ \E p \in Peers : Accepts(p)
DialStep ==
  \/ OpenSockets \/ DialGivesUp \/ TakeAddress \/ WaitCancelled
  \/ Connects \/ AddressTimeout \/ ClientHandshake \/ ClientHandshakeFails
ReadStep == \E i \in Interfaces : ReaderEnds(i)
Arrival == \E i \in Interfaces, a \in Addresses : Hears(i, a) \/ Lose(i, a)
Fault == Lie \/ Intrude \/ LinkBreaks \/ \E i \in Interfaces : InterfaceFails(i)

LocalNext ==
  \/ ListenStep \/ AcceptStep \/ Announce \/ AnnounceEnds \/ EndMachineCtx
  \/ DialStep \/ ReadStep \/ EndHolderCtx
  \/ Arrival \/ Fault

LocalSpec == LocalInit /\ [][LocalNext]_localVars

(* Goroutines are scheduled, timers and tickers fire, and of the           *)
(* announcements of a port not all are lost.                               *)
LocalFairSpec ==
  /\ LocalSpec
  /\ WF_localVars(ListenStep) /\ WF_localVars(AcceptStep) /\ WF_localVars(AnnounceEnds) /\ WF_localVars(Announce)
  /\ WF_localVars(DialStep) /\ WF_localVars(ReadStep) /\ WF_localVars(Arrival)
  /\ SF_localVars(\E i \in Interfaces : Hears(i, port))

-----------------------------------------------------------------------------
(* Properties. *)

LocalTypeOK ==
  /\ listen \in {"off", "accepting", "handshake", "returning", "givingUp", "served", "failed"}
  /\ port \in 0..MaxListens /\ ready \subseteq Peers
  /\ acceptor \in Peers \cup {"accepting", Nobody} /\ guest \in Peers \cup {Nobody}
  /\ announcer \in {"announcing", "done"}
  /\ dial \in {"lookup", "wait", "connect", "handshake", "connected", "failed", "noInterface"}
  /\ sockets \subseteq Interfaces /\ readers \subseteq Interfaces
  /\ found \in Seq(Addresses) /\ addr \in Addresses
  /\ mCtx \in BOOLEAN /\ pCtx \in BOOLEAN /\ link \in BOOLEAN
  /\ air \subseteq sockets \X Addresses
  /\ trouble \in 0..MaxTrouble

(* announceLocally: once Listen has returned, the port it announced is no  *)
(* longer announced; a key holder would try it for three seconds at a time *)
(* while Listen is already waiting on another.                             *)
AnnouncesOnlyItsPort ==
  listen \in {"off", "served", "failed"} => announcer = "done"

(* Dial's comment: a useless announcement is no reason to stop listening.  *)
(* It ends without a connection only when its ctx has ended, or when there *)
(* is no interface to listen on.                                           *)
LiesDoNotEndTheDial == dial = "failed" => ~pCtx

(* A connection the machine has accepted and lost track of is only left    *)
(* behind by a Listen that was cancelled.                                  *)
StrandedOnlyByCancel == acceptor \in Peers /\ listen # "accepting" => ~mCtx

(* The key holder's connection is in one place at the machine: its queue,  *)
(* on the way from Accept, or in the handshake; and served to nobody else. *)
OneConnection ==
  LET places == {"queue" : c \in ready \cap {"holder"}}
                  \cup {"accept" : c \in {acceptor} \cap {"holder"}}
                  \cup {"guest" : c \in {guest} \cap {"holder"}}
  IN  /\ Cardinality(places) = IF link THEN 1 ELSE 0
      /\ link => dial \in {"handshake", "connected"}

(* One address for each reader at most, so that none blocks.               *)
ReadersNeverBlock == dial = "wait" => Len(found) + Cardinality(readers) <= Cardinality(Interfaces)

(* The types, and what the comments of announceLocally, acceptWithContext  *)
(* and waitForAnnouncement say of what they leave behind.                  *)
LocalInv ==
  /\ LocalTypeOK /\ AnnouncesOnlyItsPort /\ LiesDoNotEndTheDial
  /\ StrandedOnlyByCancel /\ OneConnection /\ ReadersNeverBlock

(* Waiting on sockets nobody reads any more; announcing nothing.           *)
Deaf == dial = "noInterface" \/ (dial = "wait" /\ sockets \cap readers = {} /\ found = <<>>)
Mute == listen = "accepting" /\ announcer = "done"

(* However many lies and intruders: unless its interfaces are gone, the    *)
(* key holder gets through to a machine that waits.                        *)
FindsTheMachine == <>(~mCtx \/ ~pCtx \/ Deaf \/ Mute \/ dial = "connected")

(* When both ctxs have ended, every goroutine ends and every socket and    *)
(* listener is closed.                                                     *)
Quiet ==
  /\ listen \in {"off", "served", "failed"} /\ announcer = "done"
  /\ acceptor # "accepting" /\ ready = {}
  /\ dial \in {"connected", "failed", "noInterface"}
  /\ sockets = {} /\ readers = {}
EverythingStops == ~mCtx /\ ~pCtx ~> []Quiet
=============================================================================
