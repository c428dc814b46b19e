---------------------------- MODULE RelayListen ----------------------------
(***************************************************************************)
(* SyncthingRelay.Listen: one leg of a waiting machine, attempt after      *)
(* attempt.  An attempt runs four goroutines: Listen itself, the pool      *)
(* client (relaypool.go) with the relay it is registered with and the      *)
(* forwarder of that relay's invitations, watchRelayLoss, and the announce *)
(* loop, which keeps a discovery record that tells key holders where to    *)
(* ask.  The relay drops every session of a machine whose control          *)
(* connection to it ends, so the attempt lives until the connection Listen *)
(* returned is closed, by the exchange or by the timer that bounds it.     *)
(***************************************************************************)
EXTENDS Naturals, FiniteSets

CONSTANTS
  Relays,     \* the relays of the pool
  NoRelay,    \* nil
  Closers,    \* who calls Close on the connection Listen returned: the
              \* exchange, deferred, and the timer that bounds it
  MaxFaults   \* bounds relays lost, requests failed, attempts cancelled

ASSUME RelayAssumption ==
  /\ NoRelay \notin Relays
  /\ Closers \subseteq {"deferred", "timer"}
  /\ MaxFaults \in Nat

VARIABLES
  listen,    \* where Listen is, or that its connection is in use
  ctxDone,   \* the ctx of this leg is done
  live,      \* relayCtx is not done
  stopped,   \* the stop channel of the announce loop is closed
  closing,   \* those who called cleanup, and have not returned from it
  closed,    \* those who have
  pool,      \* where the pool client is
  cur,       \* its current relay, which URI() returns
  untried,   \* the relays it has still to try
  leaving,   \* relays that the cancelled clients of earlier attempts have
             \* not disconnected from yet
  inv,       \* the relay whose invitation the forwarder holds
  relayLost, \* watchRelayLoss has reported
  watch,     \* it is running
  ann,       \* where the announce loop is
  annAddr,   \* the address it is posting
  lastAnn,   \* the last one it posted
  session,   \* the relay the invitation taken, then the session, runs over
  record,    \* the discovery record: the server merges announcements
  faults

listenVars == <<listen, ctxDone, live, stopped, closing, closed>>
poolVars == <<pool, cur, untried, leaving>>
annVars == <<ann, annAddr, lastAnn>>
attemptVars == <<listenVars, poolVars, inv, relayLost, watch, annVars, session, record, faults>>

Cleaners == Closers \cup {"listen"}
Registered == pool = "on"
Fault == faults < MaxFaults /\ faults' = faults + 1

-----------------------------------------------------------------------------
(* Listen.                                                                 *)

(* The caller starts an attempt.  cleanup has cancelled the pool client of  *)
(* the last one and has not waited for it: its control connection may last *)
(* into this attempt.  The last watcher is cancelled as well, and reports  *)
(* to nobody.  The new pool client is served in the background.            *)
StartListen ==
  /\ listen = "idle"
  /\ listen' = "joining" /\ ctxDone' = FALSE /\ live' = TRUE /\ stopped' = FALSE
  /\ closing' = {} /\ closed' = {}
  /\ pool' = "fetch" /\ cur' = NoRelay /\ untried' = {}
  /\ leaving' = IF pool \in {"try", "on"} THEN leaving \cup {cur} ELSE leaving
  /\ inv' = NoRelay /\ relayLost' = FALSE /\ watch' = FALSE /\ session' = NoRelay
  /\ ann' = "off" /\ annAddr' = NoRelay /\ lastAnn' = NoRelay
  /\ UNCHANGED <<record, faults>>

(* Mutant of Watches: nothing watches the pool client. *)
WatchesNothing == watch' = FALSE

Watches == watch' = TRUE

(* The client has a relay, though it may not have joined it yet.           *)
SeesRelay ==
  /\ listen = "joining" /\ cur # NoRelay
  /\ listen' = "waiting" /\ ann' = "check" /\ Watches
  /\ UNCHANGED <<ctxDone, live, stopped, closing, closed, poolVars, inv, relayLost,
                 annAddr, lastAnn, session, record, faults>>

(* cleanup on an error return: Listen stops the announce loop, if there is *)
(* one, and waits for it.                                                  *)
GivesUp ==
  /\ listen' = "failing"
  /\ closing' = closing \cup {"listen"} /\ stopped' = (ann # "off")

(* The pool is exhausted, the relay is lost, or the ctx ends: select takes *)
(* any that is ready.                                                      *)
ListenFails ==
  /\ \/ listen \in {"joining", "waiting", "join"} /\ ctxDone
     \/ listen = "joining" /\ cur = NoRelay /\ pool = "failed"
     \/ listen = "waiting" /\ relayLost
  /\ GivesUp /\ session' = NoRelay
  /\ UNCHANGED <<ctxDone, live, closed, poolVars, inv, relayLost, watch, annVars,
                 record, faults>>

(* An invitation may come from a relay that has been left since.           *)
TakeInvitation ==
  /\ listen = "waiting" /\ inv # NoRelay
  /\ listen' = "join" /\ session' = inv /\ inv' = NoRelay
  /\ UNCHANGED <<ctxDone, live, stopped, closing, closed, poolVars, relayLost, watch,
                 annVars, record, faults>>

(* Mutant of Joined: the registration was held for Listen's call only, so  *)
(* a deferred cancelRelay ends it as soon as the session is joined.        *)
JoinedAndReleased ==
  /\ listen' = "handshake" /\ live' = FALSE

Joined ==
  /\ listen' = "handshake" /\ UNCHANGED live

(* The relay knows the session as long as the machine is still registered. *)
Joinable == session = cur /\ Registered

JoinSession ==
  /\ listen = "join" /\ Joinable
  /\ Joined
  /\ UNCHANGED <<ctxDone, stopped, closing, closed, poolVars, inv, relayLost, watch,
                 annVars, session, record, faults>>

JoinFails ==
  /\ listen = "join"
  /\ Joinable => faults < MaxFaults
  /\ faults' = IF Joinable THEN faults + 1 ELSE faults
  /\ GivesUp /\ session' = NoRelay
  /\ UNCHANGED <<ctxDone, live, closed, poolVars, inv, relayLost, watch, annVars, record>>

(* doServerHandshake does not look at the ctx: it ends by itself, at the   *)
(* latest after handshakeTimeout.  Its caller gets the connection.         *)
ServerHandshakeSucceeds ==
  /\ listen = "handshake" /\ session # NoRelay
  /\ listen' = "inUse"
  /\ UNCHANGED <<ctxDone, live, stopped, closing, closed, poolVars, inv, relayLost, watch,
                 annVars, session, record, faults>>

(* A stranger, silence, or a session that is gone: the connection is       *)
(* closed and onClose runs at once.                                        *)
ServerHandshakeFails ==
  /\ listen = "handshake"
  /\ GivesUp /\ session' = NoRelay
  /\ UNCHANGED <<ctxDone, live, closed, poolVars, inv, relayLost, watch, annVars,
                 record, faults>>

(* conn.Close: the session ends and onClose, which is cleanup, closes the  *)
(* stop channel.  Closing a closed channel panics.                         *)
Close(c) ==
  /\ listen = "inUse" /\ c \notin closing \cup closed
  /\ session' = NoRelay
  /\ closing' = closing \cup {c} /\ stopped' = TRUE
  /\ listen' = IF stopped THEN "crashed" ELSE "inUse"
  /\ UNCHANGED <<ctxDone, live, closed, poolVars, inv, relayLost, watch, annVars,
                 record, faults>>

(* Mutant of Cleaned: relayCtx is left to the garbage collector. *)
CleanedWithoutCancel == UNCHANGED live

Cleaned == live' = FALSE

(* cleanup goes on once the loop has ended, which an announcement in       *)
(* flight delays.  The exchange's Close is the last thing of an attempt.   *)
CleanupReturns(c) ==
  /\ c \in closing /\ ann \in {"off", "ended"}
  /\ closing' = closing \ {c} /\ closed' = closed \cup {c}
  /\ Cleaned
  /\ listen' = IF c = "timer" THEN listen ELSE "idle"
  /\ UNCHANGED <<ctxDone, stopped, poolVars, inv, relayLost, watch, annVars,
                 session, record, faults>>

(* Another leg has won, or the agent is told to stop.                      *)
EndCtx ==
  /\ listen # "idle" /\ ~ctxDone /\ Fault
  /\ ctxDone' = TRUE /\ live' = FALSE
  /\ UNCHANGED <<listen, stopped, closing, closed, poolVars, inv, relayLost, watch,
                 annVars, session, record>>

-----------------------------------------------------------------------------
(* The pool client.                                                        *)

(* It reads the list of relays and measures all of them at once; the order *)
(* they are then tried in is left open.                                    *)
FetchPool ==
  /\ pool = "fetch" /\ live
  /\ pool' = "next" /\ untried' = Relays
  /\ UNCHANGED <<listenVars, cur, leaving, inv, relayLost, watch, annVars, session, record, faults>>

FetchFails ==
  /\ pool = "fetch"
  /\ live => faults < MaxFaults
  /\ faults' = IF live THEN faults + 1 ELSE faults
  /\ pool' = "failed"
  /\ UNCHANGED <<listenVars, cur, untried, leaving, inv, relayLost, watch, annVars, session, record>>

TryRelay ==
  /\ pool = "next" /\ live
  /\ \E r \in untried : cur' = r /\ untried' = untried \ {r}
  /\ pool' = "try"
  /\ UNCHANGED <<listenVars, leaving, inv, relayLost, watch, annVars, session, record, faults>>

(* With every relay tried it returns an error, when cancelled none.        *)
PoolEnds ==
  /\ pool = "next"
  /\ live => untried = {}
  /\ pool' = IF live THEN "failed" ELSE "off"
  /\ UNCHANGED <<listenVars, cur, untried, leaving, inv, relayLost, watch, annVars, session,
                 record, faults>>

JoinRelay ==
  /\ pool = "try" /\ live
  /\ pool' = "on"
  /\ UNCHANGED <<listenVars, cur, untried, leaving, inv, relayLost, watch, annVars, session,
                 record, faults>>

(* The relay refuses, disconnects, or the client is cancelled: Serve of    *)
(* that relay returns, its Error() is set, and what ran over it ends.  A   *)
(* relay that still has a connection of an earlier attempt is one that may *)
(* refuse ("already connected").                                           *)
RelayGone ==
  /\ pool \in {"try", "on"}
  /\ live => faults < MaxFaults
  /\ faults' = IF live THEN faults + 1 ELSE faults
  /\ pool' = "left"
  /\ session' = IF listen = "join" THEN session ELSE NoRelay
  /\ UNCHANGED <<listenVars, cur, untried, leaving, inv, relayLost, watch, annVars, record>>

NextRelay ==
  /\ pool = "left"
  /\ pool' = "next" /\ cur' = NoRelay
  /\ UNCHANGED <<listenVars, untried, leaving, inv, relayLost, watch, annVars, session, record, faults>>

(* The relay notices that a cancelled client is gone, and drops every      *)
(* session of the machine, whichever attempt has joined it.                *)
OldLeaves ==
  /\ \E r \in leaving :
       /\ leaving' = leaving \ {r}
       /\ session' = IF session = r /\ listen # "join" THEN NoRelay ELSE session
  /\ UNCHANGED <<listenVars, pool, cur, untried, inv, relayLost, watch, annVars,
                 record, faults>>

(* A key holder asks a relay the record names; forwardInvitations takes    *)
(* the invitation and offers it to Listen, until that relay is left.       *)
Invite ==
  /\ Registered /\ live /\ cur \in record /\ inv = NoRelay
  /\ inv' = cur
  /\ UNCHANGED <<listenVars, poolVars, relayLost, watch, annVars, session, record, faults>>

InvitationDropped ==
  /\ inv # NoRelay
  /\ ~live \/ inv # cur
  /\ inv' = NoRelay
  /\ UNCHANGED <<listenVars, poolVars, relayLost, watch, annVars, session, record, faults>>

(* watchRelayLoss polls the client's Error(), that of the current relay or *)
(* else its own.  The grace without a relay is left out: the URI is nil    *)
(* for an instant only, between two relays.                                *)
ClientError == pool \in {"left", "failed"}

RelayLoss ==
  /\ watch /\ ClientError
  /\ relayLost' = TRUE /\ watch' = FALSE
  /\ UNCHANGED <<listenVars, poolVars, inv, annVars, session, record, faults>>

WatchEnds ==
  /\ watch /\ ~live
  /\ watch' = FALSE
  /\ UNCHANGED <<listenVars, poolVars, inv, relayLost, annVars, session, record, faults>>

-----------------------------------------------------------------------------
(* The announce loop.                                                      *)

(* An address that is new, or due for a refresh, is posted.                *)
Announce ==
  /\ ann = "check" /\ cur # NoRelay
  /\ ann' = "post" /\ annAddr' = cur
  /\ UNCHANGED <<listenVars, poolVars, inv, relayLost, watch, lastAnn, session, record, faults>>

NothingDue ==
  /\ ann = "check" /\ cur \in {NoRelay, lastAnn}
  /\ ann' = "sleep"
  /\ UNCHANGED <<listenVars, poolVars, inv, relayLost, watch, annAddr, lastAnn, session,
                 record, faults>>

Posted ==
  /\ ann = "post" /\ live
  /\ ann' = "sleep" /\ record' = record \cup {annAddr} /\ lastAnn' = annAddr
  /\ UNCHANGED <<listenVars, poolVars, inv, relayLost, watch, annAddr, session, faults>>

(* Only an announcement that succeeded is remembered; the server may have  *)
(* taken one whose answer was lost.                                        *)
PostFails ==
  /\ ann = "post"
  /\ live => faults < MaxFaults
  /\ faults' = IF live THEN faults + 1 ELSE faults
  /\ ann' = "sleep" /\ UNCHANGED lastAnn
  /\ record' \in {record, record \cup {annAddr}}
  /\ UNCHANGED <<listenVars, poolVars, inv, relayLost, watch, annAddr, session>>

Tick ==
  /\ ann = "sleep"
  /\ ann' = "check"
  /\ UNCHANGED <<listenVars, poolVars, inv, relayLost, watch, annAddr, lastAnn, session,
                 record, faults>>

AnnounceEnds ==
  /\ ann = "sleep"
  /\ stopped \/ ~live
  /\ ann' = "ended"
  /\ UNCHANGED <<listenVars, poolVars, inv, relayLost, watch, annAddr, lastAnn, session,
                 record, faults>>

(* The server drops addresses that nobody announces any more, and may lose *)
(* a fresh one.                                                            *)
Expire ==
  /\ \E r \in record :
       /\ r = lastAnn => faults < MaxFaults
       /\ faults' = IF r = lastAnn THEN faults + 1 ELSE faults
       /\ record' = record \ {r}
  /\ UNCHANGED <<listenVars, poolVars, inv, relayLost, watch, annVars, session>>

-----------------------------------------------------------------------------
ListenInit ==
  /\ listen = "idle" /\ ctxDone = FALSE /\ live = FALSE /\ stopped = FALSE
  /\ closing = {} /\ closed = {}
  /\ pool = "off" /\ cur = NoRelay /\ untried = {} /\ leaving = {}
  /\ inv = NoRelay /\ relayLost = FALSE /\ watch = FALSE
  /\ ann = "off" /\ annAddr = NoRelay /\ lastAnn = NoRelay
  /\ session = NoRelay /\ record = {} /\ faults = 0

ListenStep ==
  \/ SeesRelay \/ ListenFails \/ TakeInvitation \/ JoinSession \/ JoinFails
  \/ ServerHandshakeSucceeds \/ ServerHandshakeFails
  \/ \E c \in Cleaners : CleanupReturns(c)

PoolStep ==
  \/ FetchPool \/ FetchFails \/ TryRelay \/ PoolEnds \/ JoinRelay \/ RelayGone
  \/ NextRelay

AnnounceStep == NothingDue \/ Posted \/ PostFails \/ Tick

ListenNext ==
  /\ listen # "crashed"
  /\ \/ StartListen \/ ListenStep \/ PoolStep \/ OldLeaves \/ Invite \/ InvitationDropped \/ EndCtx
     \/ RelayLoss \/ WatchEnds
     \/ Announce \/ AnnounceStep \/ AnnounceEnds \/ Expire
     \/ \E c \in Closers : Close(c)

ListenSpec == ListenInit /\ [][ListenNext]_attemptVars

Running(A) == listen # "crashed" /\ A
DisconnectsByItself == Registered /\ live

(* Goroutines are scheduled and requests have timeouts.  The caller starts *)
(* another attempt (Multi) and ends its exchange (exchangeTimeout).  A     *)
(* loop in which both the ticker and the stop channel are ready takes      *)
(* either, at random, and a refresh falls due again and again.             *)
ListenFairSpec ==
  /\ ListenSpec
  /\ WF_attemptVars(Running(StartListen))
  /\ WF_attemptVars(Running(ListenStep))
  /\ WF_attemptVars(Running(PoolStep /\ ~DisconnectsByItself))
  /\ WF_attemptVars(Running(OldLeaves))
  /\ WF_attemptVars(Running(InvitationDropped))
  /\ WF_attemptVars(Running(AnnounceStep))
  /\ WF_attemptVars(Running(WatchEnds))
  /\ WF_attemptVars(Running(RelayLoss))
  /\ WF_attemptVars(Running("deferred" \in Closers /\ Close("deferred")))
  /\ SF_attemptVars(Running(Announce))
  /\ SF_attemptVars(Running(AnnounceEnds))

-----------------------------------------------------------------------------
(* Properties. *)

ListenSteps == {"idle", "joining", "waiting", "join", "handshake", "inUse",
                "failing", "crashed"}

(* Every variable stays in its type.                                       *)
ListenTypeOK ==
  /\ listen \in ListenSteps
  /\ ctxDone \in BOOLEAN /\ live \in BOOLEAN /\ stopped \in BOOLEAN
  /\ relayLost \in BOOLEAN /\ watch \in BOOLEAN
  /\ closing \subseteq Cleaners /\ closed \subseteq Cleaners
  /\ pool \in {"off", "fetch", "next", "try", "on", "left", "failed"}
  /\ cur \in Relays \cup {NoRelay} /\ inv \in Relays \cup {NoRelay}
  /\ annAddr \in Relays \cup {NoRelay} /\ lastAnn \in Relays \cup {NoRelay}
  /\ session \in Relays \cup {NoRelay}
  /\ untried \subseteq Relays /\ leaving \subseteq Relays /\ record \subseteq Relays
  /\ ann \in {"off", "check", "post", "sleep", "ended"}
  /\ ann = "post" => annAddr \in Relays
  /\ pool \in {"try", "on"} => cur \in Relays
  /\ faults \in 0..MaxFaults

InSession == {"join", "handshake", "inUse"}

(* The machine does not end a session of its own doing: from the           *)
(* invitation until somebody closes the connection it stays registered     *)
(* (relayCtx lives) unless its ctx ends; the relay would drop the session, *)
(* and the handshake fail with EOF.                                        *)
SessionKeepsRegistration ==
  listen \in InSession /\ ~ctxDone /\ closing \cup closed = {} => live

(* Between two attempts nothing of the last one goes on: it is cancelled   *)
(* at the relay, and no announcement names its address any more.           *)
NothingOutlivesAttempt ==
  listen = "idle" => ~live /\ ann \in {"off", "ended"} /\ session = NoRelay

(* A session that is up runs over the relay the machine is registered      *)
(* with, although the invitation may have come from one it has left.       *)
SessionIsLive ==
  listen \in {"handshake", "inUse"} /\ session # NoRelay => Registered /\ session = cur

(* The attempt keeps its relayCtx until its ctx ends or somebody cleans up. *)
AttemptIsLive ==
  listen \in {"joining", "waiting"} \cup InSession =>
    live \/ ctxDone \/ closing \cup closed # {}

(* Whoever cleans up has ended the session first and stopped the loop, and *)
(* is the only one to return while the connection is still in use.         *)
CleaningStops ==
  /\ closing \cup closed # {} =>
       /\ session = NoRelay
       /\ listen \in {"inUse", "failing", "idle", "crashed"}
       /\ ann = "off" \/ stopped
  /\ closed # {} => ~live /\ ann \in {"off", "ended"}
  /\ listen = "failing" => "listen" \in closing
  /\ listen = "joining" => ann = "off"

(* The inductive invariant.                                                *)
ListenInv == ListenTypeOK /\ SessionIsLive /\ AttemptIsLive /\ CleaningStops /\ NothingOutlivesAttempt

(* A machine a key holder can reach: registered, and announced there; or   *)
(* one that somebody has just reached.                                     *)
Reachable ==
  \/ listen = "waiting" /\ Registered /\ cur \in record
  \/ listen \in {"handshake", "inUse"}

(* A waiting machine is reachable again and again, whatever relays,        *)
(* requests and attempts failed (finitely often), as long as the process   *)
(* has not crashed: it never waits on a relay it has lost, nor behind a    *)
(* record that names another.                                              *)
KeepsReachable == []<>(Reachable \/ listen = "crashed")

(* syncthing_relay.go, of the cleanup function: "the caller must call      *)
(* exactly once".                                                          *)
CleanupCalledOnce == Cardinality(closing \cup closed) <= 1
=============================================================================
