----------------------------- MODULE BridgeQueue -----------------------------
(***************************************************************************)
(* The bridge of bot-core (src/bot-core/index.mjs): messages are journaled,*)
(* acknowledged to the peer, handed to a bounded queue and leased to the   *)
(* consumers of the HTTP bridge, which settle them by acknowledging the    *)
(* lease. Admission reserves the room in the queue that the hand-over uses.*)
(*                                                                         *)
(* Every message comes from a peer of its own, so that the work cap is not *)
(* reached. The order of the queue, long polls that wait (they time out and*)
(* poll again) and events, which may be lost, are left out. The consumers  *)
(* are outside src/: they poll, work, and acknowledge what they finished.  *)
(* Renewing a lease is a lease that does not expire.                       *)
(***************************************************************************)
EXTENDS Naturals, FiniteSets

CONSTANTS
  Msgs,           \* the messages the peers have posted
  Openers,        \* those that open a chat
  FileCommands,   \* those the transport answers itself
  Consumers,      \* the pollers of the bridge
  Limit,          \* BRIDGE_DELIVERY_BATCH_CAP
  InboundCap,     \* INBOUND_CAP
  MaxOwed,        \* MAX_OWED and MAX_OWED_BYTES, in messages
  MaxFaults       \* bound: failures of all kinds together

ASSUME ConstantsAssumption ==
  /\ Openers \subseteq Msgs /\ FileCommands \subseteq Msgs
  /\ Limit \in Nat \ {0} /\ InboundCap \in Nat \ {0} /\ MaxOwed \in Nat \ {0}
  /\ MaxFaults \in Nat

VARIABLES
  owed,       \* owedReplies
  seen,       \* seenRequests
  ackDue,     \* pendingOpenerAcks
  admitting,  \* owedInAdmission
  queued,     \* queuedOwed
  handler,    \* the handler of each message's statement
  handing,    \* messages whose hand-over is queued as work
  reserved,   \* bridgeReservations
  inbound,    \* inboundQueue
  lease,      \* the lease of each entry, 0 when it is available
  issued,     \* leases given out for each message so far
  acking,     \* entries that are being acknowledged
  ack,        \* the acknowledgement that runs
  consumer,   \* what each consumer does, and the leases it was given
  pending,    \* the snapshot the store has still to write
  disk,       \* the state file
  acked,      \* messages acknowledged to their peer, or accepted
  finished,   \* how often a consumer finished each message
  faults      \* failures so far

memory  == <<owed, seen, ackDue>>
bridge  == <<inbound, lease, issued, acking>>
vars == <<owed, seen, ackDue, admitting, queued, handler, handing, reserved, inbound, lease,
          issued, acking, ack, consumer, pending, disk, acked, finished, faults>>

None      == <<>>
Resting   == [phase |-> "idle", fresh |-> FALSE, io |-> "none"]
NoAck     == [by |-> None, claims |-> {}, accepted |-> {}, removed |-> {}, io |-> "none"]
NoClaims  == [phase |-> "idle", claims |-> {}]
NoFaults  == [disk |-> 0, fails |-> 0, deaths |-> 0, slow |-> 0, crashes |-> 0]

(* A write of the state file fails, a statement is not submitted, a        *)
(* consumer dies, a lease expires although its consumer works, a crash.    *)
Failure(kind) ==
  /\ faults.disk + faults.fails + faults.deaths + faults.slow + faults.crashes < MaxFaults
  /\ faults' = [faults EXCEPT ![kind] = @ + 1]

-----------------------------------------------------------------------------
(* The state file, as in OwedReplies.                                      *)

Snapshot == [owed |-> owed, seen |-> seen, ackDue |-> ackDue]
Saved    == pending' = Snapshot'

Waiting(h) == h.io = "wait"
Settled(h, result) == IF Waiting(h) THEN [h EXCEPT !.io = result] ELSE h
AnyoneWaits == Waiting(ack) \/ \E m \in Msgs : Waiting(handler[m])
Answered(result) ==
  /\ ack' = Settled(ack, result)
  /\ handler' = [m \in Msgs |-> Settled(handler[m], result)]

Write ==
  /\ pending # None
  /\ disk' = pending
  /\ pending' = None
  /\ UNCHANGED <<memory, bridge, admitting, queued, handler, handing, reserved, ack, consumer,
                 acked, finished, faults>>

DrainEnds ==
  /\ pending = None
  /\ AnyoneWaits
  /\ Answered("ok")
  /\ UNCHANGED <<memory, bridge, admitting, queued, handing, reserved, consumer, pending, disk,
                 acked, finished, faults>>

DrainFails ==
  /\ pending # None
  /\ AnyoneWaits
  /\ Failure("disk")
  /\ Answered("failed")
  /\ UNCHANGED <<memory, bridge, admitting, queued, handing, reserved, consumer, pending, disk,
                 acked, finished>>

-----------------------------------------------------------------------------
(* Admission.                                                              *)

Fits(entries, count) == Cardinality(entries) + reserved + count <= InboundCap
CanAdmit == Fits(inbound, 1) /\ Cardinality(owed) < MaxOwed
Released(r) == IF r = 0 THEN 0 ELSE r - 1

(* What pumpOwed may take up: entries that are owed and idle, as many as   *)
(* there is room for beside the entries of the queue.                      *)
Pumpable(entries, q) ==
  LET idle == owed \ (q \cup admitting) IN
  {S \in SUBSET idle :
     /\ S = {} \/ Fits(entries, Cardinality(S))
     /\ S = idle \/ ~Fits(entries, Cardinality(S) + 1)}

(* reserveAdmission, oweReply and the saved snapshot of a new message.     *)
Admit(m) ==
  /\ m \notin seen
  /\ CanAdmit
  /\ reserved' = reserved + 1
  /\ owed' = owed \cup {m}
  /\ seen' = seen \cup {m}
  /\ UNCHANGED ackDue
  /\ Saved
  /\ handler' = [handler EXCEPT ![m] = [phase |-> "persist", fresh |-> TRUE, io |-> "wait"]]

(* Mutant: the message is forgotten and its reservation is not. *)
ForgetKeepingRoom(m) ==
  /\ handler[m].io = "failed"
  /\ seen' = seen \ {m}
  /\ owed' = owed \ {m}
  /\ UNCHANGED <<ackDue, reserved>>
  /\ Saved
  /\ handler' = [handler EXCEPT ![m] = Resting]

(* The journal could not be written: forget the message, for a retry.      *)
Forget(m) ==
  /\ handler[m].io = "failed"
  /\ seen' = seen \ {m}
  /\ owed' = owed \ {m}
  /\ UNCHANGED ackDue
  /\ Saved
  /\ reserved' = Released(reserved)
  /\ handler' = [handler EXCEPT ![m] = Resting]

HandOver(m) ==
  /\ queued' = queued \cup {m}
  /\ handing' = handing \cup {m}

-----------------------------------------------------------------------------
(* Openers, one at a time.                                                 *)

OpenerArrives(m) ==
  /\ m \in Openers
  /\ \A o \in Openers : handler[o].phase = "idle"
  /\ \/ /\ m \in ackDue
        /\ handler' = [handler EXCEPT ![m].phase = "accept"]
        /\ UNCHANGED <<memory, pending, reserved>>
     \/ m \notin ackDue /\ Admit(m)
  /\ UNCHANGED <<bridge, admitting, queued, handing, ack, consumer, disk, acked, finished, faults>>

OpenerPersisted(m) ==
  /\ m \in Openers
  /\ handler[m].phase = "persist"
  /\ \/ Forget(m)
     \/ /\ handler[m].io = "ok"
        /\ handler' = [handler EXCEPT ![m].phase = "accept", ![m].io = "none"]
        /\ UNCHANGED <<memory, pending, reserved>>
  /\ UNCHANGED <<bridge, admitting, queued, handing, ack, consumer, disk, acked, finished, faults>>

(* Mutant: a retried opener is handed over without a reservation. *)
OpenerAcceptedUnreserved(m) ==
  /\ handler[m].phase = "accept"
  /\ handler' = [handler EXCEPT ![m] = Resting]
  /\ acked' = acked \cup {m}
  /\ ackDue' = ackDue \ {m}
  /\ UNCHANGED <<owed, seen, reserved>>
  /\ IF m \in ackDue THEN Saved ELSE UNCHANGED pending
  /\ IF m \in owed \ queued THEN HandOver(m) ELSE UNCHANGED <<queued, handing>>
  /\ UNCHANGED <<bridge, admitting, ack, consumer, disk, finished, faults>>

(* The accept was submitted: hand over what the pump did not hand over. The *)
(* reservation of a new opener is kept either way.                         *)
OpenerAccepted(m) ==
  /\ handler[m].phase = "accept"
  /\ handler' = [handler EXCEPT ![m] = Resting]
  /\ acked' = acked \cup {m}
  /\ ackDue' = ackDue \ {m}
  /\ UNCHANGED <<owed, seen>>
  /\ IF m \in ackDue THEN Saved ELSE UNCHANGED pending
  /\ IF m \in owed \ queued /\ (handler[m].fresh \/ Fits(inbound, 1))
       THEN /\ HandOver(m)
            /\ reserved' = IF handler[m].fresh THEN reserved ELSE reserved + 1
       ELSE UNCHANGED <<queued, handing, reserved>>
  /\ UNCHANGED <<bridge, admitting, ack, consumer, disk, finished, faults>>

OpenerAcceptFails(m) ==
  /\ handler[m].phase = "accept"
  /\ Failure("fails")
  /\ acked' \in {acked, acked \cup {m}}
  /\ ackDue' = ackDue \cup {m}
  /\ UNCHANGED <<owed, seen>>
  /\ Saved
  /\ handler' = [handler EXCEPT ![m].phase = "marker", ![m].io = "wait"]
  /\ UNCHANGED <<bridge, admitting, queued, handing, reserved, ack, consumer, disk, finished>>

OpenerDeferred(m) ==
  /\ handler[m].phase = "marker"
  /\ handler[m].io \in {"ok", "failed"}
  /\ reserved' = IF handler[m].fresh THEN Released(reserved) ELSE reserved
  /\ handler' = [handler EXCEPT ![m] = Resting]
  /\ UNCHANGED <<memory, bridge, admitting, queued, handing, ack, consumer, pending, disk, acked,
                 finished, faults>>

-----------------------------------------------------------------------------
(* Session messages.                                                       *)

SessionArrives(m) ==
  /\ m \notin Openers \cup acked
  /\ handler[m].phase = "idle"
  /\ \/ /\ m \in seen
        /\ handler' = [handler EXCEPT ![m].phase = "ack"]
        /\ UNCHANGED <<memory, pending, reserved, admitting>>
     \/ Admit(m) /\ admitting' = admitting \cup {m}
  /\ UNCHANGED <<bridge, queued, handing, ack, consumer, disk, acked, finished, faults>>

(* Mutant: the admission of a message that is forgotten is never ended. *)
SessionPersistedStillAdmitting(m) ==
  /\ m \notin Openers
  /\ handler[m].phase = "persist"
  /\ Forget(m)
  /\ UNCHANGED <<bridge, admitting, queued, handing, ack, consumer, disk, acked, finished, faults>>

(* Mutant: the outcome of the write is not looked at. *)
SessionPersistedOrNot(m) ==
  /\ m \notin Openers
  /\ handler[m].phase = "persist"
  /\ handler[m].io \in {"ok", "failed"}
  /\ admitting' = admitting \ {m}
  /\ HandOver(m)
  /\ handler' = [handler EXCEPT ![m].phase = "ack", ![m].io = "none"]
  /\ UNCHANGED <<memory, pending, reserved>>
  /\ UNCHANGED <<bridge, ack, consumer, disk, acked, finished, faults>>

SessionPersisted(m) ==
  /\ m \notin Openers
  /\ handler[m].phase = "persist"
  /\ admitting' = admitting \ {m}
  /\ \/ Forget(m) /\ UNCHANGED <<queued, handing>>
     \/ /\ handler[m].io = "ok"
        /\ HandOver(m)
        /\ handler' = [handler EXCEPT ![m].phase = "ack", ![m].io = "none"]
        /\ UNCHANGED <<memory, pending, reserved>>
  /\ UNCHANGED <<bridge, ack, consumer, disk, acked, finished, faults>>

SessionAcks(m) ==
  /\ handler[m].phase = "ack"
  /\ handler' = [handler EXCEPT ![m] = Resting]
  /\ \/ acked' = acked \cup {m} /\ UNCHANGED faults
     \/ Failure("fails") /\ UNCHANGED acked
  /\ UNCHANGED <<memory, bridge, admitting, queued, handing, reserved, ack, consumer, pending,
                 disk, finished>>

-----------------------------------------------------------------------------
(* The work of a message: a file command is answered on the spot and its   *)
(* entry stays; any other message enters the queue.                        *)
HandedOver(m) ==
  /\ m \in handing
  /\ handing' = handing \ {m}
  /\ reserved' = Released(reserved)
  /\ IF m \in FileCommands
       THEN /\ finished' = [finished EXCEPT ![m] = @ + 1]
            /\ UNCHANGED <<inbound, queued>>
       ELSE /\ IF Cardinality(inbound) < InboundCap
                 THEN inbound' = inbound \cup {m} /\ UNCHANGED queued
                 ELSE queued' = queued \ {m} /\ UNCHANGED inbound
            /\ UNCHANGED finished
  /\ UNCHANGED <<memory, lease, issued, acking, admitting, handler, ack, consumer, pending, disk,
                 acked, faults>>

(* Mutant: leased deliveries are given out again. *)
QueuedAtAll == inbound \ acking

Available == {m \in inbound \ acking : lease[m] = 0}

(* drainInbound for a poll of c.                                           *)
Poll(c) ==
  /\ consumer[c].phase = "idle"
  /\ \E S \in SUBSET Available :
       /\ S # {}
       /\ Cardinality(S) = Limit \/ (S = Available /\ Cardinality(S) < Limit)
       /\ issued' = [m \in Msgs |-> IF m \in S THEN issued[m] + 1 ELSE issued[m]]
       /\ lease' = [m \in Msgs |-> IF m \in S THEN issued'[m] ELSE lease[m]]
       /\ consumer' = [consumer EXCEPT ![c] =
                         [phase |-> "works", claims |-> {<<m, issued'[m]>> : m \in S}]]
  /\ UNCHANGED <<memory, inbound, acking, admitting, queued, handler, handing, reserved, ack,
                 pending, disk, acked, finished, faults>>

(* The consumer has handled its deliveries and acknowledges them.          *)
Finishes(c) ==
  /\ consumer[c].phase = "works"
  /\ consumer' = [consumer EXCEPT ![c].phase = "acks"]
  /\ finished' = [m \in Msgs |->
                    finished[m] + Cardinality({l \in consumer[c].claims : l[1] = m})]
  /\ UNCHANGED <<memory, bridge, admitting, queued, handler, handing, reserved, ack, pending,
                 disk, acked, faults>>

Dies(c) ==
  /\ consumer[c].phase # "idle"
  /\ Failure("deaths")
  /\ consumer' = [consumer EXCEPT ![c] = NoClaims]
  /\ UNCHANGED <<memory, bridge, admitting, queued, handler, handing, reserved, ack, pending,
                 disk, acked, finished>>

Held(m) == \E c \in Consumers : <<m, lease[m]>> \in consumer[c].claims

(* releaseExpiredInbound: every operation of the bridge runs it first. A   *)
(* consumer that works renews its leases, but may be too slow to.          *)
Expires(m) ==
  /\ m \in inbound \ acking
  /\ lease[m] # 0
  /\ \/ ~Held(m) /\ UNCHANGED faults
     \/ Held(m) /\ Failure("slow")
  /\ lease' = [lease EXCEPT ![m] = 0]
  /\ UNCHANGED <<memory, inbound, issued, acking, admitting, queued, handler, handing, reserved,
                 ack, consumer, pending, disk, acked, finished>>

-----------------------------------------------------------------------------
(* acknowledgeInbound, one at a time. A claim belongs to its lease.        *)

(* Mutant: a claim is matched by its delivery alone. *)
DeliveryMatches(claims) == {m \in inbound \ acking : lease[m] # 0 /\ \E l \in claims : l[1] = m}

Matching(claims) == {m \in inbound \ acking : lease[m] # 0 /\ <<m, lease[m]>> \in claims}

AckStarts(c) ==
  LET accepted == Matching(consumer[c].claims) IN
  /\ consumer[c].phase = "acks"
  /\ ack = NoAck
  /\ IF accepted = {}
       THEN /\ consumer' = [consumer EXCEPT ![c] = NoClaims]
            /\ UNCHANGED <<memory, pending, acking, ack>>
       ELSE /\ consumer' = [consumer EXCEPT ![c].phase = "waits"]
            /\ acking' = acking \cup accepted
            /\ owed' = owed \ accepted
            /\ UNCHANGED <<seen, ackDue>>
            /\ Saved
            /\ ack' = [by |-> c, claims |-> consumer[c].claims, accepted |-> accepted,
                       removed |-> accepted \cap owed, io |-> "wait"]
  /\ UNCHANGED <<inbound, lease, issued, admitting, queued, handler, handing, reserved, disk,
                 acked, finished, faults>>

(* Whoever asked is told, if it is still there.                            *)
AckAnswered(phase, claims) ==
  consumer' = IF consumer[ack.by].phase = "waits"
                THEN [consumer EXCEPT ![ack.by] = [phase |-> phase, claims |-> claims]]
                ELSE consumer

(* Without the owed entries on disk the deliveries leave the queue.        *)
AckCommitted ==
  /\ ack.io = "ok"
  /\ ack' = NoAck
  /\ AckAnswered("idle", {})
  /\ inbound' = inbound \ ack.accepted
  /\ acking' = acking \ ack.accepted
  /\ lease' = [m \in Msgs |-> IF m \in ack.accepted THEN 0 ELSE lease[m]]
  /\ \E S \in Pumpable(inbound', queued \ ack.accepted) :
       /\ queued' = (queued \ ack.accepted) \cup S
       /\ handing' = handing \cup S
       /\ reserved' = reserved + Cardinality(S)
  /\ UNCHANGED <<memory, issued, admitting, handler, pending, disk, acked, finished, faults>>

(* The write failed: the entries are restored as far as the journal has    *)
(* room, a lease that ran out meanwhile is released, the consumer retries. *)
AckFails ==
  /\ ack.io = "failed"
  /\ ack' = NoAck
  /\ AckAnswered("acks", ack.claims)
  /\ acking' = acking \ ack.accepted
  /\ \E R \in SUBSET ack.removed :
       /\ Cardinality(owed \cup R) <= MaxOwed
       /\ R = ack.removed \/ Cardinality(owed \cup R) = MaxOwed
       /\ owed' = owed \cup R
  /\ UNCHANGED <<seen, ackDue>>
  /\ Saved
  /\ \/ UNCHANGED <<lease, faults>>
     \/ /\ Failure("slow")
        /\ lease' = [m \in Msgs |-> IF m \in ack.accepted THEN 0 ELSE lease[m]]
  /\ UNCHANGED <<inbound, issued, admitting, queued, handler, handing, reserved, disk, acked,
                 finished>>

-----------------------------------------------------------------------------
(* Mutant: the start restores the journal and does not pump it. *)
RestoredOnly == {{}}

(* What pumpOwed may take up at the start.                                 *)
Pumped ==
  {S \in SUBSET disk.owed :
     Cardinality(S) = InboundCap \/ (S = disk.owed /\ Cardinality(S) < InboundCap)}

(* The process ends, starts from the state file and pumps the journal. The *)
(* consumers go on; their leases are unknown to the new process.           *)
Crash ==
  /\ Failure("crashes")
  /\ owed' = disk.owed /\ seen' = disk.seen /\ ackDue' = disk.ackDue
  /\ admitting' = {}
  /\ handler' = [m \in Msgs |-> Resting]
  /\ inbound' = {} /\ acking' = {}
  /\ lease' = [m \in Msgs |-> 0]
  /\ ack' = NoAck
  /\ consumer' = [c \in Consumers |->
                    IF consumer[c].phase = "waits" THEN [consumer[c] EXCEPT !.phase = "acks"]
                    ELSE consumer[c]]
  /\ \E S \in Pumped : queued' = S /\ handing' = S /\ reserved' = Cardinality(S)
  /\ pending' = None
  /\ UNCHANGED <<issued, disk, acked, finished>>

Init ==
  /\ owed = {} /\ seen = {} /\ ackDue = {} /\ admitting = {} /\ queued = {}
  /\ handler = [m \in Msgs |-> Resting]
  /\ handing = {} /\ reserved = 0
  /\ inbound = {} /\ acking = {}
  /\ lease = [m \in Msgs |-> 0] /\ issued = [m \in Msgs |-> 0]
  /\ ack = NoAck
  /\ consumer = [c \in Consumers |-> NoClaims]
  /\ pending = None /\ disk = Snapshot
  /\ acked = {} /\ finished = [m \in Msgs |-> 0]
  /\ faults = NoFaults

StoreSteps == Write \/ DrainEnds \/ DrainFails
OpenerSteps(m) ==
  OpenerArrives(m) \/ OpenerPersisted(m) \/ OpenerAccepted(m) \/ OpenerAcceptFails(m)
  \/ OpenerDeferred(m)
SessionSteps(m) == SessionArrives(m) \/ SessionPersisted(m) \/ SessionAcks(m)
AckSteps == (\E c \in Consumers : AckStarts(c)) \/ AckCommitted \/ AckFails

Next ==
  \/ StoreSteps \/ AckSteps \/ Crash
  \/ \E m \in Msgs : OpenerSteps(m) \/ SessionSteps(m) \/ HandedOver(m) \/ Expires(m)
  \/ \E c \in Consumers : Poll(c) \/ Finishes(c) \/ Dies(c)

(***************************************************************************)
(* The store drains, handlers and queued work run, an unacknowledged       *)
(* statement is looked at again, a lease nobody renews expires. The        *)
(* consumers are taken to be healthy but for the bounded deaths.           *)
(***************************************************************************)
Fairness ==
  /\ WF_vars(StoreSteps) /\ WF_vars(AckSteps)
  /\ \A m \in Msgs : /\ WF_vars(OpenerSteps(m)) /\ WF_vars(SessionSteps(m))
                     /\ WF_vars(HandedOver(m)) /\ WF_vars(Expires(m))
  /\ \A c \in Consumers : WF_vars(Poll(c)) /\ WF_vars(Finishes(c))

Spec == Init /\ [][Next]_vars /\ Fairness

-----------------------------------------------------------------------------
(***************************************************************************)
(* The reservations hold: no hand-over finds the queue full, although the  *)
(* admission looked at it several awaits ago (index.mjs 1714-1737).        *)
(***************************************************************************)
CapacityHeld == Cardinality(inbound) + reserved <= InboundCap /\ Cardinality(handing) <= reserved

TypeOK ==
  /\ owed \subseteq Msgs /\ seen \subseteq Msgs /\ ackDue \subseteq Openers
  /\ admitting \subseteq owed /\ handing \subseteq queued /\ queued \subseteq Msgs
  /\ handler \in [Msgs -> [phase : {"idle", "persist", "accept", "marker", "ack"},
                           fresh : BOOLEAN, io : {"none", "wait", "ok", "failed"}]]
  /\ reserved \in Nat
  /\ inbound \subseteq queued /\ acking \subseteq inbound
  /\ issued \in [Msgs -> Nat] /\ finished \in [Msgs -> Nat]
  /\ lease \in [Msgs -> Nat] /\ \A m \in Msgs : lease[m] <= issued[m]
  /\ consumer \in [Consumers -> [phase : {"idle", "works", "acks", "waits"},
                                 claims : SUBSET (Msgs \X Nat)]]
  /\ acked \subseteq Msgs
  /\ CapacityHeld

(***************************************************************************)
(* At-least-once: what was acknowledged to a peer is, at every moment a    *)
(* crash could come, either in the state file as owed or finished by a     *)
(* consumer (index.mjs 1405-1409, bridge.md 56-63).                        *)
(***************************************************************************)
NothingTakenIsLost ==
  \A m \in acked : m \in disk.seen /\ (m \in disk.owed \/ finished[m] > 0)

(***************************************************************************)
(* Only a fault makes a consumer see a delivery again: with none, nothing  *)
(* is finished twice, however polls, acknowledgements and pumps interleave. *)
(***************************************************************************)
FinishedOnce == faults = NoFaults => \A m \in Msgs : finished[m] <= 1

(***************************************************************************)
(* A delivery leaves the queue only for the consumer that holds its lease: *)
(* a slow former consumer cannot acknowledge work that was given to another *)
(* (index.mjs 863-866).                                                    *)
(***************************************************************************)
OwnerSettles ==
  [][\A m \in inbound : m \notin inbound' /\ faults'.crashes = faults.crashes
                           => lease[m] # 0 /\ <<m, lease[m]>> \in ack.claims]_vars

(***************************************************************************)
(* A failed handoff is retried rather than lost: in the end a consumer     *)
(* finishes whatever was acknowledged to a peer (bridge.md 56-63).         *)
(***************************************************************************)
TakenIsFinished == \A m \in Msgs : m \in acked ~> finished[m] > 0

(***************************************************************************)
(* A full journal or queue defers a session message, whose resend is the   *)
(* retry: in the end it is acknowledged (protocol.md 66-70).               *)
(***************************************************************************)
DeferredIsTaken == \A m \in Msgs \ Openers : <>(m \in acked)
=============================================================================
