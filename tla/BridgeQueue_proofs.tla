------------------------ MODULE BridgeQueue_proofs -------------------------
(***************************************************************************)
(* What the bridge of bot-core keeps for every value of the constants of   *)
(* BridgeQueue: its reservations, what it took over from a peer, and the   *)
(* leases of its deliveries. HeldInv is inductive; each action has a lemma *)
(* that it is kept. And what the adapter of Hermes keeps, which takes the  *)
(* deliveries (HermesAdapter): AdapterInv.                                 *)
(***************************************************************************)
EXTENDS Consumers, FiniteSetTheorems, SequenceTheorems, TLAPS

SnapshotType == [owed : SUBSET Msgs, seen : SUBSET Msgs, ackDue : SUBSET Openers]
HandlerType  == [phase : {"idle", "persist", "accept", "marker", "ack"},
                 fresh : BOOLEAN, io : {"none", "wait", "ok", "failed"}]
Finished     == {m \in Msgs : finished[m] > 0}

(* The state file is what the memory was when the last save was written.   *)
JournalInv ==
  /\ owed \subseteq Msgs /\ seen \subseteq Msgs /\ ackDue \subseteq Openers
  /\ disk \in SnapshotType
  /\ IsFiniteSet(owed) /\ IsFiniteSet(disk.owed)
  /\ pending = None \/ pending = Snapshot
  /\ pending = None => disk = Snapshot

(* What was seen is owed or was finished. An opener that the pump took up  *)
(* while its journal failed may be owed without being seen.                *)
Honest(o, s, d) == s \subseteq o \cup Finished /\ o \ Openers \subseteq s /\ d \subseteq s

TakenInv ==
  /\ acked \subseteq Msgs
  /\ Honest(owed, seen, ackDue) /\ Honest(disk.owed, disk.seen, disk.ackDue)
  /\ acked \cup ackDue \subseteq seen \cap disk.seen

(* What the handler of a statement holds at each of its steps.             *)
HandlerOf(m) ==
  /\ handler[m].phase = "idle" => ~handler[m].fresh
  /\ handler[m].phase = "persist" => /\ handler[m].fresh /\ m \in seen /\ m \notin acked \cup ackDue
                                     /\ handler[m].io = "ok" => m \in disk.seen
                                     /\ m \in Openers \/ m \in admitting
  /\ handler[m].phase \in {"accept", "marker"} => m \in Openers
  /\ handler[m].phase = "ack" => m \notin Openers
  /\ handler[m].phase \in {"accept", "ack"} => m \in seen /\ m \in disk.seen
  /\ m \in seen \ Openers => m \in disk.seen \/ handler[m].phase = "persist"
HandlersInv == handler \in [Msgs -> HandlerType] /\ \A m \in Msgs : HandlerOf(m)

(* A message is admitted, handed over, queued or acknowledged, one by one. *)
QueueInv ==
  /\ queued \subseteq Msgs
  /\ handing \subseteq queued /\ inbound \subseteq queued /\ handing \cap inbound = {}
  /\ acking \subseteq inbound
  /\ admitting \subseteq owed \ Openers /\ queued \cap admitting = {}
  /\ queued \ Openers \subseteq seen

(* The reservations cover the hand-overs that run and those to come.       *)
Promised == {m \in Msgs : handler[m].fresh /\ handler[m].phase \in {"persist", "accept", "marker"}}
RoomInv ==
  /\ reserved \in Nat
  /\ IsFiniteSet(inbound) /\ IsFiniteSet(handing) /\ IsFiniteSet(Promised)
  /\ Cardinality(inbound) + reserved <= InboundCap
  /\ Cardinality(handing) + Cardinality(Promised) <= reserved

(* The claims of one poll: one lease for each delivery.                    *)
Claims(S) == S \subseteq Msgs \X Nat /\ \A k, l \in S : k[1] = l[1] => k = l
Done(S)   == \A l \in S : l[1] \in Finished
LeaseInv ==
  /\ issued \in [Msgs -> Nat] /\ finished \in [Msgs -> Nat] /\ lease \in [Msgs -> Nat]
  /\ \A m \in Msgs : lease[m] <= issued[m]
  /\ consumer \in [Consumers -> [phase : {"idle", "works", "acks", "waits"}, claims : SUBSET (Msgs \X Nat)]]
  /\ \A c \in Consumers :
       /\ Claims(consumer[c].claims)
       /\ consumer[c].phase \in {"acks", "waits"} => Done(consumer[c].claims)

(* The acknowledgement that runs holds the leases it was given.            *)
AckType == [by : Consumers, claims : SUBSET (Msgs \X Nat), accepted : SUBSET Msgs,
            removed : SUBSET Msgs, io : {"wait", "ok", "failed"}]
AckInv ==
  \/ ack = NoAck
  \/ /\ ack \in AckType
     /\ Claims(ack.claims) /\ Done(ack.claims)
     /\ ack.removed \subseteq ack.accepted /\ ack.accepted \subseteq acking
     /\ IsFiniteSet(ack.removed)
     /\ \A m \in ack.accepted : lease[m] # 0 /\ <<m, lease[m]>> \in ack.claims

HeldInv ==
  JournalInv /\ TakenInv /\ HandlersInv /\ QueueInv /\ RoomInv /\ LeaseInv /\ AckInv

-----------------------------------------------------------------------------
(* What an action leaves alone keeps its part of the invariant.            *)
LEMMA Frames ==
  ASSUME HeldInv
  PROVE  /\ UNCHANGED <<owed, seen, ackDue, disk, pending>> => JournalInv'
         /\ UNCHANGED <<owed, seen, ackDue, disk, acked, finished>> => TakenInv'
         /\ UNCHANGED <<handler, seen, ackDue, disk, acked, admitting>> => HandlersInv'
         /\ UNCHANGED <<queued, handing, inbound, acking, admitting, owed, seen>> => QueueInv'
         /\ UNCHANGED <<reserved, inbound, handing, handler>> => RoomInv'
         /\ UNCHANGED <<issued, finished, lease, consumer>> => LeaseInv'
         /\ UNCHANGED <<ack, acking, lease, finished>> => AckInv'
<1>1. UNCHANGED <<owed, seen, ackDue, disk, pending>> => JournalInv'
  BY DEF HeldInv, JournalInv, Snapshot
<1>2. UNCHANGED <<owed, seen, ackDue, disk, acked, finished>> => TakenInv'
  BY DEF HeldInv, TakenInv, Honest, Finished
<1>3. UNCHANGED <<handler, seen, ackDue, disk, acked, admitting>> => HandlersInv'
  BY DEF HeldInv, HandlersInv, HandlerOf
<1>4. UNCHANGED <<queued, handing, inbound, acking, admitting, owed, seen>> => QueueInv'
  BY DEF HeldInv, QueueInv
<1>5. UNCHANGED <<reserved, inbound, handing, handler>> => RoomInv'
  BY DEF HeldInv, RoomInv, Promised
<1>6. UNCHANGED <<issued, finished, lease, consumer>> => LeaseInv'
  BY DEF HeldInv, LeaseInv, Claims, Done, Finished
<1>7. UNCHANGED <<ack, acking, lease, finished>> => AckInv'
  BY DEF HeldInv, AckInv, Claims, Done, Finished
<1>8. QED
  BY <1>1, <1>2, <1>3, <1>4, <1>5, <1>6, <1>7

(* A save makes memory the newest snapshot.                                *)
LEMMA SaveKeeps ==
  ASSUME Saved, UNCHANGED disk, JournalInv,
         owed' \subseteq Msgs, IsFiniteSet(owed'), seen' \subseteq Msgs, ackDue' \subseteq Openers
  PROVE  JournalInv'
<1>1. pending' = Snapshot' /\ Snapshot' # None
  BY DEF Saved, Snapshot, None
<1>2. QED
  BY <1>1 DEF JournalInv, Snapshot

(* The handler of m takes a step and no other does.                        *)
Handles(m, h) ==
  /\ handler'[m] = h /\ h \in HandlerType
  /\ handler' \in [Msgs -> HandlerType]
  /\ \A k \in Msgs \ {m} : handler'[k] = handler[k]

LEMMA HandlerStep ==
  ASSUME HeldInv, NEW m \in Msgs, NEW h \in HandlerType, handler' = [handler EXCEPT ![m] = h]
  PROVE  Handles(m, h)
BY DEF HeldInv, HandlersInv, Handles

(* The handlers of the others keep what they hold.                         *)
LEMMA OthersHandled ==
  ASSUME HeldInv, NEW m \in Msgs, NEW h, Handles(m, h), disk' = disk, HandlerOf(m)',
         \A k \in Msgs \ {m} : /\ k \in seen' <=> k \in seen
                               /\ k \in acked' \cup ackDue' => k \in acked \cup ackDue
                               /\ k \in admitting => k \in admitting'
  PROVE  HandlersInv'
<1>1. \A k \in Msgs \ {m} : HandlerOf(k)'
  BY DEF HeldInv, HandlersInv, HandlerOf, Handles
<1>2. QED
  BY <1>1 DEF HandlersInv, Handles

IsPromised(h) == h.fresh /\ h.phase \in {"persist", "accept", "marker"}

(* What the step of a handler does to the promised hand-overs.             *)
LEMMA PromisedStep ==
  ASSUME HeldInv, NEW m \in Msgs, NEW h, Handles(m, h)
  PROVE  /\ IsPromised(handler[m]) /\ ~IsPromised(h) =>
              /\ IsFiniteSet(Promised') /\ Cardinality(Promised') = Cardinality(Promised) - 1
              /\ Cardinality(Promised) \in Nat /\ Cardinality(Promised) > 0
         /\ ~IsPromised(handler[m]) /\ IsPromised(h) =>
              IsFiniteSet(Promised') /\ Cardinality(Promised') = Cardinality(Promised) + 1
         /\ (IsPromised(handler[m]) <=> IsPromised(h)) => Promised' = Promised
<1>1. IsFiniteSet(Promised) /\ Cardinality(Promised) \in Nat
  BY FS_CardinalityType DEF HeldInv, RoomInv
<1>2. Promised' = IF IsPromised(h) THEN Promised \cup {m} ELSE Promised \ {m}
  BY DEF Promised, Handles, IsPromised
<1>3. m \in Promised <=> IsPromised(handler[m])
  BY DEF Promised, IsPromised
<1>4. CASE IsPromised(handler[m]) /\ ~IsPromised(h)
  <2>1. IsFiniteSet(Promised \ {m}) /\ Cardinality(Promised \ {m}) = Cardinality(Promised) - 1
    BY <1>1, <1>3, <1>4, FS_RemoveElement
  <2>2. Cardinality(Promised) # 0
    BY <1>1, <1>3, <1>4, FS_EmptySet
  <2>3. QED
    BY <1>1, <1>2, <1>4, <2>1, <2>2
<1>5. CASE ~IsPromised(handler[m]) /\ IsPromised(h)
  <2>1. IsFiniteSet(Promised \cup {m}) /\ Cardinality(Promised \cup {m}) = Cardinality(Promised) + 1
    BY <1>1, <1>3, <1>5, FS_AddElement
  <2>2. QED
    BY <1>2, <1>5, <2>1
<1>6. CASE IsPromised(handler[m]) <=> IsPromised(h)
  BY <1>2, <1>3, <1>6
<1>7. QED
  BY <1>4, <1>5, <1>6

-----------------------------------------------------------------------------
LEMMA WriteKeeps ==
  ASSUME ConstantsAssumption, HeldInv, Write
  PROVE  HeldInv'
<1>1. /\ disk' = Snapshot /\ pending' = None
      /\ disk'.owed = owed /\ disk'.seen = seen /\ disk'.ackDue = ackDue
      /\ UNCHANGED <<owed, seen, ackDue, inbound, lease, issued, acking, admitting, queued, handler>>
      /\ UNCHANGED <<handing, reserved, ack, consumer, acked, finished, faults>>
  BY DEF Write, HeldInv, JournalInv, Snapshot, memory, bridge
<1>2. QueueInv' /\ RoomInv' /\ LeaseInv' /\ AckInv'
  BY <1>1, Frames
<1>3. JournalInv'
  BY <1>1 DEF HeldInv, JournalInv, Snapshot, SnapshotType
<1>4. TakenInv'
  BY <1>1 DEF HeldInv, TakenInv, Honest, Finished
<1>5. HandlersInv'
  BY <1>1 DEF HeldInv, HandlersInv, HandlerOf
<1>6. QED
  BY <1>2, <1>3, <1>4, <1>5 DEF HeldInv

(* A drain that ends tells those who wait for it, and nobody else.         *)
LEMMA DrainKeeps ==
  ASSUME ConstantsAssumption, HeldInv, DrainEnds \/ DrainFails
  PROVE  HeldInv'
<1>1. PICK result \in {"ok", "failed"} :
        /\ Answered(result) /\ (result = "ok" => disk = Snapshot)
        /\ UNCHANGED <<owed, seen, ackDue, inbound, lease, issued, acking, admitting, queued>>
        /\ UNCHANGED <<handing, reserved, consumer, pending, disk, acked, finished>>
  BY DEF DrainEnds, DrainFails, HeldInv, JournalInv, memory, bridge
<1>2. JournalInv' /\ TakenInv' /\ QueueInv' /\ LeaseInv'
  BY <1>1, Frames
<1>3. \A h \in HandlerType :
        LET g == Settled(h, result)
        IN  /\ g \in HandlerType /\ g.phase = h.phase /\ g.fresh = h.fresh
            /\ g.io = h.io \/ g.io = result
  BY DEF HandlerType, Settled, Waiting
<1>4. /\ handler' \in [Msgs -> HandlerType]
      /\ \A m \in Msgs : /\ handler'[m].phase = handler[m].phase /\ handler'[m].fresh = handler[m].fresh
                         /\ handler'[m].io = handler[m].io \/ handler'[m].io = result
  BY <1>1, <1>3 DEF Answered, HeldInv, HandlersInv
<1>5. HandlersInv'
  <2>1. result = "ok" => disk.seen = seen
    BY <1>1 DEF Snapshot
  <2>2. QED
    BY <1>1, <1>4, <2>1 DEF HeldInv, HandlersInv, HandlerOf
<1>6. RoomInv'
  <2>1. Promised' = Promised
    BY <1>4 DEF Promised
  <2>2. QED
    BY <1>1, <2>1 DEF HeldInv, RoomInv
<1>7. AckInv'
  <2>1. CASE ack = NoAck
    BY <1>1, <2>1, Frames DEF Answered, Settled, Waiting, NoAck
  <2>2. CASE ack # NoAck
    <3>1. ack \in AckType
      BY <2>2 DEF HeldInv, AckInv
    <3>2. /\ ack' \in AckType /\ ack'.claims = ack.claims /\ ack'.accepted = ack.accepted
          /\ ack'.removed = ack.removed
      BY <1>1, <3>1 DEF Answered, Settled, Waiting, AckType
    <3>3. QED
      BY <1>1, <2>2, <3>2 DEF HeldInv, AckInv, Claims, Done, Finished
  <2>3. QED
    BY <2>1, <2>2
<1>8. QED
  BY <1>2, <1>5, <1>6, <1>7 DEF HeldInv

-----------------------------------------------------------------------------
(* A new message is admitted: a reservation for a promise.                 *)
LEMMA Admitted ==
  ASSUME ConstantsAssumption, HeldInv, NEW m \in Msgs, handler[m].phase = "idle", Admit(m),
         admitting' = IF m \in Openers THEN admitting ELSE admitting \cup {m},
         UNCHANGED <<inbound, lease, issued, acking, queued, handing, ack, consumer, disk, acked, finished>>
  PROVE  HeldInv'
<1> DEFINE h == [phase |-> "persist", fresh |-> TRUE, io |-> "wait"]
<1>1. /\ m \notin seen /\ Fits(inbound, 1) /\ reserved' = reserved + 1
      /\ owed' = owed \cup {m} /\ seen' = seen \cup {m} /\ ackDue' = ackDue
      /\ Saved /\ handler' = [handler EXCEPT ![m] = h]
  BY DEF Admit, CanAdmit
<1>2. h \in HandlerType
  BY DEF HandlerType
<1>3. Handles(m, h)
  BY <1>1, <1>2, HandlerStep
<1>4. LeaseInv' /\ AckInv'
  BY Frames
<1>5. JournalInv'
  <2>1. IsFiniteSet(owed')
    BY <1>1, FS_AddElement DEF HeldInv, JournalInv
  <2>2. QED
    BY <1>1, <2>1, SaveKeeps DEF HeldInv, JournalInv
<1>6. TakenInv'
  BY <1>1 DEF HeldInv, TakenInv, Honest, Finished
<1>7. HandlersInv'
  <2>1. HandlerOf(m)'
    BY <1>1, <1>3 DEF HandlerOf, Handles, HeldInv, TakenInv
  <2>2. QED
    BY <1>1, <1>3, <2>1, OthersHandled
<1>8. QueueInv'
  BY <1>1 DEF HeldInv, QueueInv
<1>9. RoomInv'
  <2>1. ~IsPromised(handler[m]) /\ IsPromised(h)
    BY DEF IsPromised
  <2>2. IsFiniteSet(Promised') /\ Cardinality(Promised') = Cardinality(Promised) + 1
    BY <1>3, <2>1, PromisedStep
  <2>3. Cardinality(inbound) \in Nat /\ Cardinality(handing) \in Nat /\ Cardinality(Promised) \in Nat
    BY FS_CardinalityType DEF HeldInv, RoomInv
  <2>4. QED
    BY <1>1, <2>2, <2>3 DEF HeldInv, RoomInv, Fits, ConstantsAssumption
<1>10. QED
  BY <1>4, <1>5, <1>6, <1>7, <1>8, <1>9 DEF HeldInv

(* A message whose journal could not be written gives its room back.       *)
LEMMA Forgotten ==
  ASSUME ConstantsAssumption, HeldInv, NEW m \in Msgs, handler[m].phase = "persist", Forget(m),
         admitting' = IF m \in Openers THEN admitting ELSE admitting \ {m},
         UNCHANGED <<inbound, lease, issued, acking, queued, handing, ack, consumer, disk, acked, finished>>
  PROVE  HeldInv'
<1>1. /\ seen' = seen \ {m} /\ owed' = owed \ {m} /\ ackDue' = ackDue /\ Saved
      /\ reserved' = Released(reserved) /\ handler' = [handler EXCEPT ![m] = Resting]
  BY DEF Forget
<1>2. Resting \in HandlerType
  BY DEF HandlerType, Resting
<1>3. Handles(m, Resting)
  BY <1>1, <1>2, HandlerStep
<1>4. m \notin acked \cup ackDue /\ (m \in Openers \/ m \in admitting) /\ handler[m].fresh
  BY DEF HeldInv, HandlersInv, HandlerOf
<1>5. LeaseInv' /\ AckInv'
  BY Frames
<1>6. JournalInv'
  <2>1. IsFiniteSet(owed')
    BY <1>1, FS_RemoveElement DEF HeldInv, JournalInv
  <2>2. QED
    BY <1>1, <2>1, SaveKeeps DEF HeldInv, JournalInv
<1>7. TakenInv'
  BY <1>1, <1>4 DEF HeldInv, TakenInv, Honest, Finished
<1>8. HandlersInv'
  <2>1. HandlerOf(m)'
    BY <1>1, <1>3 DEF HandlerOf, Handles, Resting
  <2>2. QED
    BY <1>1, <1>3, <2>1, OthersHandled
<1>9. QueueInv'
  BY <1>1, <1>4 DEF HeldInv, QueueInv
<1>10. RoomInv'
  <2>1. IsPromised(handler[m]) /\ ~IsPromised(Resting)
    BY <1>4 DEF IsPromised, Resting
  <2>2. /\ IsFiniteSet(Promised') /\ Cardinality(Promised') = Cardinality(Promised) - 1
        /\ Cardinality(Promised) \in Nat /\ Cardinality(Promised) > 0
    BY <1>3, <2>1, PromisedStep
  <2>3. Cardinality(inbound) \in Nat /\ Cardinality(handing) \in Nat
    BY FS_CardinalityType DEF HeldInv, RoomInv
  <2>4. QED
    BY <1>1, <2>2, <2>3 DEF HeldInv, RoomInv, Released, ConstantsAssumption
<1>11. QED
  BY <1>5, <1>6, <1>7, <1>8, <1>9, <1>10 DEF HeldInv
(* The handler of m takes a step that neither makes nor keeps a promise,   *)
(* or that keeps the one it has.                                           *)
LEMMA SamePromises ==
  ASSUME HeldInv, NEW m \in Msgs, NEW h, Handles(m, h), IsPromised(handler[m]) <=> IsPromised(h),
         UNCHANGED <<reserved, inbound, handing>>
  PROVE  RoomInv'
<1>1. Promised' = Promised
  BY PromisedStep
<1>2. QED
  BY <1>1 DEF HeldInv, RoomInv

LEMMA OpenerArrivesKeeps ==
  ASSUME ConstantsAssumption, HeldInv, NEW m \in Msgs, OpenerArrives(m)
  PROVE  HeldInv'
<1>1. /\ m \in Openers /\ handler[m].phase = "idle"
      /\ UNCHANGED <<inbound, lease, issued, acking, admitting, queued, handing, ack, consumer, disk,
                     acked, finished, faults>>
  BY DEF OpenerArrives, bridge
<1>2. CASE Admit(m)
  BY <1>1, <1>2, Admitted
<1>3. CASE ~Admit(m)
  <2> DEFINE h == [handler[m] EXCEPT !.phase = "accept"]
  <2>1. /\ m \in ackDue /\ handler' = [handler EXCEPT ![m].phase = "accept"]
        /\ UNCHANGED <<owed, seen, ackDue, pending, reserved>>
    BY <1>3 DEF OpenerArrives, memory
  <2>2. handler[m] \in HandlerType /\ ~handler[m].fresh
    BY <1>1 DEF HeldInv, HandlersInv, HandlerOf
  <2>3. h \in HandlerType /\ h.phase = "accept" /\ ~h.fresh
    BY <2>2 DEF HandlerType
  <2>4. handler' = [handler EXCEPT ![m] = h]
    BY <2>1
  <2> HIDE DEF h
  <2>5. Handles(m, h)
    BY <2>3, <2>4, HandlerStep
  <2>6. JournalInv' /\ TakenInv' /\ QueueInv' /\ LeaseInv' /\ AckInv'
    BY <1>1, <2>1, Frames
  <2>7. HandlersInv'
    <3>1. m \in seen \cap disk.seen
      BY <2>1 DEF HeldInv, TakenInv
    <3>2. HandlerOf(m)'
      BY <1>1, <2>1, <2>3, <2>5, <3>1 DEF HandlerOf, Handles
    <3>3. QED
      BY <1>1, <2>1, <2>5, <3>2, OthersHandled
  <2>8. RoomInv'
    <3>1. ~IsPromised(handler[m]) /\ ~IsPromised(h)
      BY <2>2, <2>3 DEF IsPromised
    <3>2. QED
      BY <1>1, <2>1, <2>5, <3>1, SamePromises
  <2>9. QED
    BY <2>6, <2>7, <2>8 DEF HeldInv
<1>4. QED
  BY <1>2, <1>3

LEMMA OpenerPersistedKeeps ==
  ASSUME ConstantsAssumption, HeldInv, NEW m \in Msgs, OpenerPersisted(m)
  PROVE  HeldInv'
<1>1. /\ m \in Openers /\ handler[m].phase = "persist"
      /\ UNCHANGED <<inbound, lease, issued, acking, admitting, queued, handing, ack, consumer, disk,
                     acked, finished, faults>>
  BY DEF OpenerPersisted, bridge
<1>2. CASE Forget(m)
  BY <1>1, <1>2, Forgotten
<1>3. CASE ~Forget(m)
  <2> DEFINE h == [handler[m] EXCEPT !.phase = "accept", !.io = "none"]
  <2>1. /\ handler[m].io = "ok" /\ handler' = [handler EXCEPT ![m].phase = "accept", ![m].io = "none"]
        /\ UNCHANGED <<owed, seen, ackDue, pending, reserved>>
    BY <1>3 DEF OpenerPersisted, memory
  <2>2. handler[m] \in HandlerType /\ handler[m].fresh /\ m \in seen /\ m \in disk.seen
    BY <1>1, <2>1 DEF HeldInv, HandlersInv, HandlerOf
  <2>3. h \in HandlerType /\ h.phase = "accept" /\ h.fresh
    BY <2>2 DEF HandlerType
  <2>4. handler' = [handler EXCEPT ![m] = h]
    BY <2>1, <2>2 DEF HeldInv, HandlersInv
  <2> HIDE DEF h
  <2>5. Handles(m, h)
    BY <2>3, <2>4, HandlerStep
  <2>6. JournalInv' /\ TakenInv' /\ QueueInv' /\ LeaseInv' /\ AckInv'
    BY <1>1, <2>1, Frames
  <2>7. HandlersInv'
    <3>1. HandlerOf(m)'
      BY <1>1, <2>1, <2>2, <2>3, <2>5 DEF HandlerOf, Handles
    <3>2. QED
      BY <1>1, <2>1, <2>5, <3>1, OthersHandled
  <2>8. RoomInv'
    <3>1. IsPromised(handler[m]) /\ IsPromised(h)
      BY <1>1, <2>2, <2>3 DEF IsPromised
    <3>2. QED
      BY <1>1, <2>1, <2>5, <3>1, SamePromises
  <2>9. QED
    BY <2>6, <2>7, <2>8 DEF HeldInv
<1>4. QED
  BY <1>2, <1>3

(* The accept of a new opener turns its promise into a hand-over.          *)
LEMMA OpenerAcceptedKeeps ==
  ASSUME ConstantsAssumption, HeldInv, NEW m \in Msgs, OpenerAccepted(m)
  PROVE  HeldInv'
<1>1. /\ handler[m].phase = "accept" /\ handler' = [handler EXCEPT ![m] = Resting]
      /\ acked' = acked \cup {m} /\ ackDue' = ackDue \ {m} /\ UNCHANGED <<owed, seen>>
      /\ UNCHANGED <<inbound, lease, issued, acking, admitting, ack, consumer, disk, finished, faults>>
  BY DEF OpenerAccepted, bridge
<1>2. m \in Openers /\ m \in seen /\ m \in disk.seen
  BY <1>1 DEF HeldInv, HandlersInv, HandlerOf
<1>3. Resting \in HandlerType
  BY DEF HandlerType, Resting
<1>4. Handles(m, Resting)
  BY <1>1, <1>3, HandlerStep
<1>5. LeaseInv' /\ AckInv'
  BY <1>1, Frames
<1>6. JournalInv'
  <2>1. CASE m \in ackDue
    <3>1. Saved
      BY <2>1 DEF OpenerAccepted
    <3>2. QED
      BY <1>1, <3>1, SaveKeeps DEF HeldInv, JournalInv
  <2>2. CASE m \notin ackDue
    <3>1. pending' = pending /\ ackDue' = ackDue
      BY <1>1, <2>2 DEF OpenerAccepted
    <3>2. QED
      BY <1>1, <3>1, Frames
  <2>3. QED
    BY <2>1, <2>2
<1>7. TakenInv'
  BY <1>1, <1>2 DEF HeldInv, TakenInv, Honest, Finished
<1>8. HandlersInv'
  <2>1. HandlerOf(m)'
    BY <1>1, <1>2, <1>4 DEF HandlerOf, Handles, Resting
  <2>2. \A k \in Msgs \ {m} : k \in acked' \cup ackDue' => k \in acked \cup ackDue
    BY <1>1
  <2>3. QED
    BY <1>1, <1>4, <2>1, <2>2, OthersHandled
<1>9. /\ \/ handing' = handing \cup {m} /\ queued' = queued \cup {m} /\ m \in owed \ queued
            /\ \/ handler[m].fresh /\ reserved' = reserved
               \/ ~handler[m].fresh /\ Fits(inbound, 1) /\ reserved' = reserved + 1
         \/ UNCHANGED <<queued, handing, reserved>>
  <2>1. CASE m \in owed \ queued /\ (handler[m].fresh \/ Fits(inbound, 1))
    BY <2>1 DEF OpenerAccepted, HandOver
  <2>2. CASE ~(m \in owed \ queued /\ (handler[m].fresh \/ Fits(inbound, 1)))
    BY <2>2 DEF OpenerAccepted
  <2>3. QED
    BY <2>1, <2>2
<1>10. QueueInv'
  BY <1>1, <1>2, <1>9 DEF HeldInv, QueueInv
<1>11. RoomInv'
  <2>1. Cardinality(inbound) \in Nat /\ Cardinality(handing) \in Nat /\ Cardinality(Promised) \in Nat
    BY FS_CardinalityType DEF HeldInv, RoomInv
  <2>2. ~IsPromised(Resting) /\ (IsPromised(handler[m]) <=> handler[m].fresh)
    BY <1>1, <1>4 DEF IsPromised, Resting
  <2>3. /\ IsFiniteSet(Promised') /\ Cardinality(Promised') \in Nat
        /\ Cardinality(Promised') = IF handler[m].fresh THEN Cardinality(Promised) - 1
                                    ELSE Cardinality(Promised)
    <3>1. CASE handler[m].fresh
      BY <1>4, <2>1, <2>2, <3>1, PromisedStep, FS_CardinalityType
    <3>2. CASE ~handler[m].fresh
      <4>1. Promised' = Promised
        BY <1>4, <2>2, <3>2, PromisedStep
      <4>2. QED
        BY <2>1, <3>2, <4>1 DEF HeldInv, RoomInv
    <3>3. QED
      BY <3>1, <3>2
  <2>4. /\ IsFiniteSet(handing') /\ Cardinality(handing') \in Nat
        /\ handing' = handing \/ Cardinality(handing') = Cardinality(handing) + 1
    <3>1. CASE handing' = handing
      BY <2>1, <3>1 DEF HeldInv, RoomInv
    <3>2. CASE handing' # handing
      <4>1. handing' = handing \cup {m} /\ m \notin handing
        BY <1>9, <3>2
      <4>2. IsFiniteSet(handing \cup {m}) /\ Cardinality(handing \cup {m}) = Cardinality(handing) + 1
        BY <4>1, FS_AddElement DEF HeldInv, RoomInv
      <4>3. QED
        BY <2>1, <4>1, <4>2
    <3>3. QED
      BY <3>1, <3>2
  <2>5. QED
    BY <1>1, <1>9, <2>1, <2>3, <2>4 DEF HeldInv, RoomInv, Fits, ConstantsAssumption
<1>12. QED
  BY <1>5, <1>6, <1>7, <1>8, <1>10, <1>11 DEF HeldInv

LEMMA OpenerAcceptFailsKeeps ==
  ASSUME ConstantsAssumption, HeldInv, NEW m \in Msgs, OpenerAcceptFails(m)
  PROVE  HeldInv'
<1> DEFINE h == [handler[m] EXCEPT !.phase = "marker", !.io = "wait"]
<1>1. /\ handler[m].phase = "accept" /\ acked' \in {acked, acked \cup {m}}
      /\ ackDue' = ackDue \cup {m} /\ UNCHANGED <<owed, seen>> /\ Saved
      /\ handler' = [handler EXCEPT ![m].phase = "marker", ![m].io = "wait"]
      /\ UNCHANGED <<inbound, lease, issued, acking, admitting, queued, handing, reserved, ack,
                     consumer, disk, finished>>
  BY DEF OpenerAcceptFails, bridge
<1>2. m \in Openers /\ m \in seen /\ m \in disk.seen /\ handler[m] \in HandlerType
  BY <1>1 DEF HeldInv, HandlersInv, HandlerOf
<1>3. h \in HandlerType /\ h.phase = "marker" /\ h.fresh = handler[m].fresh
  BY <1>2 DEF HandlerType
<1>4. handler' = [handler EXCEPT ![m] = h]
  BY <1>1, <1>2 DEF HeldInv, HandlersInv
<1> HIDE DEF h
<1>5. Handles(m, h)
  BY <1>3, <1>4, HandlerStep
<1>6. LeaseInv' /\ AckInv' /\ QueueInv'
  BY <1>1, Frames
<1>7. JournalInv'
  BY <1>1, <1>2, SaveKeeps DEF HeldInv, JournalInv
<1>8. TakenInv'
  BY <1>1, <1>2 DEF HeldInv, TakenInv, Honest, Finished
<1>9. HandlersInv'
  <2>1. HandlerOf(m)'
    BY <1>1, <1>2, <1>3, <1>5 DEF HandlerOf, Handles
  <2>2. \A k \in Msgs \ {m} : k \in acked' \cup ackDue' => k \in acked \cup ackDue
    BY <1>1
  <2>3. QED
    BY <1>1, <1>5, <2>1, <2>2, OthersHandled
<1>10. RoomInv'
  <2>1. IsPromised(handler[m]) <=> IsPromised(h)
    BY <1>1, <1>3 DEF IsPromised
  <2>2. QED
    BY <1>1, <1>5, <2>1, SamePromises
<1>11. QED
  BY <1>6, <1>7, <1>8, <1>9, <1>10 DEF HeldInv

LEMMA OpenerDeferredKeeps ==
  ASSUME ConstantsAssumption, HeldInv, NEW m \in Msgs, OpenerDeferred(m)
  PROVE  HeldInv'
<1>1. /\ handler[m].phase = "marker" /\ handler' = [handler EXCEPT ![m] = Resting]
      /\ reserved' = IF handler[m].fresh THEN Released(reserved) ELSE reserved
      /\ UNCHANGED <<owed, seen, ackDue, inbound, lease, issued, acking, admitting, queued, handing>>
      /\ UNCHANGED <<ack, consumer, pending, disk, acked, finished, faults>>
  BY DEF OpenerDeferred, memory, bridge
<1>2. m \in Openers
  BY <1>1 DEF HeldInv, HandlersInv, HandlerOf
<1>3. Resting \in HandlerType
  BY DEF HandlerType, Resting
<1>4. Handles(m, Resting)
  BY <1>1, <1>3, HandlerStep
<1>5. JournalInv' /\ TakenInv' /\ QueueInv' /\ LeaseInv' /\ AckInv'
  BY <1>1, Frames
<1>6. HandlersInv'
  <2>1. HandlerOf(m)'
    BY <1>1, <1>2, <1>4 DEF HandlerOf, Handles, Resting
  <2>2. QED
    BY <1>1, <1>4, <2>1, OthersHandled
<1>7. RoomInv'
  <2>1. ~IsPromised(Resting) /\ (IsPromised(handler[m]) <=> handler[m].fresh)
    BY <1>1, <1>4 DEF IsPromised, Resting
  <2>2. CASE handler[m].fresh
    <3>1. /\ IsFiniteSet(Promised') /\ Cardinality(Promised') = Cardinality(Promised) - 1
          /\ Cardinality(Promised) \in Nat /\ Cardinality(Promised) > 0
      BY <1>4, <2>1, <2>2, PromisedStep
    <3>2. Cardinality(inbound) \in Nat /\ Cardinality(handing) \in Nat
      BY FS_CardinalityType DEF HeldInv, RoomInv
    <3>3. QED
      BY <1>1, <2>2, <3>1, <3>2 DEF HeldInv, RoomInv, Released, ConstantsAssumption
  <2>3. CASE ~handler[m].fresh
    BY <1>1, <1>4, <2>1, <2>3, SamePromises
  <2>4. QED
    BY <2>2, <2>3
<1>8. QED
  BY <1>5, <1>6, <1>7 DEF HeldInv
-----------------------------------------------------------------------------
LEMMA SessionArrivesKeeps ==
  ASSUME ConstantsAssumption, HeldInv, NEW m \in Msgs, SessionArrives(m)
  PROVE  HeldInv'
<1>1. /\ m \notin Openers /\ handler[m].phase = "idle"
      /\ UNCHANGED <<inbound, lease, issued, acking, queued, handing, ack, consumer, disk, acked,
                     finished, faults>>
  BY DEF SessionArrives, bridge
<1>2. CASE Admit(m) /\ admitting' = admitting \cup {m}
  BY <1>1, <1>2, Admitted
<1>3. CASE ~(Admit(m) /\ admitting' = admitting \cup {m})
  <2> DEFINE h == [handler[m] EXCEPT !.phase = "ack"]
  <2>1. /\ m \in seen /\ handler' = [handler EXCEPT ![m].phase = "ack"]
        /\ UNCHANGED <<owed, seen, ackDue, pending, reserved, admitting>>
    BY <1>3 DEF SessionArrives, memory
  <2>2. handler[m] \in HandlerType /\ ~handler[m].fresh /\ m \in disk.seen
    BY <1>1, <2>1 DEF HeldInv, HandlersInv, HandlerOf
  <2>3. h \in HandlerType /\ h.phase = "ack" /\ ~h.fresh
    BY <2>2 DEF HandlerType
  <2>4. handler' = [handler EXCEPT ![m] = h]
    BY <2>1
  <2> HIDE DEF h
  <2>5. Handles(m, h)
    BY <2>3, <2>4, HandlerStep
  <2>6. JournalInv' /\ TakenInv' /\ QueueInv' /\ LeaseInv' /\ AckInv'
    BY <1>1, <2>1, Frames
  <2>7. HandlersInv'
    <3>1. HandlerOf(m)'
      BY <1>1, <2>1, <2>2, <2>3, <2>5 DEF HandlerOf, Handles
    <3>2. QED
      BY <1>1, <2>1, <2>5, <3>1, OthersHandled
  <2>8. RoomInv'
    <3>1. ~IsPromised(handler[m]) /\ ~IsPromised(h)
      BY <2>2, <2>3 DEF IsPromised
    <3>2. QED
      BY <1>1, <2>1, <2>5, <3>1, SamePromises
  <2>9. QED
    BY <2>6, <2>7, <2>8 DEF HeldInv
<1>4. QED
  BY <1>2, <1>3

(* A journaled message is handed over with the room it was promised.       *)
LEMMA SessionPersistedKeeps ==
  ASSUME ConstantsAssumption, HeldInv, NEW m \in Msgs, SessionPersisted(m)
  PROVE  HeldInv'
<1>1. /\ m \notin Openers /\ handler[m].phase = "persist" /\ admitting' = admitting \ {m}
      /\ UNCHANGED <<inbound, lease, issued, acking, ack, consumer, disk, acked, finished, faults>>
  BY DEF SessionPersisted, bridge
<1>2. CASE Forget(m) /\ UNCHANGED <<queued, handing>>
  BY <1>1, <1>2, Forgotten
<1>3. CASE ~(Forget(m) /\ UNCHANGED <<queued, handing>>)
  <2> DEFINE h == [handler[m] EXCEPT !.phase = "ack", !.io = "none"]
  <2>1. /\ handler[m].io = "ok" /\ handler' = [handler EXCEPT ![m].phase = "ack", ![m].io = "none"]
        /\ queued' = queued \cup {m} /\ handing' = handing \cup {m}
        /\ UNCHANGED <<owed, seen, ackDue, pending, reserved>>
    BY <1>3 DEF SessionPersisted, HandOver, memory
  <2>2. /\ handler[m] \in HandlerType /\ handler[m].fresh /\ m \in seen /\ m \in disk.seen
        /\ m \in admitting
    BY <1>1, <2>1 DEF HeldInv, HandlersInv, HandlerOf
  <2>3. h \in HandlerType /\ h.phase = "ack"
    BY <2>2 DEF HandlerType
  <2>4. handler' = [handler EXCEPT ![m] = h]
    BY <2>1, <2>2 DEF HeldInv, HandlersInv
  <2> HIDE DEF h
  <2>5. Handles(m, h)
    BY <2>3, <2>4, HandlerStep
  <2>6. JournalInv' /\ TakenInv' /\ LeaseInv' /\ AckInv'
    BY <1>1, <2>1, Frames
  <2>7. HandlersInv'
    <3>1. HandlerOf(m)'
      BY <1>1, <2>1, <2>2, <2>3, <2>5 DEF HandlerOf, Handles
    <3>2. QED
      BY <1>1, <2>1, <2>5, <3>1, OthersHandled
  <2>8. QueueInv'
    BY <1>1, <2>1, <2>2 DEF HeldInv, QueueInv
  <2>9. RoomInv'
    <3>1. IsPromised(handler[m]) /\ ~IsPromised(h)
      BY <1>1, <2>2, <2>3 DEF IsPromised
    <3>2. /\ IsFiniteSet(Promised') /\ Cardinality(Promised') = Cardinality(Promised) - 1
          /\ Cardinality(Promised) \in Nat /\ Cardinality(Promised) > 0
      BY <2>5, <3>1, PromisedStep
    <3>3. m \notin handing /\ Cardinality(handing) \in Nat
      BY <2>2, FS_CardinalityType DEF HeldInv, QueueInv, RoomInv
    <3>4. IsFiniteSet(handing') /\ Cardinality(handing') = Cardinality(handing) + 1
      BY <2>1, <3>3, FS_AddElement DEF HeldInv, RoomInv
    <3>5. QED
      BY <1>1, <2>1, <3>2, <3>3, <3>4 DEF HeldInv, RoomInv
  <2>10. QED
    BY <2>6, <2>7, <2>8, <2>9 DEF HeldInv
<1>4. QED
  BY <1>2, <1>3

LEMMA SessionAcksKeeps ==
  ASSUME ConstantsAssumption, HeldInv, NEW m \in Msgs, SessionAcks(m)
  PROVE  HeldInv'
<1>1. /\ handler[m].phase = "ack" /\ handler' = [handler EXCEPT ![m] = Resting]
      /\ acked' \in {acked, acked \cup {m}}
      /\ UNCHANGED <<owed, seen, ackDue, inbound, lease, issued, acking, admitting, queued, handing>>
      /\ UNCHANGED <<reserved, ack, consumer, pending, disk, finished>>
  BY DEF SessionAcks, memory, bridge
<1>2. m \notin Openers /\ m \in seen /\ m \in disk.seen
  BY <1>1 DEF HeldInv, HandlersInv, HandlerOf
<1>3. Resting \in HandlerType
  BY DEF HandlerType, Resting
<1>4. Handles(m, Resting)
  BY <1>1, <1>3, HandlerStep
<1>5. JournalInv' /\ QueueInv' /\ LeaseInv' /\ AckInv'
  BY <1>1, Frames
<1>6. TakenInv'
  BY <1>1, <1>2 DEF HeldInv, TakenInv, Honest, Finished
<1>7. HandlersInv'
  <2>1. HandlerOf(m)'
    BY <1>1, <1>2, <1>4 DEF HandlerOf, Handles, Resting
  <2>2. \A k \in Msgs \ {m} : k \in acked' \cup ackDue' => k \in acked \cup ackDue
    BY <1>1
  <2>3. QED
    BY <1>1, <1>4, <2>1, <2>2, OthersHandled
<1>8. RoomInv'
  <2>1. ~IsPromised(handler[m]) /\ ~IsPromised(Resting)
    BY <1>1 DEF IsPromised, Resting
  <2>2. QED
    BY <1>1, <1>4, <2>1, SamePromises
<1>9. QED
  BY <1>5, <1>6, <1>7, <1>8 DEF HeldInv

-----------------------------------------------------------------------------
(* What is finished grows.                                                 *)
LEMMA MoreFinished ==
  ASSUME HeldInv, finished' \in [Msgs -> Nat], \A m \in Msgs : finished'[m] >= finished[m],
         UNCHANGED <<owed, seen, ackDue, disk, acked, ack, acking, lease>>
  PROVE  TakenInv' /\ AckInv' /\ \A S : Done(S) => \A l \in S : l[1] \in Finished'
<1>1. Finished \subseteq Finished'
  BY DEF Finished, HeldInv, LeaseInv
<1>2. TakenInv'
  BY <1>1 DEF HeldInv, TakenInv, Honest
<1>3. AckInv'
  BY <1>1 DEF HeldInv, AckInv, Claims, Done
<1>4. QED
  BY <1>1, <1>2, <1>3 DEF Done

(* The room that was reserved is there: the queue is not full.             *)
LEMMA HandedOverKeeps ==
  ASSUME ConstantsAssumption, HeldInv, NEW m \in Msgs, HandedOver(m)
  PROVE  HeldInv'
<1>1. /\ m \in handing /\ handing' = handing \ {m} /\ reserved' = Released(reserved)
      /\ UNCHANGED <<owed, seen, ackDue, lease, issued, acking, admitting, handler, ack, consumer>>
      /\ UNCHANGED <<pending, disk, acked, faults>>
  BY DEF HandedOver, memory
<1>2. /\ IsFiniteSet(handing') /\ Cardinality(handing') = Cardinality(handing) - 1
      /\ Cardinality(handing) \in Nat /\ Cardinality(handing) # 0
      /\ Cardinality(inbound) \in Nat /\ Cardinality(Promised) \in Nat
  BY <1>1, FS_RemoveElement, FS_CardinalityType, FS_EmptySet DEF HeldInv, RoomInv
<1>3. Cardinality(inbound) < InboundCap /\ reserved \in Nat /\ reserved > 0 /\ reserved' = reserved - 1
  BY <1>1, <1>2 DEF HeldInv, RoomInv, Released, ConstantsAssumption
<1>4. queued' = queued /\ \/ inbound' = inbound \cup {m} /\ finished' = finished
                          \/ inbound' = inbound /\ finished' = [finished EXCEPT ![m] = @ + 1]
  BY <1>3 DEF HandedOver
<1>5. JournalInv' /\ HandlersInv'
  BY <1>1, Frames
<1>6. QueueInv'
  BY <1>1, <1>4 DEF HeldInv, QueueInv
<1>7. finished' \in [Msgs -> Nat] /\ \A k \in Msgs : finished'[k] >= finished[k]
  BY <1>4 DEF HeldInv, LeaseInv
<1>8. TakenInv' /\ AckInv' /\ \A S : Done(S) => \A l \in S : l[1] \in Finished'
  BY <1>1, <1>7, MoreFinished
<1>9. LeaseInv'
  BY <1>1, <1>7, <1>8 DEF HeldInv, LeaseInv, Claims, Done
<1>10. RoomInv'
  <2>1. Promised' = Promised
    BY <1>1 DEF Promised
  <2>2. /\ IsFiniteSet(inbound') /\ Cardinality(inbound') \in Nat
        /\ Cardinality(inbound') <= Cardinality(inbound) + 1
    <3>1. CASE inbound' = inbound
      BY <1>2, <3>1 DEF HeldInv, RoomInv
    <3>2. CASE inbound' = inbound \cup {m}
      <4>1. m \notin inbound
        BY <1>1 DEF HeldInv, QueueInv
      <4>2. IsFiniteSet(inbound \cup {m}) /\ Cardinality(inbound \cup {m}) = Cardinality(inbound) + 1
        BY <4>1, FS_AddElement DEF HeldInv, RoomInv
      <4>3. QED
        BY <1>2, <3>2, <4>2
    <3>3. QED
      BY <1>4, <3>1, <3>2
  <2>3. QED
    BY <1>2, <1>3, <2>1, <2>2 DEF HeldInv, RoomInv, ConstantsAssumption
<1>11. QED
  BY <1>5, <1>6, <1>8, <1>9, <1>10 DEF HeldInv

LEMMA ExpiresKeeps ==
  ASSUME ConstantsAssumption, HeldInv, NEW m \in Msgs, Expires(m)
  PROVE  HeldInv'
<1>1. /\ m \in inbound \ acking /\ lease' = [lease EXCEPT ![m] = 0]
      /\ UNCHANGED <<owed, seen, ackDue, inbound, issued, acking, admitting, queued, handler>>
      /\ UNCHANGED <<handing, reserved, ack, consumer, pending, disk, acked, finished>>
  BY DEF Expires, memory
<1>2. JournalInv' /\ TakenInv' /\ HandlersInv' /\ QueueInv' /\ RoomInv'
  BY <1>1, Frames
<1>3. LeaseInv'
  BY <1>1 DEF HeldInv, LeaseInv, Claims, Done, Finished
<1>4. AckInv'
  BY <1>1 DEF HeldInv, AckInv, Claims, Done, Finished, LeaseInv
<1>5. QED
  BY <1>2, <1>3, <1>4 DEF HeldInv

(* A poll gives each delivery it takes a lease of its own.                 *)
LEMMA PollKeeps ==
  ASSUME ConstantsAssumption, HeldInv, NEW c \in Consumers, Poll(c)
  PROVE  HeldInv'
<1>1. PICK S \in SUBSET Available :
        /\ issued' = [m \in Msgs |-> IF m \in S THEN issued[m] + 1 ELSE issued[m]]
        /\ lease' = [m \in Msgs |-> IF m \in S THEN issued'[m] ELSE lease[m]]
        /\ consumer' = [consumer EXCEPT ![c] =
                          [phase |-> "works", claims |-> {<<m, issued'[m]>> : m \in S}]]
  BY DEF Poll
<1>2. /\ UNCHANGED <<owed, seen, ackDue, inbound, acking, admitting, queued, handler, handing>>
      /\ UNCHANGED <<reserved, ack, pending, disk, acked, finished, faults>>
  BY DEF Poll, memory
<1>3. JournalInv' /\ TakenInv' /\ HandlersInv' /\ QueueInv' /\ RoomInv'
  BY <1>2, Frames
<1>4. S \subseteq Msgs \ acking
  BY DEF Available, HeldInv, QueueInv
<1>5. /\ issued' \in [Msgs -> Nat] /\ lease' \in [Msgs -> Nat]
      /\ \A m \in Msgs : lease'[m] <= issued'[m]
  BY <1>1 DEF HeldInv, LeaseInv
<1> DEFINE given == {<<m, issued'[m]>> : m \in S}
<1>6. Claims(given)
  BY <1>4, <1>5 DEF Claims
<1>7. given \in SUBSET (Msgs \X Nat)
  BY <1>6 DEF Claims
<1> HIDE DEF given
<1>8. LeaseInv'
  <2>1. /\ consumer'[c] = [phase |-> "works", claims |-> given]
        /\ \A d \in Consumers \ {c} : consumer'[d] = consumer[d]
    BY <1>1 DEF given, HeldInv, LeaseInv
  <2>2. consumer' \in [Consumers -> [phase : {"idle", "works", "acks", "waits"}, claims : SUBSET (Msgs \X Nat)]]
    <3>1. [phase |-> "works", claims |-> given]
            \in [phase : {"idle", "works", "acks", "waits"}, claims : SUBSET (Msgs \X Nat)]
      BY <1>7
    <3>2. consumer' = [consumer EXCEPT ![c] = [phase |-> "works", claims |-> given]]
      BY <1>1 DEF given
    <3>3. QED
      BY <3>1, <3>2 DEF HeldInv, LeaseInv
  <2>3. \A d \in Consumers :
          /\ Claims(consumer'[d].claims)
          /\ consumer'[d].phase \in {"acks", "waits"} => Done(consumer'[d].claims)
    BY <1>6, <2>1 DEF HeldInv, LeaseInv
  <2>4. QED
    BY <1>2, <1>5, <2>2, <2>3 DEF HeldInv, LeaseInv, Claims, Done, Finished
<1>9. AckInv'
  <2>1. \A m \in acking : lease'[m] = lease[m]
    BY <1>1, <1>4 DEF HeldInv, QueueInv
  <2>2. CASE ack = NoAck
    BY <1>2, <2>2 DEF AckInv
  <2>3. CASE ack # NoAck
    BY <1>2, <2>1, <2>3 DEF HeldInv, AckInv, Claims, Done, Finished
  <2>4. QED
    BY <2>2, <2>3
<1>10. QED
  BY <1>3, <1>8, <1>9 DEF HeldInv

ConsumerType == [phase : {"idle", "works", "acks", "waits"}, claims : SUBSET (Msgs \X Nat)]

(* One consumer changes what it does, to something it may do.              *)
LEMMA ConsumerStep ==
  ASSUME HeldInv, NEW c \in Consumers, NEW v \in ConsumerType, Claims(v.claims),
         v.phase \in {"acks", "waits"} => Done(v.claims),
         consumer' = [consumer EXCEPT ![c] = v], UNCHANGED <<issued, finished, lease>>
  PROVE  LeaseInv'
<1>1. consumer'[c] = v /\ \A d \in Consumers \ {c} : consumer'[d] = consumer[d]
  BY DEF HeldInv, LeaseInv
<1>2. consumer' \in [Consumers -> ConsumerType]
  BY DEF HeldInv, LeaseInv, ConsumerType
<1>3. \A d \in Consumers :
        /\ Claims(consumer'[d].claims)
        /\ consumer'[d].phase \in {"acks", "waits"} => Done(consumer'[d].claims)
  BY <1>1 DEF HeldInv, LeaseInv
<1>4. QED
  BY <1>2, <1>3 DEF HeldInv, LeaseInv, Claims, Done, Finished, ConsumerType

LEMMA DiesKeeps ==
  ASSUME ConstantsAssumption, HeldInv, NEW c \in Consumers, Dies(c)
  PROVE  HeldInv'
<1>1. /\ consumer' = [consumer EXCEPT ![c] = NoClaims]
      /\ UNCHANGED <<owed, seen, ackDue, inbound, lease, issued, acking, admitting, queued, handler>>
      /\ UNCHANGED <<handing, reserved, ack, pending, disk, acked, finished>>
  BY DEF Dies, memory, bridge
<1>2. JournalInv' /\ TakenInv' /\ HandlersInv' /\ QueueInv' /\ RoomInv' /\ AckInv'
  BY <1>1, Frames
<1>3. NoClaims \in ConsumerType /\ Claims(NoClaims.claims) /\ NoClaims.phase = "idle"
  BY DEF NoClaims, ConsumerType, Claims
<1>4. LeaseInv'
  BY <1>1, <1>3, ConsumerStep
<1>5. QED
  BY <1>2, <1>4 DEF HeldInv

(* A consumer that is done finished each of its deliveries once.           *)
LEMMA FinishesKeeps ==
  ASSUME ConstantsAssumption, HeldInv, NEW c \in Consumers, Finishes(c)
  PROVE  HeldInv'
<1> DEFINE mine(m) == {l \in consumer[c].claims : l[1] = m}
<1>1. /\ consumer[c].phase = "works" /\ consumer' = [consumer EXCEPT ![c].phase = "acks"]
      /\ finished' = [m \in Msgs |-> finished[m] + Cardinality(mine(m))]
      /\ UNCHANGED <<owed, seen, ackDue, inbound, lease, issued, acking, admitting, queued, handler>>
      /\ UNCHANGED <<handing, reserved, ack, pending, disk, acked, faults>>
  BY DEF Finishes, memory, bridge
<1>2. Claims(consumer[c].claims)
  BY DEF HeldInv, LeaseInv
<1>3. \A m \in Msgs : Cardinality(mine(m)) \in Nat /\ \A l \in mine(m) : Cardinality(mine(m)) = 1
  <2>1. TAKE m \in Msgs
  <2>2. CASE mine(m) = {}
    BY <2>2, FS_EmptySet
  <2>3. CASE mine(m) # {}
    <3>1. PICK l \in mine(m) : TRUE
      BY <2>3
    <3>2. mine(m) = {l}
      BY <1>2, <3>1 DEF Claims
    <3>3. Cardinality(mine(m)) = 1
      BY <3>2, FS_Singleton
    <3> HIDE DEF mine
    <3>4. QED
      BY <3>3
  <2>4. QED
    BY <2>2, <2>3
<1>4. /\ finished' \in [Msgs -> Nat] /\ \A m \in Msgs : finished'[m] >= finished[m]
      /\ \A m \in Msgs : \A l \in mine(m) : finished'[m] > 0
  <2> HIDE DEF mine
  <2>1. finished \in [Msgs -> Nat]
    BY DEF HeldInv, LeaseInv
  <2>2. \A m \in Msgs : finished'[m] = finished[m] + Cardinality(mine(m))
    BY <1>1
  <2>3. QED
    BY <1>1, <1>3, <2>1, <2>2
<1>5. \A l \in consumer[c].claims : l[1] \in Finished'
  <2>1. \A l \in consumer[c].claims : l[1] \in Msgs /\ l \in mine(l[1])
    BY <1>2 DEF Claims
  <2>2. QED
    BY <1>4, <2>1 DEF Finished
<1> HIDE DEF mine
<1>6. JournalInv' /\ HandlersInv' /\ QueueInv' /\ RoomInv'
  BY <1>1, Frames
<1>7. TakenInv' /\ AckInv' /\ \A S : Done(S) => \A l \in S : l[1] \in Finished'
  BY <1>1, <1>4, MoreFinished
<1>8. LeaseInv'
  <2>1. /\ consumer'[c].claims = consumer[c].claims
        /\ \A d \in Consumers \ {c} : consumer'[d] = consumer[d]
        /\ consumer' \in [Consumers -> ConsumerType]
    BY <1>1 DEF HeldInv, LeaseInv, ConsumerType
  <2>2. \A d \in Consumers :
          /\ Claims(consumer'[d].claims)
          /\ consumer'[d].phase \in {"acks", "waits"} =>
               \A l \in consumer'[d].claims : l[1] \in Finished'
    BY <1>5, <1>7, <2>1 DEF HeldInv, LeaseInv
  <2>3. QED
    BY <1>1, <1>4, <2>1, <2>2 DEF HeldInv, LeaseInv, Claims, Done, ConsumerType
<1>9. QED
  BY <1>6, <1>7, <1>8 DEF HeldInv

-----------------------------------------------------------------------------
(* An acknowledgement that starts takes the leases that are still current. *)
LEMMA AckStartsKeeps ==
  ASSUME ConstantsAssumption, HeldInv, NEW c \in Consumers, AckStarts(c)
  PROVE  HeldInv'
<1> DEFINE theirs == consumer[c].claims
           accepted == Matching(theirs)
<1>1. /\ consumer[c].phase = "acks" /\ ack = NoAck
      /\ UNCHANGED <<inbound, lease, issued, admitting, queued, handler, handing, reserved, disk>>
      /\ UNCHANGED <<acked, finished, faults>>
  BY DEF AckStarts
<1>2. consumer[c] \in ConsumerType /\ Claims(theirs) /\ Done(theirs)
  BY <1>1 DEF HeldInv, LeaseInv, ConsumerType
<1>3. CASE accepted = {}
  <2>1. consumer' = [consumer EXCEPT ![c] = NoClaims] /\ UNCHANGED <<owed, seen, ackDue, pending, acking, ack>>
    BY <1>3 DEF AckStarts, memory
  <2>2. JournalInv' /\ TakenInv' /\ HandlersInv' /\ QueueInv' /\ RoomInv' /\ AckInv'
    BY <1>1, <2>1, Frames
  <2>3. NoClaims \in ConsumerType /\ Claims(NoClaims.claims) /\ NoClaims.phase = "idle"
    BY DEF NoClaims, ConsumerType, Claims
  <2>4. LeaseInv'
    BY <1>1, <2>1, <2>3, ConsumerStep
  <2>5. QED
    BY <2>2, <2>4 DEF HeldInv
<1>4. CASE accepted # {}
  <2> DEFINE v == [consumer[c] EXCEPT !.phase = "waits"]
  <2>1. /\ consumer' = [consumer EXCEPT ![c].phase = "waits"]
        /\ acking' = acking \cup accepted /\ owed' = owed \ accepted
        /\ UNCHANGED <<seen, ackDue>> /\ Saved
        /\ ack' = [by |-> c, claims |-> theirs, accepted |-> accepted,
                   removed |-> accepted \cap owed, io |-> "wait"]
    BY <1>4 DEF AckStarts
  <2>2. /\ accepted \subseteq inbound \ acking /\ accepted \subseteq Msgs
        /\ \A m \in accepted : lease[m] # 0 /\ <<m, lease[m]>> \in theirs
    BY DEF Matching, HeldInv, QueueInv
  <2>3. accepted \subseteq Finished
    BY <1>2, <2>2 DEF Done
  <2> HIDE DEF accepted
  <2>4. HandlersInv' /\ RoomInv'
    BY <1>1, <2>1, Frames
  <2>5. JournalInv'
    <3>1. IsFiniteSet(owed')
      BY <2>1, FS_Difference DEF HeldInv, JournalInv
    <3>2. QED
      BY <1>1, <2>1, <3>1, SaveKeeps DEF HeldInv, JournalInv
  <2>6. TakenInv'
    BY <1>1, <2>1, <2>3 DEF HeldInv, TakenInv, Honest, Finished
  <2>7. QueueInv'
    BY <1>1, <2>1, <2>2 DEF HeldInv, QueueInv
  <2>8. LeaseInv'
    <3>1. v \in ConsumerType /\ v.claims = theirs
      BY <1>2 DEF ConsumerType
    <3>2. consumer' = [consumer EXCEPT ![c] = v]
      BY <2>1
    <3> HIDE DEF v, theirs
    <3>3. QED
      BY <1>1, <1>2, <3>1, <3>2, ConsumerStep
  <2>9. AckInv'
    <3>1. IsFiniteSet(accepted \cap owed)
      BY FS_Intersection DEF HeldInv, JournalInv
    <3>2. theirs \in SUBSET (Msgs \X Nat)
      BY <1>2 DEF Claims
    <3> HIDE DEF theirs
    <3>3. ack' \in AckType
      BY <2>1, <2>2, <3>2 DEF AckType
    <3>4. QED
      BY <1>1, <1>2, <2>1, <2>2, <3>1, <3>3 DEF AckInv, Claims, Done, Finished
  <2>10. QED
    BY <2>4, <2>5, <2>6, <2>7, <2>8, <2>9 DEF HeldInv
<1>5. QED
  BY <1>3, <1>4

(* What the consumer that asked is told is something it may hold.          *)
LEMMA AnsweredKeeps ==
  ASSUME HeldInv, ack # NoAck, UNCHANGED <<issued, finished>>,
         lease' \in [Msgs -> Nat], \A m \in Msgs : lease'[m] <= issued[m],
         NEW phase \in {"idle", "works", "acks", "waits"}, NEW S, S = {} \/ S = ack.claims,
         AckAnswered(phase, S)
  PROVE  LeaseInv'
<1>1. ack.by \in Consumers /\ Claims(ack.claims) /\ Done(ack.claims)
  BY DEF HeldInv, AckInv, AckType
<1>2. Claims(S) /\ Done(S)
  BY <1>1 DEF Claims, Done
<1>3. \/ consumer' = consumer
      \/ consumer' = [consumer EXCEPT ![ack.by] = [phase |-> phase, claims |-> S]]
  BY DEF AckAnswered
<1>4. [phase |-> phase, claims |-> S] \in ConsumerType
  BY <1>2 DEF ConsumerType, Claims
<1>5. consumer' \in [Consumers -> ConsumerType]
  BY <1>3, <1>4 DEF HeldInv, LeaseInv, ConsumerType
<1>6. \A d \in Consumers :
        consumer'[d] = consumer[d] \/ consumer'[d] = [phase |-> phase, claims |-> S]
  BY <1>1, <1>3 DEF HeldInv, LeaseInv
<1>7. \A d \in Consumers :
        /\ Claims(consumer'[d].claims)
        /\ consumer'[d].phase \in {"acks", "waits"} => Done(consumer'[d].claims)
  BY <1>2, <1>6 DEF HeldInv, LeaseInv
<1>8. QED
  BY <1>5, <1>7 DEF HeldInv, LeaseInv, ConsumerType, Claims, Done, Finished

(* What leaves the queue makes room, and the pump fills no more than that. *)
LEMMA AckCommittedKeeps ==
  ASSUME ConstantsAssumption, HeldInv, AckCommitted
  PROVE  HeldInv'
<1>1. /\ ack.io = "ok" /\ ack' = NoAck /\ AckAnswered("idle", {})
      /\ inbound' = inbound \ ack.accepted /\ acking' = acking \ ack.accepted
      /\ lease' = [m \in Msgs |-> IF m \in ack.accepted THEN 0 ELSE lease[m]]
      /\ UNCHANGED <<owed, seen, ackDue, issued, admitting, handler, pending, disk, acked>>
      /\ UNCHANGED <<finished, faults>>
  BY DEF AckCommitted, memory
<1>2. ack # NoAck /\ ack.accepted \subseteq acking
  BY <1>1 DEF HeldInv, AckInv, NoAck
<1>3. PICK S \in Pumpable(inbound', queued \ ack.accepted) :
        /\ queued' = (queued \ ack.accepted) \cup S /\ handing' = handing \cup S
        /\ reserved' = reserved + Cardinality(S)
  BY DEF AckCommitted
<1>4. S \subseteq owed \ ((queued \ ack.accepted) \cup admitting) /\ (S = {} \/ Fits(inbound', Cardinality(S)))
  BY <1>3 DEF Pumpable
<1>5. JournalInv' /\ TakenInv' /\ HandlersInv'
  BY <1>1, Frames
<1>6. QueueInv'
  <2>1. handing \cap ack.accepted = {}
    BY <1>2 DEF HeldInv, QueueInv
  <2>2. QED
    BY <1>1, <1>2, <1>3, <1>4, <2>1 DEF HeldInv, QueueInv, JournalInv, TakenInv, Honest
<1>7. LeaseInv'
  <2>1. lease' \in [Msgs -> Nat] /\ \A m \in Msgs : lease'[m] <= issued[m]
    BY <1>1 DEF HeldInv, LeaseInv
  <2>2. QED
    BY <1>1, <1>2, <2>1, AnsweredKeeps
<1>8. AckInv'
  BY <1>1 DEF AckInv
<1>9. RoomInv'
  <2>1. /\ IsFiniteSet(S) /\ Cardinality(S) \in Nat
    BY <1>4, FS_Subset, FS_CardinalityType DEF HeldInv, JournalInv
  <2>2. /\ IsFiniteSet(inbound') /\ Cardinality(inbound') \in Nat
        /\ Cardinality(inbound') <= Cardinality(inbound) /\ Cardinality(inbound) \in Nat
    BY <1>1, FS_Subset, FS_CardinalityType DEF HeldInv, RoomInv
  <2>3. /\ IsFiniteSet(handing') /\ Cardinality(handing') \in Nat /\ Cardinality(handing) \in Nat
        /\ Cardinality(handing') <= Cardinality(handing) + Cardinality(S)
    <3>1. S \cap handing = {}
      BY <1>2, <1>4 DEF HeldInv, QueueInv
    <3>2. IsFiniteSet(handing)
      BY DEF HeldInv, RoomInv
    <3>3. IsFiniteSet(handing \cup S)
      BY <2>1, <3>2, FS_Union
    <3>4. Cardinality(handing \cup S) = Cardinality(handing) + Cardinality(S) - Cardinality(handing \cap S)
      BY <2>1, <3>2, FS_Union
    <3>5. Cardinality(handing \cap S) = 0
      BY <3>1, FS_EmptySet
    <3>6. QED
      BY <1>3, <2>1, <3>2, <3>3, <3>4, <3>5, FS_CardinalityType
  <2>4. Promised' = Promised /\ Cardinality(Promised) \in Nat
    BY <1>1, FS_CardinalityType DEF Promised, HeldInv, RoomInv
  <2>5. S = {} => Cardinality(S) = 0
    BY FS_EmptySet
  <2>6. S # {} => Cardinality(inbound') + reserved + Cardinality(S) <= InboundCap
    BY <1>4 DEF Fits
  <2>7. QED
    BY <1>3, <2>1, <2>2, <2>3, <2>4, <2>5, <2>6 DEF HeldInv, RoomInv, ConstantsAssumption
<1>10. QED
  BY <1>5, <1>6, <1>7, <1>8, <1>9 DEF HeldInv

(* A failed write gives the entries back that the journal has room for.    *)
LEMMA AckFailsKeeps ==
  ASSUME ConstantsAssumption, HeldInv, AckFails
  PROVE  HeldInv'
<1>1. /\ ack.io = "failed" /\ ack' = NoAck /\ AckAnswered("acks", ack.claims)
      /\ acking' = acking \ ack.accepted /\ UNCHANGED <<seen, ackDue>> /\ Saved
      /\ \/ lease' = lease
         \/ lease' = [m \in Msgs |-> IF m \in ack.accepted THEN 0 ELSE lease[m]]
      /\ UNCHANGED <<inbound, issued, admitting, queued, handler, handing, reserved, disk>>
      /\ UNCHANGED <<acked, finished>>
  BY DEF AckFails
<1>2. /\ ack # NoAck /\ ack.accepted \subseteq acking /\ ack.removed \subseteq ack.accepted
      /\ IsFiniteSet(ack.removed)
  BY <1>1 DEF HeldInv, AckInv, NoAck
<1>3. PICK R \in SUBSET ack.removed : owed' = owed \cup R
  BY DEF AckFails
<1>4. R \subseteq queued /\ IsFiniteSet(R)
  BY <1>2, <1>3, FS_Subset DEF HeldInv, QueueInv
<1>5. HandlersInv' /\ RoomInv'
  BY <1>1, Frames
<1>6. JournalInv'
  <2>1. IsFiniteSet(owed')
    BY <1>3, <1>4, FS_Union DEF HeldInv, JournalInv
  <2>2. QED
    BY <1>1, <1>3, <1>4, <2>1, SaveKeeps DEF HeldInv, JournalInv, QueueInv
<1>7. TakenInv'
  BY <1>1, <1>3, <1>4 DEF HeldInv, TakenInv, Honest, Finished, QueueInv
<1>8. QueueInv'
  BY <1>1, <1>3 DEF HeldInv, QueueInv
<1>9. LeaseInv'
  <2>1. lease' \in [Msgs -> Nat] /\ \A m \in Msgs : lease'[m] <= issued[m]
    BY <1>1 DEF HeldInv, LeaseInv
  <2>2. QED
    BY <1>1, <1>2, <2>1, AnsweredKeeps
<1>10. AckInv'
  BY <1>1 DEF AckInv
<1>11. QED
  BY <1>5, <1>6, <1>7, <1>8, <1>9, <1>10 DEF HeldInv

(* After a crash the journal is what the state file has, and the pump      *)
(* takes up no more than the queue has room for.                           *)
LEMMA CrashKeeps ==
  ASSUME ConstantsAssumption, HeldInv, Crash
  PROVE  HeldInv'
<1>1. /\ owed' = disk.owed /\ seen' = disk.seen /\ ackDue' = disk.ackDue /\ admitting' = {}
      /\ handler' = [m \in Msgs |-> Resting] /\ inbound' = {} /\ acking' = {}
      /\ lease' = [m \in Msgs |-> 0] /\ ack' = NoAck /\ pending' = None
      /\ UNCHANGED <<issued, disk, acked, finished>>
  BY DEF Crash
<1>2. PICK S \in Pumped : queued' = S /\ handing' = S /\ reserved' = Cardinality(S)
  BY DEF Crash
<1>3. S \subseteq disk.owed /\ IsFiniteSet(S) /\ Cardinality(S) \in Nat /\ Cardinality(S) <= InboundCap
  <2>1. S \subseteq disk.owed /\ IsFiniteSet(disk.owed)
    BY <1>2 DEF Pumped, HeldInv, JournalInv
  <2>2. IsFiniteSet(S) /\ Cardinality(S) \in Nat
    BY <2>1, FS_Subset, FS_CardinalityType
  <2>3. QED
    BY <1>2, <2>1, <2>2 DEF Pumped, ConstantsAssumption
<1>4. disk \in SnapshotType /\ disk = [owed |-> disk.owed, seen |-> disk.seen, ackDue |-> disk.ackDue]
  BY DEF HeldInv, JournalInv, SnapshotType
<1>5. JournalInv'
  BY <1>1, <1>4 DEF HeldInv, JournalInv, Snapshot, SnapshotType
<1>6. TakenInv'
  BY <1>1 DEF HeldInv, TakenInv, Honest, Finished
<1>7. HandlersInv'
  <2>1. Resting \in HandlerType
    BY DEF HandlerType, Resting
  <2>2. handler' \in [Msgs -> HandlerType] /\ \A m \in Msgs : handler'[m] = Resting
    BY <1>1, <2>1
  <2>3. \A m \in Msgs : HandlerOf(m)'
    BY <1>1, <2>2 DEF HandlerOf, Resting
  <2>4. QED
    BY <2>2, <2>3 DEF HandlersInv
<1>8. QueueInv'
  BY <1>1, <1>2, <1>3, <1>4 DEF HeldInv, QueueInv, TakenInv, Honest, SnapshotType
<1>9. RoomInv'
  <2>1. Promised' = {}
    BY <1>1 DEF Promised, Resting
  <2>2. IsFiniteSet({}) /\ Cardinality({}) = 0
    BY FS_EmptySet
  <2>3. QED
    BY <1>1, <1>2, <1>3, <2>1, <2>2 DEF RoomInv, ConstantsAssumption
<1>10. LeaseInv'
  <2>1. consumer' = [c \in Consumers |->
                       IF consumer[c].phase = "waits" THEN [consumer[c] EXCEPT !.phase = "acks"]
                       ELSE consumer[c]]
    BY DEF Crash
  <2>2. \A c \in Consumers : /\ consumer[c] \in ConsumerType /\ Claims(consumer[c].claims)
                             /\ consumer[c].phase \in {"acks", "waits"} => Done(consumer[c].claims)
    BY DEF HeldInv, LeaseInv, ConsumerType
  <2>3. \A c \in Consumers :
          /\ consumer'[c] \in ConsumerType /\ consumer'[c].claims = consumer[c].claims
          /\ consumer'[c].phase \in {"acks", "waits"} => consumer[c].phase \in {"acks", "waits"}
    BY <2>1, <2>2 DEF ConsumerType
  <2>4. consumer' \in [Consumers -> ConsumerType]
    BY <2>1, <2>3
  <2>5. \A c \in Consumers :
          /\ Claims(consumer'[c].claims)
          /\ consumer'[c].phase \in {"acks", "waits"} => Done(consumer'[c].claims)
    BY <2>2, <2>3
  <2>6. lease' \in [Msgs -> Nat] /\ \A m \in Msgs : lease'[m] <= issued[m]
    BY <1>1 DEF HeldInv, LeaseInv
  <2>7. QED
    BY <1>1, <2>4, <2>5, <2>6 DEF HeldInv, LeaseInv, ConsumerType, Claims, Done, Finished
<1>11. AckInv'
  BY <1>1 DEF AckInv
<1>12. QED
  BY <1>5, <1>6, <1>7, <1>8, <1>9, <1>10, <1>11 DEF HeldInv

LEMMA HeldAtFirst ==
  ASSUME ConstantsAssumption, Init
  PROVE  HeldInv
<1>1. IsFiniteSet({}) /\ Cardinality({}) = 0
  BY FS_EmptySet
<1>2. JournalInv
  BY <1>1 DEF Init, JournalInv, Snapshot, SnapshotType
<1>3. TakenInv /\ QueueInv
  BY <1>2 DEF Init, TakenInv, QueueInv, Honest, Snapshot
<1>4. HandlersInv
  BY DEF Init, HandlersInv, HandlerOf, HandlerType, Resting
<1>5. RoomInv
  <2>1. Promised = {}
    BY DEF Init, Promised, Resting
  <2>2. QED
    BY <1>1, <2>1 DEF Init, RoomInv, ConstantsAssumption
<1>6. LeaseInv
  BY DEF Init, LeaseInv, NoClaims, Claims, Done
<1>7. AckInv
  BY DEF Init, AckInv
<1>8. QED
  BY <1>2, <1>3, <1>4, <1>5, <1>6, <1>7 DEF HeldInv

LEMMA HeldStep ==
  ASSUME ConstantsAssumption, HeldInv, [Next]_vars
  PROVE  HeldInv'
<1>1. CASE UNCHANGED vars
  <2>1. /\ UNCHANGED <<owed, seen, ackDue, admitting, queued, handler, handing, reserved, inbound>>
        /\ UNCHANGED <<lease, issued, acking, ack, consumer, pending, disk, acked, finished>>
    BY <1>1 DEF vars
  <2>2. QED
    BY <2>1, Frames DEF HeldInv
<1>2. CASE StoreSteps
  BY <1>2, WriteKeeps, DrainKeeps DEF StoreSteps
<1>3. CASE AckSteps
  BY <1>3, AckStartsKeeps, AckCommittedKeeps, AckFailsKeeps DEF AckSteps
<1>4. CASE Crash
  BY <1>4, CrashKeeps
<1>5. ASSUME NEW m \in Msgs, OpenerSteps(m)
      PROVE  HeldInv'
  BY <1>5, OpenerArrivesKeeps, OpenerPersistedKeeps, OpenerAcceptedKeeps, OpenerAcceptFailsKeeps,
     OpenerDeferredKeeps DEF OpenerSteps
<1>6. ASSUME NEW m \in Msgs, SessionSteps(m)
      PROVE  HeldInv'
  BY <1>6, SessionArrivesKeeps, SessionPersistedKeeps, SessionAcksKeeps DEF SessionSteps
<1>7. ASSUME NEW m \in Msgs, HandedOver(m) \/ Expires(m)
      PROVE  HeldInv'
  BY <1>7, HandedOverKeeps, ExpiresKeeps
<1>8. ASSUME NEW c \in Consumers, Poll(c) \/ Finishes(c) \/ Dies(c)
      PROVE  HeldInv'
  BY <1>8, PollKeeps, FinishesKeeps, DiesKeeps
<1>9. QED
  BY <1>1, <1>2, <1>3, <1>4, <1>5, <1>6, <1>7, <1>8 DEF Next

LEMMA QueueKeepsItsState == Spec => []HeldInv
<1>1. Init => HeldInv
  BY HeldAtFirst, ConstantsAssumption
<1>2. HeldInv /\ [Next]_vars => HeldInv'
  BY HeldStep, ConstantsAssumption
<1>3. QED
  BY <1>1, <1>2, PTL DEF Spec

LEMMA HeldHasRoom ==
  ASSUME ConstantsAssumption, HeldInv
  PROVE  CapacityHeld
<1>1. Cardinality(handing) \in Nat /\ Cardinality(Promised) \in Nat
  BY FS_CardinalityType DEF HeldInv, RoomInv
<1>2. QED
  BY <1>1 DEF HeldInv, RoomInv, CapacityHeld, ConstantsAssumption

(***************************************************************************)
(* A reservation is room: a message that is handed over finds the queue    *)
(* not full, although the admission counted it several awaits ago          *)
(* (index.mjs 1714-1737).                                                  *)
(***************************************************************************)
THEOREM ReservationsHold == Spec => []CapacityHeld
<1>1. HeldInv => CapacityHeld
  BY HeldHasRoom, ConstantsAssumption
<1>2. QED
  BY <1>1, QueueKeepsItsState, PTL

(***************************************************************************)
(* At-least-once, for any number of messages, consumers and failures: what *)
(* was acknowledged to a peer is in the state file as owed, or a consumer  *)
(* finished it (index.mjs 1405-1409, bridge.md 56-63).                     *)
(***************************************************************************)
THEOREM NothingBridgedIsLost == Spec => []NothingTakenIsLost
<1>1. HeldInv => NothingTakenIsLost
  BY DEF HeldInv, TakenInv, Honest, Finished, NothingTakenIsLost
<1>2. QED
  BY <1>1, QueueKeepsItsState, PTL

(***************************************************************************)
(* The sets of index.mjs 1700-1760 stay within one another: what is handed *)
(* over, leased or acknowledged is in the queue, what is admitted is owed, *)
(* and no lease is newer than the last one issued.                         *)
(***************************************************************************)
THEOREM QueueTypeCorrect == Spec => []TypeOK
<1>1. HeldInv => TypeOK
  BY ConstantsAssumption, HeldHasRoom DEF HeldInv, JournalInv, TakenInv, HandlersInv, HandlerType, QueueInv,
     RoomInv, LeaseInv, TypeOK
<1>2. QED
  BY <1>1, QueueKeepsItsState, PTL

-----------------------------------------------------------------------------
FaultsType == [disk : Nat, fails : Nat, deaths : Nat, slow : Nat, crashes : Nat]
FaultsInv  == faults \in FaultsType

LEMMA FaultsAreCounted == Spec => []FaultsInv
<1>1. Init => FaultsInv
  BY DEF FaultsInv, Init, NoFaults, FaultsType
<1>2. FaultsInv /\ [Next]_vars => FaultsInv'
  <2>1. SUFFICES ASSUME faults \in FaultsType, [Next]_vars
                 PROVE  faults' \in FaultsType
    BY DEF FaultsInv
  <2>2. faults' = faults \/ \E kind \in {"disk", "fails", "deaths", "slow", "crashes"} : Failure(kind)
    BY <2>1 DEF Next, StoreSteps, Write, DrainEnds, DrainFails, AckSteps, AckStarts, AckCommitted,
       AckFails, Crash, OpenerSteps, OpenerArrives, OpenerPersisted, OpenerAccepted, OpenerAcceptFails,
       OpenerDeferred, SessionSteps, SessionArrives, SessionPersisted, SessionAcks, HandedOver, Expires,
       Poll, Finishes, Dies, vars
  <2>3. QED
    BY <2>1, <2>2 DEF Failure, FaultsType
<1>3. QED
  BY <1>1, <1>2, PTL DEF Spec

(***************************************************************************)
(* A delivery leaves the queue only for the consumer that holds its lease: *)
(* while an acknowledgement waits for the disk, no expiry and no poll can  *)
(* give its deliveries to another (index.mjs 863-866).                     *)
(***************************************************************************)
THEOREM OnlyTheOwnerSettles == Spec => OwnerSettles
<1>1. HeldInv /\ FaultsInv /\ [Next]_vars =>
        [\A m \in inbound : m \notin inbound' /\ faults'.crashes = faults.crashes
                              => lease[m] # 0 /\ <<m, lease[m]>> \in ack.claims]_vars
  <2>1. SUFFICES ASSUME HeldInv, FaultsInv, Next, NEW m \in inbound, m \notin inbound',
                        faults'.crashes = faults.crashes
                 PROVE  lease[m] # 0 /\ <<m, lease[m]>> \in ack.claims
    OBVIOUS
  <2>2. ~Crash
    <3>1. faults \in FaultsType
      BY <2>1 DEF FaultsInv
    <3>2. Crash => faults'.crashes = faults.crashes + 1
      BY <3>1 DEF Crash, Failure, FaultsType
    <3>3. QED
      BY <2>1, <3>1, <3>2 DEF FaultsType
  <2>3. CASE AckCommitted
    <3>1. m \in ack.accepted
      BY <2>1, <2>3 DEF AckCommitted
    <3>2. ack # NoAck
      BY <3>1 DEF NoAck
    <3>3. QED
      BY <2>1, <3>1, <3>2 DEF HeldInv, AckInv
  <2>4. ASSUME NEW k \in Msgs, HandedOver(k)
        PROVE  FALSE
    BY <2>1, <2>4 DEF HandedOver
  <2>5. CASE StoreSteps \/ AckFails \/ \E c \in Consumers : AckStarts(c) \/ Poll(c) \/ Finishes(c) \/ Dies(c)
    BY <2>1, <2>5 DEF StoreSteps, Write, DrainEnds, DrainFails, AckFails, AckStarts, Poll, Finishes, Dies, bridge
  <2>6. CASE \E k \in Msgs : OpenerSteps(k) \/ SessionSteps(k) \/ Expires(k)
    BY <2>1, <2>6 DEF OpenerSteps, OpenerArrives, OpenerPersisted, OpenerAccepted, OpenerAcceptFails,
       OpenerDeferred, SessionSteps, SessionArrives, SessionPersisted, SessionAcks, Expires, bridge
  <2>7. QED
    BY <2>1, <2>2, <2>3, <2>4, <2>5, <2>6 DEF Next, AckSteps
<1>2. QED
  BY <1>1, QueueKeepsItsState, FaultsAreCounted, PTL DEF Spec, OwnerSettles

-----------------------------------------------------------------------------
(* The adapter of Hermes. A reply takes the claim that its chat has at     *)
(* that moment; it is the delivery's own because a chat never has two jobs *)
(* at a time: one that runs is not scheduled, one that is scheduled waits  *)
(* once in the ready list, and a worker takes it off both.                 *)

Leased  == Deliveries \X Nat
JobType == [d : Deliveries, lease : Nat, at : {"fetch", "turn", "file", "unstage", "clean", "renew", "ack"},
            gen : Nat, tries : Nat, ok : BOOLEAN, out : SUBSET {"text", "file"}, before : Leased \cup {Nil}]

AtHermes == {"turn", "file", "unstage"}

QueuesOk(qs) ==
  /\ qs \in [Chats -> Seq(Leased)]
  /\ \A c \in Chats : \A n \in 1 .. Len(qs[c]) : ChatOf[qs[c][n][1]] = c

ReadyOk(list, set) ==
  /\ list \in Seq(Chats)
  /\ \A m, n \in 1 .. Len(list) : list[m] = list[n] => m = n
  /\ \A n \in 1 .. Len(list) : list[n] \in set

JobsOk(js, busy, cs) ==
  /\ js \subseteq JobType
  /\ busy = {ChatOf[j.d] : j \in js}
  /\ \A i, j \in js : ChatOf[i.d] = ChatOf[j.d] => i = j
  /\ \A j \in js : j.at \in AtHermes => cs[ChatOf[j.d]] = <<j.d, j.lease>>

AdapterInv ==
  /\ leases \in Nat
  /\ session \in [gen : Nat, open : BOOLEAN]
  /\ loop \in [at : {"poll", "submit", "retry", "off"}, rest : Seq(Leased)]
  /\ claims \in [Chats -> Leased \cup {Nil}]
  /\ QueuesOk(queues)
  /\ ReadyOk(ready, scheduled)
  /\ JobsOk(jobs, running, claims)
  /\ scheduled \cap running = {}
  /\ RepliesAreTheirOwn

-----------------------------------------------------------------------------
LEMMA ReadyAppended ==
  ASSUME NEW list, NEW set, ReadyOk(list, set), NEW c \in Chats, c \notin set
  PROVE  ReadyOk(Append(list, c), set \cup {c})
  <1>1. list \in Seq(Chats) BY DEF ReadyOk
  <1>2. /\ Append(list, c) \in Seq(Chats) /\ Len(Append(list, c)) = Len(list) + 1
        /\ \A n \in 1 .. Len(list) : Append(list, c)[n] = list[n]
        /\ Append(list, c)[Len(list) + 1] = c
        BY <1>1
  <1>3. \A n \in 1 .. Len(list) : list[n] \in set /\ list[n] # c BY DEF ReadyOk
  <1>4. \A n \in 1 .. Len(list) + 1 : n \in 1 .. Len(list) \/ n = Len(list) + 1 BY <1>1
  <1>5. \A m, n \in 1 .. Len(list) : list[m] = list[n] => m = n BY DEF ReadyOk
  <1> QED BY <1>2, <1>3, <1>4, <1>5 DEF ReadyOk

LEMMA ReadyTaken ==
  ASSUME NEW list, NEW set, ReadyOk(list, set), list # <<>>
  PROVE  Head(list) \in Chats /\ Head(list) \in set /\ ReadyOk(Tail(list), set \ {Head(list)})
  <1>1. list \in Seq(Chats) BY DEF ReadyOk
  <1>2. /\ Len(list) \in Nat /\ 1 \in 1 .. Len(list) /\ Head(list) = list[1]
        /\ Tail(list) \in Seq(Chats) /\ Len(Tail(list)) = Len(list) - 1
        /\ \A n \in 1 .. Len(Tail(list)) : Tail(list)[n] = list[n + 1] /\ n + 1 \in 1 .. Len(list) /\ n + 1 # 1
        BY <1>1
  <1>3. \A m, n \in 1 .. Len(list) : list[m] = list[n] => m = n BY DEF ReadyOk
  <1>4. \A n \in 1 .. Len(list) : list[n] \in set BY DEF ReadyOk
  <1>5. list[1] \in Chats BY <1>1, <1>2
  <1>6. \A n \in 1 .. Len(Tail(list)) : Tail(list)[n] \in set \ {Head(list)} BY <1>2, <1>3, <1>4
  <1>7. ASSUME NEW m \in 1 .. Len(Tail(list)), NEW n \in 1 .. Len(Tail(list)), Tail(list)[m] = Tail(list)[n]
        PROVE  m = n
    <2>1. m + 1 = n + 1 BY <1>2, <1>3, <1>7
    <2> QED BY <2>1
  <1> QED BY <1>2, <1>4, <1>5, <1>6, <1>7 DEF ReadyOk

LEMMA JobsMove ==
  ASSUME NEW js, NEW busy, NEW cs, NEW cs2, JobsOk(js, busy, cs), NEW j \in js, NEW n \in JobType, n.d = j.d,
         \A c \in Chats \ {ChatOf[j.d]} : cs2[c] = cs[c],
         n.at \in AtHermes => cs2[ChatOf[n.d]] = <<n.d, n.lease>>
  PROVE  JobsOk((js \ {j}) \cup {n}, busy, cs2)
  <1> DEFINE new == (js \ {j}) \cup {n}
  <1>1. js \subseteq JobType /\ busy = {ChatOf[i.d] : i \in js} /\ \A i, k \in js : ChatOf[i.d] = ChatOf[k.d] => i = k
        BY DEF JobsOk
  <1>2. \A i \in js : ChatOf[i.d] \in Chats BY <1>1, DeliveryAssumption DEF JobType
  <1>3. new \subseteq JobType BY <1>1
  <1>4. busy = {ChatOf[i.d] : i \in new} BY <1>1
  <1>5. \A i, k \in new : ChatOf[i.d] = ChatOf[k.d] => i = k BY <1>1
  <1>6. ASSUME NEW i \in new, i.at \in AtHermes PROVE cs2[ChatOf[i.d]] = <<i.d, i.lease>>
    <2>1. CASE i = n BY <2>1, <1>6
    <2>2. CASE i # n
      <3>1. i \in js /\ i # j BY <2>2
      <3>2. ChatOf[i.d] # ChatOf[j.d] BY <3>1, <1>1
      <3>3. cs[ChatOf[i.d]] = <<i.d, i.lease>> BY <3>1, <1>6 DEF JobsOk
      <3> QED BY <3>1, <3>2, <3>3, <1>2
    <2> QED BY <2>1, <2>2
  <1> QED BY <1>3, <1>4, <1>5, <1>6 DEF JobsOk

LEMMA JobsEnd ==
  ASSUME NEW js, NEW busy, NEW cs, JobsOk(js, busy, cs), NEW j \in js
  PROVE  JobsOk(js \ {j}, busy \ {ChatOf[j.d]}, cs)
  BY DEF JobsOk

LEMMA JobsStart ==
  ASSUME NEW js, NEW busy, NEW cs, JobsOk(js, busy, cs), NEW n \in JobType, n.at = "fetch", ChatOf[n.d] \notin busy
  PROVE  JobsOk(js \cup {n}, busy \cup {ChatOf[n.d]}, cs)
  <1>1. n.at \notin AtHermes BY DEF AtHermes
  <1> QED BY <1>1 DEF JobsOk

(* What a delivery's end leaves.                                           *)
LEMMA DoneKeeps ==
  ASSUME AdapterInv, NEW j \in jobs, Adapter!Done(j)
  PROVE  /\ JobsOk(jobs', running', claims) /\ ReadyOk(ready', scheduled')
         /\ scheduled' \cap running' = {} /\ queues' = queues
  <1> DEFINE c == ChatOf[j.d]
  <1>1. jobs' = jobs \ {j} /\ running' = running \ {c} /\ queues' = queues
        BY DEF Adapter!Done
  <1>2. JobsOk(jobs, running, claims) /\ ReadyOk(ready, scheduled) /\ scheduled \cap running = {} BY DEF AdapterInv
  <1>3. JobsOk(jobs', running', claims) BY <1>1, <1>2, JobsEnd
  <1>4. c \in Chats BY <1>2, DeliveryAssumption DEF JobsOk, JobType
  <1>5. \/ scheduled' = scheduled \cup {c} /\ ready' = Append(ready, c) /\ c \notin scheduled /\ c \notin running \ {c}
        \/ scheduled' = scheduled /\ ready' = ready
        BY DEF Adapter!Done, Adapter!Schedules, Adapter!Schedulable, Adapter!BusyAfter
  <1>6. ReadyOk(ready', scheduled')
    <2>1. CASE scheduled' = scheduled \cup {c} /\ ready' = Append(ready, c) /\ c \notin scheduled
      <3> HIDE DEF c
      <3>1. ReadyOk(Append(ready, c), scheduled \cup {c}) BY <1>2, <1>4, <2>1, ReadyAppended
      <3> QED BY <3>1, <2>1
    <2>2. CASE scheduled' = scheduled /\ ready' = ready BY <2>2, <1>2
    <2> QED BY <1>5, <2>1, <2>2
  <1>7. scheduled' \cap running' = {} BY <1>1, <1>2, <1>5
  <1> QED BY <1>1, <1>3, <1>6, <1>7

(* A job goes on to its next step, and nothing else of the pool changes.   *)
LEMMA BecomesKeeps ==
  ASSUME AdapterInv, NEW j \in jobs, NEW n \in JobType, n.d = j.d, n.lease = j.lease,
         n.at \in AtHermes => j.at \in AtHermes,
         Adapter!Becomes(j, n)
  PROVE  JobsOk(jobs', running, claims)
  <1>1. JobsOk(jobs, running, claims) BY DEF AdapterInv
  <1>2. jobs' = (jobs \ {j}) \cup {n} BY DEF Adapter!Becomes
  <1>3. n.at \in AtHermes => claims[ChatOf[n.d]] = <<n.d, n.lease>> BY <1>1 DEF JobsOk
  <1> QED BY <1>1, <1>2, <1>3, JobsMove

-----------------------------------------------------------------------------
LEMMA AdapterInit == Adapter!Init => AdapterInv
  <1> SUFFICES ASSUME Adapter!Init PROVE AdapterInv OBVIOUS
  <1>1. loop = [at |-> "poll", rest |-> <<>>] /\ <<>> \in Seq(Leased) BY DEF Adapter!Init
  <1>2. loop \in [at : {"poll", "submit", "retry", "off"}, rest : Seq(Leased)] BY <1>1
  <1>3. QueuesOk(queues)
    <2>1. queues = [c \in Chats |-> <<>>] BY DEF Adapter!Init
    <2>2. queues \in [Chats -> Seq(Leased)] BY <2>1
    <2>3. \A c \in Chats : Len(queues[c]) = 0 BY <2>1
    <2> QED BY <2>2, <2>3 DEF QueuesOk
  <1>4. ReadyOk(ready, scheduled)
    <2>1. ready = <<>> BY DEF Adapter!Init
    <2>2. ready \in Seq(Chats) /\ Len(ready) = 0 BY <2>1
    <2> QED BY <2>2 DEF ReadyOk
  <1>5. JobsOk(jobs, running, claims) BY DEF Adapter!Init, JobsOk
  <1> QED BY <1>2, <1>3, <1>4, <1>5
          DEF Adapter!Init, AdapterInv, RepliesAreTheirOwn, Adapter!RepliesAreTheirOwn

(* What does not concern the pool, the jobs or the replies.                *)
LEMMA ElsewhereKeeps ==
  ASSUME AdapterInv, UNCHANGED <<queues, ready, scheduled, running, jobs, claims, replies>>,
         leases' \in Nat, session' \in [gen : Nat, open : BOOLEAN],
         loop' \in [at : {"poll", "submit", "retry", "off"}, rest : Seq(Leased)]
  PROVE  AdapterInv'
  BY DEF AdapterInv, QueuesOk, ReadyOk, JobsOk, RepliesAreTheirOwn, Adapter!RepliesAreTheirOwn

LEMMA PollsKeeps == AdapterInv /\ Adapter!Polls => AdapterInv'
  <1> SUFFICES ASSUME AdapterInv, Adapter!Polls PROVE AdapterInv' OBVIOUS
  <1>1. leases \in Nat /\ session \in [gen : Nat, open : BOOLEAN] BY DEF AdapterInv
  <1>2. UNCHANGED <<queues, ready, scheduled, running, jobs, claims, replies, session>>
        BY DEF Adapter!Polls, Adapter!pool
  <1>3. leases' \in Nat /\ loop' \in [at : {"poll", "submit", "retry", "off"}, rest : Seq(Leased)]
    <2>1. CASE leases' = leases /\ loop' = [at |-> "retry", rest |-> <<>>] BY <2>1, <1>1
    <2>2. ASSUME NEW batch \in Adapter!Batches, leases' = leases + Len(batch),
                 loop' = [at |-> "submit", rest |-> batch] \/ loop' = [at |-> "retry", rest |-> <<>>]
          PROVE  leases' \in Nat /\ loop' \in [at : {"poll", "submit", "retry", "off"}, rest : Seq(Leased)]
      <3>1. PICK oldest \in [1 .. Adapter!Room -> Adapter!Waiting] :
                   batch = [k \in 1 .. Adapter!Room |-> <<oldest[k], leases + k>>]
            BY <2>2 DEF Adapter!Batches
      <3>2. Adapter!Waiting \subseteq Deliveries BY DEF Adapter!Waiting
      <3>3. ASSUME NEW k \in 1 .. Adapter!Room PROVE <<oldest[k], leases + k>> \in Leased
        <4>1. oldest[k] \in Deliveries BY <3>1, <3>2
        <4>2. k \in Int /\ k >= 1 BY <3>3
        <4> QED BY <4>1, <4>2, <1>1 DEF Leased
      <3>4. Adapter!Room \in Nat
        <4>1. IsFiniteSet(Adapter!Waiting) BY <3>2, DeliveryAssumption, FS_Subset
        <4>2. Cardinality(Adapter!Waiting) \in Nat BY <4>1, FS_CardinalityType
        <4>3. Adapter!Cardinality(Adapter!Waiting) = Cardinality(Adapter!Waiting) BY DEF Adapter!Cardinality, Cardinality
        <4> QED BY <4>2, <4>3, DeliveryAssumption DEF Adapter!Room
      <3>5. batch \in Seq(Leased) BY <3>1, <3>3, <3>4
      <3>6. Len(batch) \in Nat BY <3>5
      <3>7. leases' \in Nat BY <3>6, <2>2, <1>1
      <3>8. <<>> \in Seq(Leased) OBVIOUS
      <3>9. loop' \in [at : {"poll", "submit", "retry", "off"}, rest : Seq(Leased)]
        <4> DEFINE L == [at : {"poll", "submit", "retry", "off"}, rest : Seq(Leased)]
        <4>1. [at |-> "submit", rest |-> batch] \in L BY <3>5
        <4>2. [at |-> "retry", rest |-> <<>>] \in L BY <3>8
        <4> HIDE DEF L
        <4>3. loop' \in L BY <4>1, <4>2, <2>2
        <4> QED BY <4>3 DEF L
      <3> QED BY <3>7, <3>9
    <2> QED BY <2>1, <2>2 DEF Adapter!Polls
  <1> QED BY <1>1, <1>2, <1>3, ElsewhereKeeps

LEMMA SubmitsKeeps == AdapterInv /\ Adapter!Submits => AdapterInv'
  <1> SUFFICES ASSUME AdapterInv, Adapter!Submits PROVE AdapterInv' OBVIOUS
  <1>1. loop \in [at : {"poll", "submit", "retry", "off"}, rest : Seq(Leased)] /\ leases \in Nat
        BY DEF AdapterInv
  <1>2. UNCHANGED <<leases, session, jobs, claims, replies>> BY DEF Adapter!Submits, Adapter!bridge
  <1>3. CASE loop.rest = <<>>
    <2>1. UNCHANGED <<queues, ready, scheduled, running>> BY <1>3 DEF Adapter!Submits, Adapter!pool
    <2>2. loop' = [loop EXCEPT !.at = "poll"] BY <1>3 DEF Adapter!Submits
    <2>3. loop' \in [at : {"poll", "submit", "retry", "off"}, rest : Seq(Leased)] BY <2>2, <1>1
    <2>4. leases' \in Nat /\ session' \in [gen : Nat, open : BOOLEAN] BY <1>2 DEF AdapterInv
    <2> QED BY <1>2, <2>1, <2>3, <2>4, ElsewhereKeeps
  <1>4. CASE loop.rest # <<>>
    <2> DEFINE b == Head(loop.rest)
               c == ChatOf[b[1]]
    <2>1. /\ queues' = [queues EXCEPT ![c] = Append(@, b)] /\ running' = running
          /\ loop' = [loop EXCEPT !.rest = Tail(@)]
          /\ \/ scheduled' = scheduled \cup {c} /\ ready' = Append(ready, c) /\ c \notin scheduled /\ c \notin running
             \/ scheduled' = scheduled /\ ready' = ready
          BY <1>4 DEF Adapter!Submits, Adapter!Schedules, Adapter!Schedulable
    <2>2. loop.rest \in Seq(Leased) BY <1>1
    <2>3. b \in Leased /\ Tail(loop.rest) \in Seq(Leased) BY <2>2, <1>4
    <2>4. c \in Chats BY <2>3, DeliveryAssumption DEF Leased
    <2> HIDE DEF c
    <2>5. QueuesOk(queues')
      <3>1. queues \in [Chats -> Seq(Leased)] BY DEF AdapterInv, QueuesOk
      <3>2. queues[c] \in Seq(Leased) BY <3>1, <2>4
      <3> HIDE DEF b
      <3>3. Append(queues[c], b) \in Seq(Leased) /\ Len(Append(queues[c], b)) = Len(queues[c]) + 1
            /\ (\A n \in 1 .. Len(queues[c]) : Append(queues[c], b)[n] = queues[c][n])
            /\ Append(queues[c], b)[Len(queues[c]) + 1] = b /\ Len(queues[c]) \in Nat
            BY <3>2, <2>3
      <3>4. queues' \in [Chats -> Seq(Leased)] BY <3>1, <3>3, <2>1
      <3>5. \A k \in Chats : \A n \in 1 .. Len(queues[k]) : ChatOf[queues[k][n][1]] = k BY DEF AdapterInv, QueuesOk
      <3>6. ASSUME NEW k \in Chats, NEW n \in 1 .. Len(queues'[k]) PROVE ChatOf[queues'[k][n][1]] = k
        <4>1. CASE k # c
          <5>1. queues'[k] = queues[k] BY <4>1, <2>1, <3>1
          <5> QED BY <5>1, <3>5, <3>6
        <4>2. CASE k = c
          <5>1. queues'[k] = Append(queues[c], b) BY <4>2, <2>1, <3>1, <2>4
          <5>2. n \in 1 .. Len(queues[c]) \/ n = Len(queues[c]) + 1 BY <5>1, <3>3, <3>6
          <5>3. ChatOf[b[1]] = c BY DEF c, b
          <5>4. CASE n \in 1 .. Len(queues[c]) BY <5>1, <5>4, <3>3, <3>5, <2>4, <4>2
          <5>5. CASE n = Len(queues[c]) + 1 BY <5>1, <5>5, <3>3, <5>3, <4>2
          <5> QED BY <5>2, <5>4, <5>5
        <4> QED BY <4>1, <4>2
      <3> QED BY <3>4, <3>6 DEF QueuesOk
    <2>6. ReadyOk(ready', scheduled')
      <3>1. ReadyOk(ready, scheduled) BY DEF AdapterInv
      <3>2. CASE scheduled' = scheduled \cup {c} /\ ready' = Append(ready, c) /\ c \notin scheduled
        <4>1. ReadyOk(Append(ready, c), scheduled \cup {c}) BY <3>1, <3>2, <2>4, ReadyAppended
        <4> QED BY <4>1, <3>2
      <3>3. CASE scheduled' = scheduled /\ ready' = ready BY <3>1, <3>3
      <3> QED BY <3>2, <3>3, <2>1
    <2>7. scheduled' \cap running' = {} BY <2>1 DEF AdapterInv
    <2>8. JobsOk(jobs', running', claims') BY <1>2, <2>1 DEF AdapterInv
    <2>9. loop' \in [at : {"poll", "submit", "retry", "off"}, rest : Seq(Leased)] BY <2>1, <2>3, <1>1
    <2> QED BY <1>2, <2>5, <2>6, <2>7, <2>8, <2>9 DEF AdapterInv, RepliesAreTheirOwn, Adapter!RepliesAreTheirOwn
  <1> QED BY <1>3, <1>4

LEMMA TakesKeeps == AdapterInv /\ Adapter!Takes => AdapterInv'
  <1> SUFFICES ASSUME AdapterInv, Adapter!Takes PROVE AdapterInv' OBVIOUS
  <1> DEFINE c == Head(ready)
             b == Head(queues[c])
             n == [d |-> b[1], lease |-> b[2], at |-> "fetch", gen |-> 0, tries |-> 0, ok |-> FALSE,
                   out |-> {}, before |-> Nil]
  <1>1. ready # <<>> /\ ready' = Tail(ready) /\ scheduled' = scheduled \ {c}
        /\ UNCHANGED <<leases, session, loop, claims, replies>>
        BY DEF Adapter!Takes, Adapter!bridge
  <1>2. ReadyOk(ready, scheduled) /\ JobsOk(jobs, running, claims) /\ scheduled \cap running = {} /\ QueuesOk(queues)
        BY DEF AdapterInv
  <1>3. c \in Chats /\ c \in scheduled /\ ReadyOk(ready', scheduled') BY <1>1, <1>2, ReadyTaken
  <1>4. CASE queues[c] = <<>>
    <2>1. UNCHANGED <<queues, running, jobs>> BY <1>4 DEF Adapter!Takes
    <2>2. scheduled' \cap running' = {} BY <1>1, <1>2, <2>1
    <2>3. QueuesOk(queues') /\ JobsOk(jobs', running', claims') BY <1>1, <1>2, <2>1
    <2> QED BY <1>1, <1>3, <2>1, <2>2, <2>3 DEF AdapterInv, RepliesAreTheirOwn, Adapter!RepliesAreTheirOwn
  <1>5. CASE queues[c] # <<>>
    <2>1. /\ queues' = [queues EXCEPT ![c] = Tail(@)] /\ running' = running \cup {c} /\ jobs' = jobs \cup {n}
          BY <1>5 DEF Adapter!Takes
    <2>2. queues \in [Chats -> Seq(Leased)] BY <1>2 DEF QueuesOk
    <2>3. queues[c] \in Seq(Leased) BY <2>2, <1>3
    <2>4. /\ b \in Leased /\ Tail(queues[c]) \in Seq(Leased) /\ b = queues[c][1]
          /\ Len(queues[c]) \in Nat /\ 1 \in 1 .. Len(queues[c]) /\ Len(Tail(queues[c])) = Len(queues[c]) - 1
          /\ \A k \in 1 .. Len(Tail(queues[c])) : Tail(queues[c])[k] = queues[c][k + 1] /\ k + 1 \in 1 .. Len(queues[c])
          BY <2>3, <1>5
    <2>5. \A x \in Chats : \A k \in 1 .. Len(queues[x]) : ChatOf[queues[x][k][1]] = x BY <1>2 DEF QueuesOk
    <2>6. ChatOf[b[1]] = c BY <2>4, <2>5, <1>3
    <2> HIDE DEF b
    <2>7. n \in JobType /\ n.at = "fetch" /\ ChatOf[n.d] = c
      <3>1. b[1] \in Deliveries /\ b[2] \in Nat BY <2>4 DEF Leased
      <3> QED BY <3>1, <2>6 DEF JobType
    <2> HIDE DEF n, c
    <2>8. QueuesOk(queues')
      <3>1. queues' \in [Chats -> Seq(Leased)] BY <2>1, <2>2, <2>4
      <3>2. ASSUME NEW x \in Chats, NEW k \in 1 .. Len(queues'[x]) PROVE ChatOf[queues'[x][k][1]] = x
        <4>1. CASE x # c
          <5>1. queues'[x] = queues[x] BY <4>1, <2>1, <2>2
          <5> QED BY <5>1, <2>5, <3>2
        <4>2. CASE x = c
          <5>1. queues'[x] = Tail(queues[c]) BY <4>2, <2>1, <2>2, <1>3
          <5> QED BY <5>1, <2>4, <2>5, <3>2, <4>2
        <4> QED BY <4>1, <4>2
      <3> QED BY <3>1, <3>2 DEF QueuesOk
    <2>9. c \notin running BY <1>2, <1>3
    <2>10. JobsOk(jobs \cup {n}, running \cup {ChatOf[n.d]}, claims) BY <1>2, <2>7, <2>9, JobsStart
    <2>11. JobsOk(jobs', running', claims') BY <2>10, <2>7, <2>1, <1>1
    <2>12. scheduled' \cap running' = {} BY <1>1, <1>2, <2>1 DEF c
    <2> QED BY <1>1, <1>3, <2>8, <2>11, <2>12 DEF AdapterInv, RepliesAreTheirOwn, Adapter!RepliesAreTheirOwn
  <1> QED BY <1>4, <1>5

LEMMA FetchesKeeps == ASSUME AdapterInv, NEW j, Adapter!Fetches(j) PROVE AdapterInv'
  <1> DEFINE n == [j EXCEPT !.at = "turn", !.before = claims[ChatOf[j.d]]]
             c == ChatOf[j.d]
  <1>1. j \in jobs /\ claims' = [claims EXCEPT ![c] = <<j.d, j.lease>>] /\ jobs' = (jobs \ {j}) \cup {n}
        /\ UNCHANGED <<leases, session, loop, queues, ready, scheduled, running, replies>>
        BY DEF Adapter!Fetches, Adapter!Becomes, Adapter!bridge, Adapter!pool
  <1>2. JobsOk(jobs, running, claims) /\ claims \in [Chats -> Leased \cup {Nil}] BY DEF AdapterInv
  <1>3. j \in JobType BY <1>1, <1>2 DEF JobsOk
  <1>4. j.d \in Deliveries /\ j.lease \in Nat BY <1>3 DEF JobType
  <1>5. c \in Chats BY <1>4, DeliveryAssumption
  <1>6. <<j.d, j.lease>> \in Leased BY <1>4 DEF Leased
  <1>7. claims[c] \in Leased \cup {Nil} BY <1>2, <1>5
  <1>8. n \in JobType /\ n.d = j.d /\ n.lease = j.lease BY <1>3, <1>7 DEF JobType
  <1>9. claims' \in [Chats -> Leased \cup {Nil}] /\ claims'[c] = <<j.d, j.lease>>
        /\ \A x \in Chats \ {c} : claims'[x] = claims[x]
        BY <1>1, <1>2, <1>5, <1>6
  <1> HIDE DEF n
  <1>10. ChatOf[n.d] = c BY <1>8
  <1>11. JobsOk((jobs \ {j}) \cup {n}, running, claims') BY <1>1, <1>2, <1>8, <1>9, <1>10, JobsMove
  <1>12. JobsOk(jobs', running', claims') BY <1>11, <1>1
  <1> QED BY <1>1, <1>9, <1>12 DEF AdapterInv, QueuesOk, ReadyOk, RepliesAreTheirOwn, Adapter!RepliesAreTheirOwn

(* A step of a job at which its chat's claim is asked for.                 *)
LEMMA ReplyKeeps ==
  ASSUME AdapterInv, NEW j \in jobs, j.at \in AtHermes, NEW n \in JobType, n.d = j.d, n.lease = j.lease,
         n.at \in AtHermes, jobs' = (jobs \ {j}) \cup {n},
         UNCHANGED <<leases, session, loop, queues, ready, scheduled, running, claims>>,
         replies' = replies \/ replies' = replies \cup {[of |-> <<j.d, j.lease>>, claim |-> claims[ChatOf[j.d]]]}
  PROVE  AdapterInv'
  <1>1. JobsOk(jobs, running, claims) BY DEF AdapterInv
  <1>2. claims[ChatOf[j.d]] = <<j.d, j.lease>> BY <1>1 DEF JobsOk
  <1>3. JobsOk((jobs \ {j}) \cup {n}, running, claims) BY <1>1, <1>2, JobsMove
  <1>4. JobsOk(jobs', running', claims') BY <1>3
  <1>5. RepliesAreTheirOwn' BY <1>2 DEF AdapterInv, RepliesAreTheirOwn, Adapter!RepliesAreTheirOwn
  <1> QED BY <1>4, <1>5 DEF AdapterInv, QueuesOk, ReadyOk

LEMMA SendsKeeps == ASSUME AdapterInv, NEW j, Adapter!Sends(j) PROVE AdapterInv'
  <1> DEFINE n == [j EXCEPT !.out = @ \cup {"text"}]
  <1>1. j \in jobs /\ j.at = "turn" /\ jobs' = (jobs \ {j}) \cup {n}
        /\ UNCHANGED <<leases, session, loop, queues, ready, scheduled, running, claims>>
        BY DEF Adapter!Sends, Adapter!Becomes, Adapter!bridge, Adapter!pool
  <1>2. replies' = replies \/ replies' = replies \cup {[of |-> <<j.d, j.lease>>, claim |-> claims[ChatOf[j.d]]]}
        BY DEF Adapter!Sends
  <1>3. j \in JobType BY <1>1 DEF AdapterInv, JobsOk
  <1>4. n \in JobType /\ n.d = j.d /\ n.lease = j.lease /\ n.at = j.at BY <1>3 DEF JobType
  <1> HIDE DEF n
  <1> QED BY <1>1, <1>2, <1>4, ReplyKeeps DEF AtHermes

LEMMA StagesFileKeeps == ASSUME AdapterInv, NEW j, Adapter!StagesFile(j) PROVE AdapterInv'
  <1> DEFINE n1 == [j EXCEPT !.at = "file", !.out = @ \cup {"file"}]
             n2 == [j EXCEPT !.out = @ \cup {"file"}]
  <1>1. j \in jobs /\ j.at = "turn" /\ (jobs' = (jobs \ {j}) \cup {n1} \/ jobs' = (jobs \ {j}) \cup {n2})
        /\ UNCHANGED <<leases, session, loop, queues, ready, scheduled, running, claims, replies>>
        BY DEF Adapter!StagesFile, Adapter!Becomes, Adapter!bridge, Adapter!pool
  <1>2. j \in JobType BY <1>1 DEF AdapterInv, JobsOk
  <1>3. n1 \in JobType /\ n1.d = j.d /\ n1.lease = j.lease /\ n1.at = "file" BY <1>2 DEF JobType
  <1>4. n2 \in JobType /\ n2.d = j.d /\ n2.lease = j.lease /\ n2.at = j.at BY <1>2 DEF JobType
  <1> HIDE DEF n1, n2
  <1>5. CASE jobs' = (jobs \ {j}) \cup {n1} BY <1>1, <1>3, <1>5, ReplyKeeps DEF AtHermes
  <1>6. CASE jobs' = (jobs \ {j}) \cup {n2} BY <1>1, <1>4, <1>6, ReplyKeeps DEF AtHermes
  <1> QED BY <1>1, <1>5, <1>6

LEMMA SendsFileKeeps == ASSUME AdapterInv, NEW j, Adapter!SendsFile(j) PROVE AdapterInv'
  <1> DEFINE n == [j EXCEPT !.at = "unstage"]
  <1>1. j \in jobs /\ j.at = "file" /\ jobs' = (jobs \ {j}) \cup {n}
        /\ UNCHANGED <<leases, session, loop, queues, ready, scheduled, running, claims>>
        BY DEF Adapter!SendsFile, Adapter!Becomes, Adapter!bridge, Adapter!pool
  <1>2. replies' = replies \/ replies' = replies \cup {[of |-> <<j.d, j.lease>>, claim |-> claims[ChatOf[j.d]]]}
        BY DEF Adapter!SendsFile
  <1>3. j \in JobType BY <1>1 DEF AdapterInv, JobsOk
  <1>4. n \in JobType /\ n.d = j.d /\ n.lease = j.lease /\ n.at = "unstage" BY <1>3 DEF JobType
  <1> HIDE DEF n
  <1> QED BY <1>1, <1>2, <1>4, ReplyKeeps DEF AtHermes

LEMMA UnstagesFileKeeps == ASSUME AdapterInv, NEW j, Adapter!UnstagesFile(j) PROVE AdapterInv'
  <1> DEFINE n == [j EXCEPT !.at = "turn"]
  <1>1. j \in jobs /\ j.at = "unstage" /\ jobs' = (jobs \ {j}) \cup {n}
        /\ UNCHANGED <<leases, session, loop, queues, ready, scheduled, running, claims, replies>>
        BY DEF Adapter!UnstagesFile, Adapter!Becomes, Adapter!bridge, Adapter!pool
  <1>2. j \in JobType BY <1>1 DEF AdapterInv, JobsOk
  <1>3. n \in JobType /\ n.d = j.d /\ n.lease = j.lease /\ n.at = "turn" BY <1>2 DEF JobType
  <1> HIDE DEF n
  <1> QED BY <1>1, <1>3, ReplyKeeps DEF AtHermes

(* The claim of the turn before comes back; the job asks for it no more.   *)
LEMMA TurnEndsKeeps == ASSUME AdapterInv, NEW j, Adapter!TurnEnds(j) PROVE AdapterInv'
  <1> DEFINE n1 == [j EXCEPT !.at = "clean", !.ok = TRUE]
             n2 == [j EXCEPT !.at = "clean"]
             c == ChatOf[j.d]
  <1>1. j \in jobs /\ j.at = "turn" /\ (jobs' = (jobs \ {j}) \cup {n1} \/ jobs' = (jobs \ {j}) \cup {n2})
        /\ claims' = [claims EXCEPT ![c] = j.before]
        /\ UNCHANGED <<leases, session, loop, queues, ready, scheduled, running, replies>>
        BY DEF Adapter!TurnEnds, Adapter!Becomes, Adapter!bridge, Adapter!pool
  <1>2. JobsOk(jobs, running, claims) /\ claims \in [Chats -> Leased \cup {Nil}] BY DEF AdapterInv
  <1>3. j \in JobType BY <1>1, <1>2 DEF JobsOk
  <1>4. n1 \in JobType /\ n1.d = j.d /\ n1.at = "clean" BY <1>3 DEF JobType
  <1>5. n2 \in JobType /\ n2.d = j.d /\ n2.at = "clean" BY <1>3 DEF JobType
  <1>6. j.before \in Leased \cup {Nil} BY <1>3 DEF JobType
  <1>7. claims' \in [Chats -> Leased \cup {Nil}] /\ \A x \in Chats \ {c} : claims'[x] = claims[x]
        BY <1>1, <1>2, <1>6
  <1> HIDE DEF n1, n2
  <1>8. \A n \in {n1, n2} : JobsOk((jobs \ {j}) \cup {n}, running, claims')
        BY <1>1, <1>2, <1>4, <1>5, <1>7, JobsMove DEF AtHermes
  <1>9. JobsOk(jobs', running', claims') BY <1>1, <1>8
  <1> QED BY <1>1, <1>7, <1>9 DEF AdapterInv, QueuesOk, ReadyOk, RepliesAreTheirOwn, Adapter!RepliesAreTheirOwn

(* A step at which a job goes on outside Hermes, or ends.                  *)
LEMMA AfterwardsKeeps ==
  ASSUME AdapterInv, NEW j \in jobs, UNCHANGED <<leases, session, loop, claims, replies>>,
         \/ Adapter!Done(j)
         \/ /\ UNCHANGED <<queues, ready, scheduled, running>>
            /\ \E n \in JobType : n.d = j.d /\ n.at \notin AtHermes /\ jobs' = (jobs \ {j}) \cup {n}
  PROVE  AdapterInv'
  <1>1. JobsOk(jobs', running', claims') /\ ReadyOk(ready', scheduled') /\ scheduled' \cap running' = {} /\ queues' = queues
    <2>1. CASE Adapter!Done(j) BY <2>1, DoneKeeps
    <2>2. ASSUME NEW n \in JobType, n.d = j.d, n.at \notin AtHermes, jobs' = (jobs \ {j}) \cup {n},
                 UNCHANGED <<queues, ready, scheduled, running>>
          PROVE  JobsOk(jobs', running', claims') /\ ReadyOk(ready', scheduled') /\ scheduled' \cap running' = {}
      <3>1. JobsOk((jobs \ {j}) \cup {n}, running, claims) BY <2>2, JobsMove DEF AdapterInv
      <3> QED BY <3>1, <2>2 DEF AdapterInv
    <2> QED BY <2>1, <2>2
  <1> QED BY <1>1 DEF AdapterInv, QueuesOk, RepliesAreTheirOwn, Adapter!RepliesAreTheirOwn

LEMMA CleansKeeps == ASSUME AdapterInv, NEW j, Adapter!Cleans(j) PROVE AdapterInv'
  <1> DEFINE n == [j EXCEPT !.at = "renew"]
  <1>1. j \in jobs /\ UNCHANGED <<leases, session, loop, claims, replies>>
        /\ (Adapter!Done(j) \/ (jobs' = (jobs \ {j}) \cup {n} /\ UNCHANGED <<queues, ready, scheduled, running>>))
        BY DEF Adapter!Cleans, Adapter!Becomes, Adapter!bridge, Adapter!pool
  <1>2. j \in JobType BY <1>1 DEF AdapterInv, JobsOk
  <1>3. n \in JobType /\ n.d = j.d /\ n.at \notin AtHermes BY <1>2 DEF JobType, AtHermes
  <1> HIDE DEF n
  <1> QED BY <1>1, <1>3, AfterwardsKeeps

LEMMA RenewsKeeps == ASSUME AdapterInv, NEW j, Adapter!Renews(j) PROVE AdapterInv'
  <1> DEFINE n == [j EXCEPT !.at = "ack", !.gen = session.gen]
  <1>1. j \in jobs /\ UNCHANGED <<leases, session, loop, claims, replies>>
        /\ (Adapter!Done(j) \/ (jobs' = (jobs \ {j}) \cup {n} /\ UNCHANGED <<queues, ready, scheduled, running>>))
        BY DEF Adapter!Renews, Adapter!Becomes, Adapter!bridge, Adapter!pool
  <1>2. j \in JobType /\ session \in [gen : Nat, open : BOOLEAN] BY <1>1 DEF AdapterInv, JobsOk
  <1>3. n \in JobType /\ n.d = j.d /\ n.at \notin AtHermes BY <1>2 DEF JobType, AtHermes
  <1> HIDE DEF n
  <1> QED BY <1>1, <1>3, AfterwardsKeeps

LEMMA AcksKeeps == ASSUME AdapterInv, NEW j, Adapter!Acks(j) PROVE AdapterInv'
  <1> DEFINE n == [j EXCEPT !.tries = @ + 1]
  <1>1. j \in jobs /\ j.at = "ack" /\ UNCHANGED <<leases, session, loop, claims, replies>>
        /\ (Adapter!Done(j) \/ (jobs' = (jobs \ {j}) \cup {n} /\ UNCHANGED <<queues, ready, scheduled, running>>))
        BY DEF Adapter!Acks, Adapter!Retries, Adapter!Becomes, Adapter!bridge, Adapter!pool
  <1>2. j \in JobType BY <1>1 DEF AdapterInv, JobsOk
  <1>3. n \in JobType /\ n.d = j.d /\ n.at \notin AtHermes BY <1>1, <1>2 DEF JobType, AtHermes
  <1> HIDE DEF n
  <1> QED BY <1>1, <1>3, AfterwardsKeeps

LEMMA DisconnectsKeeps == AdapterInv /\ Adapter!Disconnects => AdapterInv'
  <1> SUFFICES ASSUME AdapterInv, Adapter!Disconnects PROVE AdapterInv' OBVIOUS
  <1>1. /\ loop' = [at |-> "off", rest |-> <<>>] /\ session' = [session EXCEPT !.open = FALSE]
        /\ queues' = [c \in Chats |-> <<>>] /\ ready' = <<>> /\ scheduled' = {} /\ running' = {}
        /\ jobs' = {} /\ claims' = [c \in Chats |-> Nil] /\ leases' = leases /\ replies' = replies
        BY DEF Adapter!Disconnects, Adapter!bridge
  <1>2. QueuesOk(queues')
    <2>1. queues' \in [Chats -> Seq(Leased)] BY <1>1
    <2>2. \A c \in Chats : Len(queues'[c]) = 0 BY <1>1
    <2> QED BY <2>1, <2>2 DEF QueuesOk
  <1>3. ReadyOk(ready', scheduled')
    <2>1. ready' \in Seq(Chats) /\ Len(ready') = 0 BY <1>1
    <2> QED BY <2>1 DEF ReadyOk
  <1>4. JobsOk(jobs', running', claims') BY <1>1 DEF JobsOk
  <1>5. loop' \in [at : {"poll", "submit", "retry", "off"}, rest : Seq(Leased)] BY <1>1
  <1>6. session' \in [gen : Nat, open : BOOLEAN] BY <1>1 DEF AdapterInv
  <1> QED BY <1>1, <1>2, <1>3, <1>4, <1>5, <1>6 DEF AdapterInv, RepliesAreTheirOwn, Adapter!RepliesAreTheirOwn

LEMMA ConnectionKeeps ==
  AdapterInv /\ (Adapter!ClosesSession \/ Adapter!NewSession \/ Adapter!Connects) => AdapterInv'
  <1> SUFFICES ASSUME AdapterInv, Adapter!ClosesSession \/ Adapter!NewSession \/ Adapter!Connects PROVE AdapterInv' OBVIOUS
  <1>1. /\ leases \in Nat /\ session \in [gen : Nat, open : BOOLEAN]
        /\ loop \in [at : {"poll", "submit", "retry", "off"}, rest : Seq(Leased)]
        BY DEF AdapterInv
  <1>2. UNCHANGED <<leases, queues, ready, scheduled, running, jobs, claims, replies>>
        BY DEF Adapter!ClosesSession, Adapter!NewSession, Adapter!Connects, Adapter!bridge, Adapter!pool
  <1>3. session' \in [gen : Nat, open : BOOLEAN]
    <2>1. CASE Adapter!ClosesSession BY <1>1, <2>1 DEF Adapter!ClosesSession
    <2>2. CASE Adapter!NewSession BY <1>1, <2>2 DEF Adapter!NewSession
    <2>3. CASE Adapter!Connects BY <1>1, <2>3 DEF Adapter!Connects
    <2> QED BY <2>1, <2>2, <2>3
  <1>4. loop' \in [at : {"poll", "submit", "retry", "off"}, rest : Seq(Leased)]
    <2>1. CASE Adapter!ClosesSession BY <1>1, <2>1 DEF Adapter!ClosesSession
    <2>2. CASE Adapter!NewSession BY <1>1, <2>2 DEF Adapter!NewSession
    <2>3. CASE Adapter!Connects BY <1>1, <2>3 DEF Adapter!Connects
    <2> QED BY <2>1, <2>2, <2>3
  <1> QED BY <1>1, <1>2, <1>3, <1>4, ElsewhereKeeps

LEMMA LapsesKeeps == ASSUME AdapterInv, NEW d, Adapter!Lapses(d) PROVE AdapterInv'
  <1>1. UNCHANGED <<leases, session, loop, queues, ready, scheduled, running, jobs, claims, replies>>
        BY DEF Adapter!Lapses, Adapter!pool
  <1>2. leases' \in Nat /\ session' \in [gen : Nat, open : BOOLEAN]
        /\ loop' \in [at : {"poll", "submit", "retry", "off"}, rest : Seq(Leased)]
        BY <1>1 DEF AdapterInv
  <1> QED BY <1>1, <1>2, ElsewhereKeeps

LEMMA AdapterNext == AdapterInv /\ [Adapter!Next]_(Adapter!vars) => AdapterInv'
  <1> SUFFICES ASSUME AdapterInv, [Adapter!Next]_(Adapter!vars) PROVE AdapterInv' OBVIOUS
  <1>1. CASE Adapter!Polls BY <1>1, PollsKeeps
  <1>2. CASE Adapter!ClosesSession \/ Adapter!NewSession \/ Adapter!Connects BY <1>2, ConnectionKeeps
  <1>3. CASE Adapter!Submits BY <1>3, SubmitsKeeps
  <1>4. CASE Adapter!Takes BY <1>4, TakesKeeps
  <1>5. ASSUME NEW j \in jobs,
               \/ Adapter!Fetches(j) \/ Adapter!Sends(j) \/ Adapter!StagesFile(j) \/ Adapter!SendsFile(j)
               \/ Adapter!UnstagesFile(j) \/ Adapter!TurnEnds(j) \/ Adapter!Cleans(j) \/ Adapter!Renews(j)
               \/ Adapter!Acks(j)
        PROVE  AdapterInv'
        BY <1>5, FetchesKeeps, SendsKeeps, StagesFileKeeps, SendsFileKeeps, UnstagesFileKeeps, TurnEndsKeeps,
           CleansKeeps, RenewsKeeps, AcksKeeps
  <1>6. ASSUME NEW d \in Deliveries, Adapter!Lapses(d) PROVE AdapterInv' BY <1>6, LapsesKeeps
  <1>7. CASE Adapter!Disconnects BY <1>7, DisconnectsKeeps
  <1>8. CASE UNCHANGED Adapter!vars
    <2>1. UNCHANGED <<leases, session, loop, queues, ready, scheduled, running, jobs, claims, replies>>
          BY <1>8 DEF Adapter!vars, Adapter!pool, Adapter!bridge
    <2>2. leases' \in Nat /\ session' \in [gen : Nat, open : BOOLEAN]
          /\ loop' \in [at : {"poll", "submit", "retry", "off"}, rest : Seq(Leased)]
          BY <2>1 DEF AdapterInv
    <2> QED BY <2>1, <2>2, ElsewhereKeeps
  <1> QED BY <1>1, <1>2, <1>3, <1>4, <1>5, <1>6, <1>7, <1>8 DEF Adapter!Next, Adapter!Steps

(* Every reply the adapter makes goes out under the claim of its own       *)
(* delivery, and so not under that of another delivery of its chat,        *)
(* through lapsed leases, lost calls, failed turns and reconnections       *)
(* (adapter.py:189-197, 555-612).                                          *)
THEOREM RepliesKeepTheirClaims == Adapter!Spec => []RepliesAreTheirOwn
  <1>1. AdapterInv => RepliesAreTheirOwn BY DEF AdapterInv
  <1> QED BY <1>1, AdapterInit, AdapterNext, PTL DEF Adapter!Spec

=============================================================================
