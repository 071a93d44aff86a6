------------------------ MODULE OutboundLanes_proofs ------------------------
(***************************************************************************)
(* What the outbound lanes keep for every value of their constants, in     *)
(* three parts that build on one another: the types; IInv, with which      *)
(* OutboundLanes implements MessagePromises, so that whatever is           *)
(* acknowledged, refused, late or replaced, each promise settles once and  *)
(* never reports more than happened; and OrderInv, the order in which a    *)
(* lane's messages reach the node.                                         *)
(***************************************************************************)
EXTENDS OutboundLanes, TLAPS

-----------------------------------------------------------------------------
(* The types.                                                              *)

(* The submit a pump awaits, and the extension budget it was started with. *)
PumpInv ==
  \A p \in Peers :
    /\ lane[p].pump = "submit" => lane[p].flight # None
    /\ lane[p].pump = "submit" /\ lane[p].current # None
         => lane[p].extensions < MaxExtensions

-----------------------------------------------------------------------------
SubmittedValue == {"none", "pending", "ok", "error"}
DeliveredValue == {"none", "pending", "true", "false"}

LEMMA SettleType ==
  ASSUME NEW V, NEW promise \in [Msg -> V], NEW S, NEW value \in V
  PROVE  Settle(promise, S, value) \in [Msg -> V]
BY DEF Settle

LEMMA SettleValue ==
  ASSUME NEW promise, NEW S, NEW value, NEW m \in Msg
  PROVE  Settle(promise, S, value)[m] =
           IF m \in S /\ promise[m] = "pending" THEN value ELSE promise[m]
BY DEF Settle

LEMMA SettlesTyped ==
  ASSUME TypeOK, NEW S
  PROVE  /\ \A v \in SubmittedValue : Settle(submitted, S, v) \in [Msg -> SubmittedValue]
         /\ \A v \in DeliveredValue : Settle(delivered, S, v) \in [Msg -> DeliveredValue]
BY SettleType DEF TypeOK, SubmittedValue, DeliveredValue

LEMMA CallPumpFacts ==
  ASSUME NEW l \in LaneType
  PROVE  /\ CallPump(l) \in LaneType
         /\ CallPump(l).pump = "submit" => l.pump = "submit"
         /\ CallPump(l).current = l.current
         /\ CallPump(l).flight = l.flight
         /\ CallPump(l).extensions = l.extensions
         /\ CallPump(l).queue = l.queue
<1>1. CASE l.pump = "idle"
  <2>1. CallPump(l) = [l EXCEPT !.pump = "tick"]
    BY <1>1 DEF CallPump
  <2>2. QED
    BY <1>1, <2>1 DEF LaneType
<1>2. CASE l.pump # "idle"
  <2>1. CallPump(l) = l
    BY <1>2 DEF CallPump, LaneType
  <2>2. QED
    BY <2>1
<1>3. QED
  BY <1>1, <1>2

LEMMA HaltFacts ==
  ASSUME NEW l \in LaneType
  PROVE  /\ Halt(l) \in LaneType /\ Halt(l).pump = "idle"
         /\ Halt(l).current = l.current /\ Halt(l).queue = l.queue
         /\ Halt(ArmGrace(l)) \in LaneType /\ Halt(ArmGrace(l)).pump = "idle"
         /\ Halt(ArmGrace(l)).current = l.current /\ Halt(ArmGrace(l)).queue = l.queue
         /\ Halt(l).flight = None /\ Halt(ArmGrace(l)).flight = None
BY DEF Halt, ArmGrace, LaneType, None

(* packBatch takes and rejects queued messages, and batches nothing else.  *)
LEMMA PackFacts ==
  ASSUME NEW l, NEW noSession \in BOOLEAN
  PROVE  LET b == Pack(l, noSession)
         IN /\ b.taken \subseteq l.queue
            /\ b.rejected \subseteq l.queue
            /\ b.entries \subseteq Entries(l.current) \cup b.taken
<1>1. FlaggedPrefix(l) \subseteq l.queue
  BY DEF FlaggedPrefix
<1>2. Reached(Entries(l.current), FlaggedPrefix(l)) \subseteq FlaggedPrefix(l)
  BY DEF Reached
<1>3. QED
  BY <1>1, <1>2 DEF Pack, Batch

LEMMA EntriesType ==
  ASSUME TypeOK, NEW r \in {None} \cup Request
  PROVE  Entries(r) \subseteq Msg
BY DEF TypeOK, Entries, None, Request

(* The pump's loop keeps the types, whatever lane record it starts from.   *)
LEMMA PumpLoopType ==
  ASSUME ConstantsAssumption, TypeOK, NEW p \in Peers, NEW l \in LaneType,
         NEW sub \in [Msg -> SubmittedValue], NEW del \in [Msg -> DeliveredValue],
         NEW noSession \in BOOLEAN,
         PumpLoop(p, l, sub, del, noSession)
  PROVE  /\ lane' \in [Peers -> LaneType]
         /\ submitted' \in [Msg -> SubmittedValue]
         /\ delivered' \in [Msg -> DeliveredValue]
         /\ requests' \in 0 .. MaxMsgs
         /\ sent' \in [Request -> [peer : Peers, base : {None} \cup Request,
                           identity : BOOLEAN, entries : SUBSET Msg,
                           node : {"none", "sent", "stored", "refused"}]]
<1> DEFINE b    == Pack(l, noSession)
           left == [l EXCEPT !.queue = @ \ (b.taken \cup b.rejected)]
<1>1. /\ b.taken \subseteq Msg
      /\ b.entries \subseteq Msg
  <2>1. Entries(l.current) \subseteq Msg
    BY EntriesType DEF LaneType
  <2>2. QED
    BY <2>1, PackFacts DEF LaneType
<1>2. left \in LaneType
  BY DEF LaneType
<1>3. \A k \in LaneType : Halt(k) \in LaneType /\ Halt(ArmGrace(k)) \in LaneType
  BY DEF LaneType, Halt, ArmGrace
<1>p. submitted' \in [Msg -> SubmittedValue] /\ delivered' \in [Msg -> DeliveredValue]
  <2>1. \/ submitted' = sub /\ delivered' = del
        \/ /\ submitted' = Settle(sub, b.rejected, "error")
           /\ delivered' = Settle(del, b.rejected, "false")
    BY DEF PumpLoop
  <2>2. /\ Settle(sub, b.rejected, "error") \in [Msg -> SubmittedValue]
        /\ Settle(del, b.rejected, "false") \in [Msg -> DeliveredValue]
    BY SettleType DEF SubmittedValue, DeliveredValue
  <2>3. QED
    BY <2>1, <2>2
<1>4. CASE UNCHANGED <<requests, sent>> /\ \E k \in LaneType :
             lane' = [lane EXCEPT ![p] = Halt(k)] \/ lane' = [lane EXCEPT ![p] = Halt(ArmGrace(k))]
  <2>0. lane \in [Peers -> LaneType]
    BY DEF TypeOK
  <2>1. lane' \in [Peers -> LaneType]
    <3>1. PICK k \in LaneType :
            lane' = [lane EXCEPT ![p] = Halt(k)] \/ lane' = [lane EXCEPT ![p] = Halt(ArmGrace(k))]
      BY <1>4
    <3>2. Halt(k) \in LaneType /\ Halt(ArmGrace(k)) \in LaneType
      BY <1>3
    <3>3. QED
      BY <2>0, <3>1, <3>2
  <2>2. QED
    BY <1>4, <1>p, <2>1 DEF TypeOK
<1>5. CASE /\ requests < MaxMsgs
           /\ requests' = requests + 1
           /\ sent' = [sent EXCEPT ![requests + 1] =
                         [peer |-> p, base |-> l.current,
                          identity |-> \A m \in b.taken : opts[m].identity,
                          entries |-> b.entries, node |-> "sent"]]
           /\ lane' = [lane EXCEPT ![p] =
                         [left EXCEPT !.pump = "submit", !.flight = requests + 1]]
           /\ submitted' = Settle(sub, b.rejected, "error")
           /\ delivered' = Settle(del, b.rejected, "false")
  <2>1. requests + 1 \in Request /\ requests' \in 0 .. MaxMsgs
    BY <1>5 DEF TypeOK, Request, ConstantsAssumption
  <2>2. [left EXCEPT !.pump = "submit", !.flight = requests + 1] \in LaneType
    BY <1>2, <2>1 DEF LaneType
  <2>3. lane' \in [Peers -> LaneType]
    BY <1>5, <2>2 DEF TypeOK
  <2>4. [peer |-> p, base |-> l.current,
         identity |-> \A m \in b.taken : opts[m].identity,
         entries |-> b.entries, node |-> "sent"]
          \in [peer : Peers, base : {None} \cup Request, identity : BOOLEAN,
              entries : SUBSET Msg, node : {"none", "sent", "stored", "refused"}]
    BY <1>1 DEF LaneType
  <2>5. QED
    BY <1>5, <1>p, <2>1, <2>3, <2>4 DEF TypeOK
<1>6. QED
  BY <1>2, <1>4, <1>5 DEF PumpLoop

(* PumpLoop leaves a lane that awaits a submit only with budget to spare.  *)
LEMMA PumpLoopPump ==
  ASSUME ConstantsAssumption, TypeOK, PumpInv, NEW p \in Peers, NEW l \in LaneType,
         NEW sub, NEW del, NEW noSession \in BOOLEAN,
         PumpLoop(p, l, sub, del, noSession)
  PROVE  PumpInv'
<1>1. \A q \in Peers \ {p} : lane'[q] = lane[q]
  BY DEF PumpLoop, TypeOK
<1>2. CASE lane'[p].pump = "idle"
  BY <1>1, <1>2 DEF PumpInv
<1>3. CASE /\ ~BudgetSpent(l)
           /\ lane'[p].flight = requests + 1
           /\ lane'[p].current = l.current
           /\ lane'[p].extensions = l.extensions
  <2>1. lane'[p].flight # None
    BY <1>3 DEF TypeOK, None
  <2>2. lane'[p].current # None => lane'[p].extensions < MaxExtensions
    BY <1>3 DEF BudgetSpent, LaneType, ConstantsAssumption
  <2>3. QED
    BY <1>1, <2>1, <2>2 DEF PumpInv
<1>4. lane'[p].pump = "idle" \/
        /\ ~BudgetSpent(l)
        /\ lane'[p].flight = requests + 1
        /\ lane'[p].current = l.current
        /\ lane'[p].extensions = l.extensions
  <2> DEFINE b    == Pack(l, noSession)
             left == [l EXCEPT !.queue = @ \ (b.taken \cup b.rejected)]
  <2>1. left \in LaneType
    BY DEF LaneType
  <2>2. \/ lane' = [lane EXCEPT ![p] = Halt(l)]
        \/ lane' = [lane EXCEPT ![p] = Halt(ArmGrace(l))]
        \/ lane' = [lane EXCEPT ![p] = Halt(ArmGrace(left))]
        \/ /\ ~BudgetSpent(l)
           /\ lane' = [lane EXCEPT ![p] =
                         [left EXCEPT !.pump = "submit", !.flight = requests + 1]]
    BY DEF PumpLoop
  <2>3. Halt(l).pump = "idle" /\ Halt(ArmGrace(l)).pump = "idle" /\ Halt(ArmGrace(left)).pump = "idle"
    BY <2>1, HaltFacts
  <2>4. LET n == [left EXCEPT !.pump = "submit", !.flight = requests + 1]
        IN n.flight = requests + 1 /\ n.current = l.current /\ n.extensions = l.extensions
    BY DEF LaneType
  <2>5. lane \in [Peers -> LaneType]
    BY DEF TypeOK
  <2>6. QED
    BY <2>2, <2>3, <2>4, <2>5
<1>5. QED
  BY <1>2, <1>3, <1>4

LEMMA TypeInit ==
  ASSUME ConstantsAssumption, Init
  PROVE  TypeOK /\ PumpInv
<1>1. IdleLane \in LaneType /\ IdleLane.pump = "idle"
  BY DEF LaneType, IdleLane, None, ConstantsAssumption
<1>2. NoOpts \in [peer : Peers, identity : BOOLEAN, oversize : BOOLEAN, supersedes : SUBSET Msg]
  BY DEF NoOpts, ConstantsAssumption
<1>3. NoStatement \in [peer : Peers, base : {None} \cup Request, identity : BOOLEAN,
                       entries : SUBSET Msg, node : {"none", "sent", "stored", "refused"}]
  BY DEF NoStatement, ConstantsAssumption
<1>4. 0 \in 0 .. MaxMsgs
  BY DEF ConstantsAssumption
<1>5. TypeOK
  BY <1>1, <1>2, <1>3, <1>4 DEF Init, TypeOK
<1>6. PumpInv
  BY <1>1 DEF Init, PumpInv
<1>7. QED
  BY <1>5, <1>6

LEMMA TypeNext ==
  ASSUME ConstantsAssumption, TypeOK, PumpInv, [Next]_vars
  PROVE  TypeOK' /\ PumpInv'
<1> USE DEF SubmittedValue, DeliveredValue
<1>0. \A p \in Peers : lane[p] \in LaneType
  BY DEF TypeOK
<1>1. ASSUME NEW p \in Peers, NEW identity \in BOOLEAN, NEW oversize \in BOOLEAN,
             NEW s \in Superseded(p), Enqueue(p, identity, oversize, s)
      PROVE  TypeOK' /\ PumpInv'
  <2> DEFINE m    == arrived + 1
             kept == [lane[p] EXCEPT !.queue = @ \ (@ \cap s)]
             next == CallPump([kept EXCEPT !.queue = @ \cup {m}])
  <2>1. m \in Msg /\ arrived' \in 0 .. MaxMsgs
    BY <1>1 DEF Enqueue, TypeOK, Msg, ConstantsAssumption
  <2>2. s \subseteq Msg
    BY <1>1 DEF Superseded
  <2> DEFINE more == [kept EXCEPT !.queue = @ \cup {m}]
  <2>3. kept \in LaneType /\ more \in LaneType /\ next \in LaneType
    <3>1. kept \in LaneType /\ more \in LaneType
      BY <1>0, <2>1 DEF LaneType
    <3>2. QED
      BY <3>1, CallPumpFacts
  <2>4. lane' = [lane EXCEPT ![p] = kept] \/ lane' = [lane EXCEPT ![p] = next]
    BY <1>1 DEF Enqueue
  <2>5. lane' \in [Peers -> LaneType]
    BY <2>3, <2>4 DEF TypeOK
  <2>6. opts' \in [Msg -> [peer : Peers, identity : BOOLEAN, oversize : BOOLEAN,
                           supersedes : SUBSET Msg]]
    BY <1>1, <2>1, <2>2 DEF Enqueue, TypeOK
  <2>7. /\ submitted' \in [Msg -> SubmittedValue]
        /\ delivered' \in [Msg -> DeliveredValue]
    BY <1>1, <2>1, SettlesTyped DEF Enqueue
  <2>8. PumpInv'
    <3>1. \A q \in Peers \ {p} : lane'[q] = lane[q]
      BY <2>4 DEF TypeOK
    <3>2. /\ lane'[p].pump = "submit" => lane[p].pump = "submit"
          /\ lane'[p].current = lane[p].current
          /\ lane'[p].flight = lane[p].flight
          /\ lane'[p].extensions = lane[p].extensions
      <4>1. /\ kept.pump = lane[p].pump /\ kept.current = lane[p].current
            /\ kept.flight = lane[p].flight /\ kept.extensions = lane[p].extensions
            /\ more.pump = lane[p].pump /\ more.current = lane[p].current
            /\ more.flight = lane[p].flight /\ more.extensions = lane[p].extensions
        BY <1>0 DEF LaneType
      <4>2. lane'[p] = kept \/ lane'[p] = next
        BY <2>4 DEF TypeOK
      <4>3. /\ next.pump = "submit" => more.pump = "submit"
            /\ next.current = more.current /\ next.flight = more.flight
            /\ next.extensions = more.extensions
        BY <2>3, CallPumpFacts
      <4>4. QED
        BY <4>1, <4>2, <4>3
    <3>3. QED
      BY <3>1, <3>2 DEF PumpInv
  <2>9. QED
    BY <1>1, <2>1, <2>5, <2>6, <2>7, <2>8 DEF Enqueue, TypeOK
<1>2. ASSUME NEW p \in Peers, NEW noSession \in BOOLEAN, PumpTick(p, noSession)
      PROVE  TypeOK' /\ PumpInv'
  <2>1. PumpLoop(p, lane[p], submitted, delivered, noSession)
    BY <1>2 DEF PumpTick
  <2>2. submitted \in [Msg -> SubmittedValue] /\ delivered \in [Msg -> DeliveredValue]
    BY DEF TypeOK
  <2>3. PumpInv'
    BY <1>0, <2>1, PumpLoopPump
  <2>4. TypeOK'
    <3>1. /\ lane' \in [Peers -> LaneType]
          /\ submitted' \in [Msg -> SubmittedValue]
          /\ delivered' \in [Msg -> DeliveredValue]
          /\ requests' \in 0 .. MaxMsgs
          /\ sent' \in [Request -> [peer : Peers, base : {None} \cup Request,
                            identity : BOOLEAN, entries : SUBSET Msg,
                            node : {"none", "sent", "stored", "refused"}]]
      BY <1>0, <2>1, <2>2, PumpLoopType
    <3>2. QED
      BY <1>2, <3>1 DEF PumpTick, TypeOK
  <2>5. QED
    BY <2>3, <2>4
<1>3. ASSUME NEW p \in Peers, NEW noSession \in BOOLEAN, SubmitReturns(p, noSession)
      PROVE  TypeOK' /\ PumpInv'
  <2> DEFINE r    == lane[p].flight
             sub  == Settle(submitted, NewIn(r), "ok")
             del  == Settle(delivered, DroppedIn(r), "false")
             next == [lane[p] EXCEPT !.current = r, !.timer = FALSE, !.flight = None,
                        !.extensions = IF sent[r].base = None THEN 0 ELSE @ + 1]
             last == Halt([lane[p] EXCEPT !.timer = FALSE])
  <2>1. r \in Request
    BY <1>0, <1>3 DEF SubmitReturns, PumpInv, LaneType
  <2>2. sub \in [Msg -> SubmittedValue] /\ del \in [Msg -> DeliveredValue]
    BY SettlesTyped
  <2>3. CASE /\ sent[r].base = None \/ lane[p].current # None
             /\ PumpLoop(p, next, sub, del, noSession)
             /\ UNCHANGED up
    <3>1. next.extensions \in 0 .. MaxExtensions
      BY <1>0, <1>3, <2>3 DEF SubmitReturns, PumpInv, LaneType, ConstantsAssumption
    <3>2. next \in LaneType
      BY <1>0, <2>1, <3>1 DEF LaneType
    <3>3. PumpInv'
      BY <2>3, <3>2, PumpLoopPump
    <3>4. TypeOK'
      <4>1. /\ lane' \in [Peers -> LaneType]
            /\ submitted' \in [Msg -> SubmittedValue]
            /\ delivered' \in [Msg -> DeliveredValue]
            /\ requests' \in 0 .. MaxMsgs
            /\ sent' \in [Request -> [peer : Peers, base : {None} \cup Request,
                              identity : BOOLEAN, entries : SUBSET Msg,
                              node : {"none", "sent", "stored", "refused"}]]
        BY <2>2, <2>3, <3>2, PumpLoopType
      <4>2. QED
        BY <1>3, <2>3, <4>1 DEF SubmitReturns, TypeOK
    <3>5. QED
      BY <3>3, <3>4
  <2>4. CASE /\ up' = FALSE
             /\ lane' = [lane EXCEPT ![p] = last]
             /\ submitted' = sub
             /\ delivered' = del
             /\ UNCHANGED <<requests, sent>>
    <3>1. last \in LaneType /\ last.pump = "idle"
      BY <1>0 DEF LaneType, Halt
    <3>2. TypeOK'
      BY <1>3, <2>2, <2>4, <3>1 DEF SubmitReturns, TypeOK
    <3>3. PumpInv'
      BY <2>4, <3>1 DEF PumpInv, TypeOK
    <3>4. QED
      BY <3>2, <3>3
  <2>5. QED
    BY <1>3, <2>3, <2>4 DEF SubmitReturns
<1>4. ASSUME NEW p \in Peers, SubmitThrows(p), lane[p].pump = "submit",
             \/ sent' = [sent EXCEPT ![lane[p].flight].node = "refused"]
             \/ UNCHANGED sent
      PROVE  TypeOK' /\ PumpInv'
  <2>1. Halt(lane[p]) \in LaneType /\ Halt(lane[p]).pump = "idle"
    BY <1>0 DEF LaneType, Halt
  <2>2. submitted' \in [Msg -> SubmittedValue] /\ delivered' \in [Msg -> DeliveredValue]
    BY <1>4, SettlesTyped DEF SubmitThrows
  <2>r. lane[p].flight \in Request
    BY <1>0, <1>4 DEF PumpInv, LaneType
  <2>s. sent' \in [Request -> [peer : Peers, base : {None} \cup Request,
                      identity : BOOLEAN, entries : SUBSET Msg,
                      node : {"none", "sent", "stored", "refused"}]]
    BY <1>4, <2>r DEF TypeOK
  <2>3. TypeOK'
    BY <1>4, <2>1, <2>2, <2>s DEF SubmitThrows, TypeOK
  <2>4. PumpInv'
    BY <1>4, <2>1 DEF SubmitThrows, PumpInv, TypeOK
  <2>5. QED
    BY <2>3, <2>4
<1>5. ASSUME NEW p \in Peers, NEW r \in Request, OnAck(p, r)
      PROVE  TypeOK' /\ PumpInv'
  <2> DEFINE free == [lane[p] EXCEPT !.current = None, !.extensions = 0, !.timer = FALSE]
             next == CallPump(free)
  <2>1. /\ next \in LaneType
        /\ next.current = None
        /\ next.pump = "submit" => lane[p].pump = "submit"
        /\ next.flight = lane[p].flight
    <3>0. 0 \in 0 .. MaxExtensions
      BY ConstantsAssumption DEF ConstantsAssumption
    <3>1. /\ free \in LaneType /\ free.current = None
          /\ free.pump = lane[p].pump /\ free.flight = lane[p].flight
      BY <1>0, <3>0 DEF LaneType
    <3>2. QED
      BY <3>1, CallPumpFacts
  <2>2. delivered' \in [Msg -> DeliveredValue]
    BY <1>5, SettlesTyped DEF OnAck
  <2>3. TypeOK'
    BY <1>5, <2>1, <2>2 DEF OnAck, TypeOK
  <2>4. PumpInv'
    BY <1>5, <2>1 DEF OnAck, PumpInv, TypeOK
  <2>5. QED
    BY <2>3, <2>4
<1>6. ASSUME NEW p \in Peers, GraceFires(p)
      PROVE  TypeOK' /\ PumpInv'
  <2> DEFINE off  == [lane[p] EXCEPT !.timer = FALSE]
             free == [lane[p] EXCEPT !.current = None, !.extensions = 0, !.timer = FALSE]
             next == CallPump(free)
  <2>1. /\ next \in LaneType
        /\ next.current = None
        /\ next.pump = "submit" => lane[p].pump = "submit"
        /\ next.flight = lane[p].flight
    <3>0. 0 \in 0 .. MaxExtensions
      BY ConstantsAssumption DEF ConstantsAssumption
    <3>1. /\ free \in LaneType /\ free.current = None
          /\ free.pump = lane[p].pump /\ free.flight = lane[p].flight
      BY <1>0, <3>0 DEF LaneType
    <3>2. QED
      BY <3>1, CallPumpFacts
  <2>2. /\ off \in LaneType
        /\ off.pump = lane[p].pump
        /\ off.current = lane[p].current
        /\ off.flight = lane[p].flight
        /\ off.extensions = lane[p].extensions
    BY <1>0 DEF LaneType
  <2>3. lane' = [lane EXCEPT ![p] = next] \/ lane' = [lane EXCEPT ![p] = off]
    BY <1>6 DEF GraceFires
  <2>4. delivered' \in [Msg -> DeliveredValue]
    <3>1. delivered' = delivered \/ delivered' = Settle(delivered, Entries(lane[p].current), "false")
      BY <1>6 DEF GraceFires
    <3>2. QED
      BY <3>1, SettlesTyped DEF TypeOK
  <2>5. TypeOK'
    BY <1>6, <2>1, <2>2, <2>3, <2>4 DEF GraceFires, TypeOK
  <2>6. PumpInv'
    BY <2>1, <2>2, <2>3 DEF PumpInv, TypeOK
  <2>7. QED
    BY <2>5, <2>6
<1>7. ASSUME NEW p \in Peers, Expire(p)
      PROVE  TypeOK' /\ PumpInv'
  <2>1. IdleLane \in LaneType /\ IdleLane.pump = "idle"
    BY DEF LaneType, IdleLane, None, ConstantsAssumption
  <2>2. submitted' \in [Msg -> SubmittedValue] /\ delivered' \in [Msg -> DeliveredValue]
    BY <1>7, SettlesTyped DEF Expire
  <2>3. TypeOK'
    BY <1>7, <2>1, <2>2 DEF Expire, TypeOK
  <2>4. PumpInv'
    BY <1>7, <2>1 DEF Expire, PumpInv, TypeOK
  <2>5. QED
    BY <2>3, <2>4
<1>8. ASSUME NEW r \in Request, Land(r)
      PROVE  TypeOK' /\ PumpInv'
  <2>1. ChannelOf(sent[r].peer, sent[r].identity) \in Channel
    BY DEF TypeOK, ChannelOf, Channel
  <2>2. sent' \in [Request -> [peer : Peers, base : {None} \cup Request,
                      identity : BOOLEAN, entries : SUBSET Msg,
                      node : {"none", "sent", "stored", "refused"}]]
    <3>1. sent' = [sent EXCEPT ![r] = [sent[r] EXCEPT !.node = "stored"]]
      BY <1>8 DEF Land
    <3>2. [sent[r] EXCEPT !.node = "stored"]
            \in [peer : Peers, base : {None} \cup Request, identity : BOOLEAN,
                entries : SUBSET Msg, node : {"none", "sent", "stored", "refused"}]
      <4>1. sent[r] \in [peer : Peers, base : {None} \cup Request, identity : BOOLEAN,
                entries : SUBSET Msg, node : {"none", "sent", "stored", "refused"}]
        BY DEF TypeOK
      <4>2. QED
        BY <4>1
    <3>3. QED
      BY <3>1, <3>2 DEF TypeOK
  <2>3. slot' \in [Channel -> {None} \cup Request]
    BY <1>8, <2>1 DEF Land, TypeOK
  <2>4. QED
    BY <1>8, <2>2, <2>3 DEF Land, botVars, TypeOK, PumpInv
<1>9. ASSUME NEW c \in Channel, Fetch(c)
      PROVE  TypeOK' /\ PumpInv'
  BY <1>9 DEF Fetch, botVars, TypeOK, PumpInv
<1>10. CASE UNCHANGED vars
  BY <1>10 DEF vars, TypeOK, PumpInv
<1>11. ASSUME NEW p \in Peers, SubmitRefused(p) \/ SubmitTimesOut(p)
       PROVE  TypeOK' /\ PumpInv'
  BY <1>4, <1>11 DEF SubmitRefused, SubmitTimesOut
<1>12. QED
  BY <1>1, <1>2, <1>3, <1>5, <1>6, <1>7, <1>8, <1>9, <1>10, <1>11 DEF Next

(***************************************************************************)
(* The types of every variable of the lanes, whatever the peers, messages  *)
(* and bounds (outbound-lanes.mjs 44-48): an extension budget is never     *)
(* exceeded.                                                               *)
(***************************************************************************)
THEOREM LanesTypeCorrect == Spec => []TypeOK
<1>1. Init => TypeOK /\ PumpInv
  BY TypeInit, ConstantsAssumption
<1>2. TypeOK /\ PumpInv /\ [Next]_vars => TypeOK' /\ PumpInv'
  BY TypeNext, ConstantsAssumption
<1>3. QED
  BY <1>1, <1>2, PTL DEF Spec

-----------------------------------------------------------------------------
(* Each promise settles once and truthfully.                               *)

(* Only requests that were made are referred to, and stored ones fetched.  *)
RequestInv ==
  /\ \A p \in Peers : lane[p].current <= requests /\ lane[p].flight <= requests
  /\ \A r \in Request :
       /\ sent[r].base <= requests
       /\ r > requests => sent[r].node = "none" /\ sent[r].base = None
  /\ \A r \in got : sent[r].node = "stored"
  /\ \A c \in Channel : slot[c] # None => sent[slot[c]].node = "stored"

Answered(s, m) == s[m] \in {"ok", "error"}

(* What lane l holds was accepted, and what it submitted was answered.     *)
LaneHeld(l, s) ==
  /\ \A m \in l.queue : s[m] # "none"
  /\ \A m \in Entries(l.current) : Answered(s, m)

(* A statement carries accepted messages, on top of answered ones.         *)
RequestsHeld(s) ==
  \A r \in Request : r <= requests =>
    /\ \A m \in sent[r].entries : s[m] # "none"
    /\ \A m \in Entries(sent[r].base) : Answered(s, m)

(* A message still to be submitted is not reported as delivered.           *)
PromisesAgree(s, d) ==
  \A m \in Msg :
    /\ m > arrived => s[m] = "none" /\ d[m] = "none"
    /\ s[m] = "pending" => d[m] \in {"pending", "false"}
    /\ s[m] = "none" => d[m] = "none"

HeldInv ==
  /\ \A p \in Peers : LaneHeld(lane[p], submitted)
  /\ RequestsHeld(submitted)
  /\ PromisesAgree(submitted, delivered)

IInv == TypeOK /\ PumpInv /\ RequestInv /\ HeldInv

-----------------------------------------------------------------------------
(* Promises s and d may become s2 and d2 in one step.                      *)
Later(s, s2) ==
  \A m \in Msg : s[m] # "none" => s2[m] # "none" /\ (s[m] # "pending" => s2[m] = s[m])

(* The statements that were made stay as they are, but for the node's word.*)
SentKept ==
  \A r \in Request : r <= requests =>
    /\ sent'[r].entries = sent[r].entries
    /\ sent'[r].base = sent[r].base
    /\ sent[r].node = "stored" => sent'[r].node = "stored"

(* The entries of request r after the step.                                *)
EntriesNext(r) == IF r = None THEN {} ELSE sent'[r].entries

LEMMA EntriesKept ==
  ASSUME SentKept, NEW r \in {None} \cup Request, r <= requests
  PROVE  EntriesNext(r) = Entries(r)
BY DEF SentKept, EntriesNext, Entries, None, Request

(* The store only gains messages, and the peers have none it did not hold. *)
LEMMA StoreGrows ==
  ASSUME TypeOK, RequestInv, RequestInv', TypeOK', SentKept, got \subseteq got'
  PROVE  Promises!StoreStep
<1>1. \A r \in Request : sent[r].node = "stored" =>
        sent'[r].node = "stored" /\ sent'[r].entries = sent[r].entries
  BY DEF SentKept, RequestInv, TypeOK, Request
<1>2. OnNode \subseteq OnNode'
  BY <1>1 DEF OnNode
<1>3. \A r \in got : r \in Request /\ sent[r].node = "stored"
  BY DEF RequestInv, TypeOK
<1>4. Fetched \subseteq Fetched'
  BY <1>1, <1>3 DEF Fetched
<1>5. \A r \in got' : r \in Request /\ sent'[r].node = "stored"
  BY DEF RequestInv, TypeOK
<1>6. Fetched' \subseteq OnNode'
  BY <1>5 DEF Fetched, OnNode
<1>7. QED
  BY <1>2, <1>4, <1>6 DEF Promises!StoreStep

(* What was held stays held while promises only settle.                    *)
LEMMA LaneStaysHeld ==
  ASSUME TypeOK, SentKept, NEW l \in LaneType, l.current <= requests,
         NEW s, NEW s2, LaneHeld(l, s), Later(s, s2)
  PROVE  /\ LaneHeld(l, s2)
         /\ \A m \in l.queue : s2[m] # "none"
         /\ \A m \in EntriesNext(l.current) : Answered(s2, m)
<1>1. l.queue \subseteq Msg /\ l.current \in {None} \cup Request
  BY DEF LaneType
<1>2. Entries(l.current) \subseteq Msg
  BY <1>1, EntriesType
<1>3. EntriesNext(l.current) = Entries(l.current)
  BY <1>1, EntriesKept
<1>4. QED
  BY <1>1, <1>2, <1>3 DEF LaneHeld, Later, Answered

LEMMA LaneNowHeld ==
  ASSUME TypeOK, HeldInv, NEW p \in Peers, NEW s, Later(submitted, s)
  PROVE  LaneHeld(lane[p], s)
<1>1. lane[p] \in LaneType /\ LaneHeld(lane[p], submitted)
  BY DEF TypeOK, HeldInv
<1>2. lane[p].queue \subseteq Msg /\ Entries(lane[p].current) \subseteq Msg
  BY <1>1, EntriesType DEF LaneType
<1>3. QED
  BY <1>1, <1>2 DEF LaneHeld, Later, Answered

LEMMA RequestsStayHeld ==
  ASSUME TypeOK, RequestInv, SentKept, NEW s, NEW s2, RequestsHeld(s), Later(s, s2),
         NEW r \in Request, r <= requests
  PROVE  /\ \A m \in sent'[r].entries : s2[m] # "none"
         /\ \A m \in EntriesNext(sent'[r].base) : Answered(s2, m)
<1>1. sent[r].entries \subseteq Msg /\ sent[r].base \in {None} \cup Request
  BY DEF TypeOK
<1>2. sent[r].base <= requests
  BY DEF RequestInv
<1>3. Entries(sent[r].base) \subseteq Msg
  BY <1>1, EntriesType
<1>4. sent'[r].entries = sent[r].entries /\ sent'[r].base = sent[r].base
  BY DEF SentKept
<1>5. EntriesNext(sent[r].base) = Entries(sent[r].base)
  BY <1>1, <1>2, EntriesKept
<1>6. EntriesNext(sent'[r].base) = Entries(sent[r].base)
  BY <1>4, <1>5
<1>7. QED
  BY <1>1, <1>3, <1>4, <1>6 DEF RequestsHeld, Later, Answered

-----------------------------------------------------------------------------
(* LaneHeld and RequestsHeld after the step, for a lane record l.          *)
HeldNext(l) ==
  /\ \A m \in l.queue : submitted'[m] # "none"
  /\ \A m \in EntriesNext(l.current) : Answered(submitted', m)

RequestNext(r) ==
  /\ \A m \in sent'[r].entries : submitted'[m] # "none"
  /\ \A m \in EntriesNext(sent'[r].base) : Answered(submitted', m)

LEMMA HeldPrimed ==
  ASSUME \A p \in Peers : HeldNext(lane'[p]),
         \A r \in Request : r <= requests' => RequestNext(r),
         PromisesAgree(submitted, delivered)'
  PROVE  HeldInv'
BY DEF HeldInv, LaneHeld, RequestsHeld, Entries, HeldNext, RequestNext, EntriesNext

(* A step that hands the node nothing new.                                 *)
LEMMA HeldWithoutSubmit ==
  ASSUME TypeOK, RequestInv, HeldInv, SentKept, requests' = requests,
         Later(submitted, submitted'), PromisesAgree(submitted, delivered)',
         \A p \in Peers : lane'[p] # lane[p] => HeldNext(lane'[p])
  PROVE  HeldInv'
<1>1. ASSUME NEW p \in Peers PROVE HeldNext(lane'[p])
  <2>1. CASE lane'[p] # lane[p]
    BY <2>1
  <2>2. CASE lane'[p] = lane[p]
    <3>1. lane[p] \in LaneType /\ lane[p].current <= requests
      BY DEF TypeOK, RequestInv
    <3>2. LaneHeld(lane[p], submitted)
      BY DEF HeldInv
    <3>3. HeldNext(lane[p])
      BY <3>1, <3>2, LaneStaysHeld DEF HeldNext
    <3>4. QED
      BY <2>2, <3>3
  <2>3. QED
    BY <2>1, <2>2
<1>2. ASSUME NEW r \in Request, r <= requests' PROVE RequestNext(r)
  BY <1>2, RequestsStayHeld DEF HeldInv, RequestNext
<1>3. QED
  BY <1>1, <1>2, HeldPrimed

(***************************************************************************)
(* What one step may do to the promises of a message: MessagePromises'     *)
(* PromiseStep without the store.                                          *)
(***************************************************************************)
Rejected(s, d, m) == s[m] = "pending" /\ submitted'[m] = "error" /\ delivered'[m] = "false"
Lost(s, d, m) == submitted'[m] = s[m] /\ d[m] = "pending" /\ delivered'[m] = "false"
Same(s, d, m) == submitted'[m] = s[m] /\ delivered'[m] = d[m]

(* What the pump's loop did to promises s and d.                           *)
PumpAfter(s, d) == \A m \in Msg : Rejected(s, d, m) \/ Lost(s, d, m) \/ Same(s, d, m)

(* Rejecting a set of messages: it settles both promises.                  *)
LEMMA Reject ==
  ASSUME NEW S, NEW s, NEW d, PromisesAgree(s, d),
         submitted' = Settle(s, S, "error"), delivered' = Settle(d, S, "false")
  PROVE  \A m \in Msg : Rejected(s, d, m) \/ Lost(s, d, m) \/ Same(s, d, m)
<1> SUFFICES ASSUME NEW m \in Msg
             PROVE  Rejected(s, d, m) \/ Lost(s, d, m) \/ Same(s, d, m)
  OBVIOUS
<1>1. /\ submitted'[m] = IF m \in S /\ s[m] = "pending" THEN "error" ELSE s[m]
      /\ delivered'[m] = IF m \in S /\ d[m] = "pending" THEN "false" ELSE d[m]
  BY SettleValue
<1>2. s[m] = "pending" => d[m] \in {"pending", "false"}
  BY DEF PromisesAgree
<1>3. QED
  BY <1>1, <1>2 DEF Rejected, Lost, Same

LEMMA AgreeAfter ==
  ASSUME NEW s, NEW d, PromisesAgree(s, d), UNCHANGED arrived,
         \A m \in Msg : Rejected(s, d, m) \/ Lost(s, d, m) \/ Same(s, d, m)
  PROVE  PromisesAgree(submitted, delivered)' /\ Later(s, submitted')
<1>1. PromisesAgree(submitted, delivered)'
  <2> SUFFICES ASSUME NEW m \in Msg
      PROVE  /\ m > arrived' => submitted'[m] = "none" /\ delivered'[m] = "none"
             /\ submitted'[m] = "pending" => delivered'[m] \in {"pending", "false"}
             /\ submitted'[m] = "none" => delivered'[m] = "none"
    BY DEF PromisesAgree
  <2> QED
    BY DEF PromisesAgree, Rejected, Lost, Same
<1>2. Later(s, submitted')
  BY DEF Later, Rejected, Lost, Same
<1>3. QED
  BY <1>1, <1>2

(* The pump's loop, from any lane record and promises.                     *)
LEMMA PumpLoopSteps ==
  ASSUME NEW p \in Peers, NEW l, NEW sub, NEW del, PromisesAgree(sub, del),
         NEW noSession \in BOOLEAN, PumpLoop(p, l, sub, del, noSession)
  PROVE  \A m \in Msg : Rejected(sub, del, m) \/ Lost(sub, del, m) \/ Same(sub, del, m)
<1> DEFINE b == Pack(l, noSession)
<1>1. CASE submitted' = sub /\ delivered' = del
  BY <1>1 DEF Same
<1>2. CASE /\ submitted' = Settle(sub, b.rejected, "error")
           /\ delivered' = Settle(del, b.rejected, "false")
  BY <1>2, Reject
<1>3. QED
  BY <1>1, <1>2 DEF PumpLoop

LEMMA PumpLoopHeld ==
  ASSUME ConstantsAssumption, TypeOK, RequestInv, HeldInv, NEW p \in Peers,
         NEW l \in LaneType, l.current <= requests,
         NEW sub, NEW del, LaneHeld(l, sub), PromisesAgree(sub, del), Later(submitted, sub),
         NEW noSession \in BOOLEAN, PumpLoop(p, l, sub, del, noSession),
         UNCHANGED <<arrived, slot, got>>
  PROVE  RequestInv' /\ HeldInv' /\ SentKept
<1> DEFINE b    == Pack(l, noSession)
           left == [l EXCEPT !.queue = @ \ (b.taken \cup b.rejected)]
           q    == requests + 1
<1>1. /\ PromisesAgree(submitted, delivered)'
      /\ Later(sub, submitted')
  BY PumpLoopSteps, AgreeAfter
<1>2. Later(submitted, submitted')
  BY <1>1 DEF Later
<1>3. lane \in [Peers -> LaneType]
  BY DEF TypeOK
<1>4. \A k \in {l, left} : /\ k \in LaneType
                           /\ k.current = l.current
                           /\ k.queue \subseteq l.queue
  BY DEF LaneType
<1>5. CASE UNCHANGED <<requests, sent>> /\ \E k \in {l, left} :
             \/ lane' = [lane EXCEPT ![p] = Halt(k)]
             \/ lane' = [lane EXCEPT ![p] = Halt(ArmGrace(k))]
  <2>1. PICK k \in {l, left} : \/ lane' = [lane EXCEPT ![p] = Halt(k)]
                               \/ lane' = [lane EXCEPT ![p] = Halt(ArmGrace(k))]
    BY <1>5
  <2>2. /\ \A o \in Peers \ {p} : lane'[o] = lane[o]
        /\ lane'[p] = Halt(k) \/ lane'[p] = Halt(ArmGrace(k))
    BY <1>3, <2>1
  <2>3. lane'[p].current = l.current /\ lane'[p].queue \subseteq l.queue /\ lane'[p].flight = None
    <3>1. k \in LaneType /\ k.current = l.current /\ k.queue \subseteq l.queue
      BY <1>4
    <3>2. \A h \in {Halt(k), Halt(ArmGrace(k))} :
             h.current = k.current /\ h.queue = k.queue /\ h.flight = None
      BY <3>1, HaltFacts
    <3>3. QED
      BY <2>2, <3>1, <3>2
  <2>4. SentKept
    BY <1>5 DEF SentKept
  <2>5. HeldNext(lane'[p])
    <3>1. /\ \A m \in l.queue : submitted'[m] # "none"
          /\ \A m \in EntriesNext(l.current) : Answered(submitted', m)
      BY <1>1, <2>4, LaneStaysHeld
    <3>2. QED
      BY <2>3, <3>1 DEF HeldNext
  <2>6. HeldInv'
    BY <1>1, <1>2, <1>5, <2>2, <2>4, <2>5, HeldWithoutSubmit
  <2>7. RequestInv'
    BY <1>5, <2>2, <2>3 DEF RequestInv, None, TypeOK
  <2>8. QED
    BY <2>4, <2>6, <2>7
<1>6. CASE /\ requests < MaxMsgs
           /\ requests' = q
           /\ sent' = [sent EXCEPT ![q] =
                         [peer |-> p, base |-> l.current,
                          identity |-> \A m \in b.taken : opts[m].identity,
                          entries |-> b.entries, node |-> "sent"]]
           /\ lane' = [lane EXCEPT ![p] = [left EXCEPT !.pump = "submit", !.flight = q]]
  <2> DEFINE new == [left EXCEPT !.pump = "submit", !.flight = q]
  <2>1. q \in Request /\ requests \in Nat
    BY <1>6 DEF TypeOK, Request, ConstantsAssumption
  <2>2. /\ new.current = l.current /\ new.queue \subseteq l.queue /\ new.flight = q
        /\ l.current \in {None} \cup Request
    BY <1>4 DEF LaneType
  <2>3. \A r \in Request \ {q} : sent'[r] = sent[r]
    BY <1>6 DEF TypeOK
  <2>4. sent'[q].base = l.current /\ sent'[q].entries = b.entries /\ sent'[q].node = "sent"
    BY <1>6, <2>1 DEF TypeOK
  <2>5. SentKept
    BY <2>1, <2>3 DEF SentKept, TypeOK, Request
  <2>6. /\ \A m \in l.queue : submitted'[m] # "none"
        /\ \A m \in EntriesNext(l.current) : Answered(submitted', m)
    BY <1>1, <2>5, LaneStaysHeld
  <2>7. \A o \in Peers : HeldNext(lane'[o])
    <3>1. HeldNext(new)
      BY <2>2, <2>6 DEF HeldNext
    <3>2. ASSUME NEW o \in Peers \ {p} PROVE HeldNext(lane[o])
      <4>1. lane[o] \in LaneType /\ lane[o].current <= requests /\ LaneHeld(lane[o], submitted)
        BY DEF TypeOK, RequestInv, HeldInv
      <4>2. QED
        BY <1>2, <2>5, <4>1, LaneStaysHeld DEF HeldNext
    <3>3. lane'[p] = new /\ \A o \in Peers \ {p} : lane'[o] = lane[o]
      BY <1>3, <1>6
    <3>4. QED
      BY <3>1, <3>2, <3>3
  <2>8. RequestNext(q)
    <3>1. b.entries \subseteq Entries(l.current) \cup l.queue
      BY PackFacts
    <3>2. EntriesNext(l.current) = Entries(l.current)
      BY <2>2, <2>5, EntriesKept
    <3>3. \A m \in b.entries : submitted'[m] # "none"
      BY <2>6, <3>1, <3>2 DEF Answered
    <3>4. QED
      BY <2>4, <2>6, <3>3 DEF RequestNext
  <2>9. ASSUME NEW r \in Request, r <= requests' PROVE RequestNext(r)
    <3>1. CASE r = q
      BY <2>8, <3>1
    <3>2. CASE r # q
      <4>1. r <= requests
        BY <1>6, <2>1, <2>9, <3>2 DEF Request
      <4>2. QED
        BY <1>2, <2>5, <4>1, RequestsStayHeld DEF HeldInv, RequestNext
    <3>3. QED
      BY <3>1, <3>2
  <2>10. HeldInv'
    BY <1>1, <2>7, <2>9, HeldPrimed
  <2>11. RequestInv'
    <3>1. ASSUME NEW o \in Peers PROVE lane'[o].current <= requests' /\ lane'[o].flight <= requests'
      <4>1. lane[o].current <= requests /\ lane[o].flight <= requests /\ lane[o] \in LaneType
        BY DEF RequestInv, TypeOK
      <4>2. CASE o = p
        <5>1. lane'[o] = new
          BY <1>3, <1>6, <4>2
        <5>2. l.current <= requests + 1 /\ requests + 1 <= requests + 1
          BY <2>1, <2>2 DEF None, Request
        <5>3. QED
          BY <1>6, <2>2, <5>1, <5>2
      <4>3. CASE o # p
        <5>1. lane'[o] = lane[o]
          BY <1>3, <1>6, <4>3
        <5>2. QED
          BY <1>6, <2>1, <4>1, <5>1 DEF LaneType, None, Request
      <4>4. QED
        BY <4>2, <4>3
    <3>2. ASSUME NEW r \in Request
          PROVE  /\ sent'[r].base <= requests'
                 /\ r > requests' => sent'[r].node = "none" /\ sent'[r].base = None
      <4>1. CASE r = q
        BY <1>6, <2>1, <2>2, <2>4, <4>1 DEF None, Request
      <4>2. CASE r # q
        <5>1. sent'[r] = sent[r] /\ sent[r].base <= requests /\ sent[r].base \in {None} \cup Request
              /\ (r > requests => sent[r].node = "none" /\ sent[r].base = None)
          BY <2>3, <4>2 DEF RequestInv, TypeOK
        <5>2. QED
          BY <1>6, <2>1, <5>1 DEF None, Request
      <4>3. QED
        BY <4>1, <4>2
    <3>3. sent[q].node = "none"
      BY <2>1 DEF RequestInv
    <3>4. \A r \in got' : sent'[r].node = "stored"
      BY <2>3, <3>3 DEF RequestInv, TypeOK
    <3>5. \A c \in Channel : slot'[c] # None => sent'[slot'[c]].node = "stored"
      BY <2>3, <3>3 DEF RequestInv, TypeOK
    <3>6. QED
      BY <3>1, <3>2, <3>4, <3>5 DEF RequestInv
  <2>12. QED
    BY <2>5, <2>10, <2>11
<1>7. QED
  BY <1>5, <1>6 DEF PumpLoop

-----------------------------------------------------------------------------
(* A callback of the bot that hands the node nothing.                      *)
LEMMA RequestsUnmade ==
  ASSUME TypeOK, RequestInv, UNCHANGED <<requests, sent, slot, got>>,
         \A p \in Peers : /\ lane'[p].current \in {None, lane[p].current}
                          /\ lane'[p].flight \in {None, lane[p].flight}
  PROVE  RequestInv' /\ SentKept
<1>1. \A p \in Peers : lane'[p].current <= requests /\ lane'[p].flight <= requests
  BY DEF RequestInv, TypeOK, None
<1>2. QED
  BY <1>1 DEF RequestInv, SentKept

(* Every message is promised what MessagePromises lets it be promised.     *)
Promised == \A m \in Msg : Promises!PromiseStep(m)

LEMMA PumpStepsPromised ==
  ASSUME PromisesAgree(submitted, delivered),
         \A m \in Msg : Rejected(submitted, delivered, m)
                          \/ Lost(submitted, delivered, m) \/ Same(submitted, delivered, m)
  PROVE  Promised
BY DEF PromisesAgree, Promised, Rejected, Lost, Same, Promises!PromiseStep, Promises!SubmittedStep,
       Promises!DeliveredStep

LEMMA EnqueueStep ==
  ASSUME IInv, NEW p \in Peers, NEW identity \in BOOLEAN, NEW oversize \in BOOLEAN,
         NEW s \in Superseded(p), Enqueue(p, identity, oversize, s)
  PROVE  RequestInv' /\ HeldInv' /\ SentKept /\ Promised
<1> DEFINE n       == arrived + 1
           dropped == lane[p].queue \cap s
           kept    == [lane[p] EXCEPT !.queue = @ \ dropped]
           more    == [kept EXCEPT !.queue = @ \cup {n}]
           full    == Cardinality(kept.queue) >= MaxQueued
<1>t. TypeOK /\ RequestInv /\ HeldInv
  BY DEF IInv
<1>1. n \in Msg
  BY <1>t, ConstantsAssumption DEF Enqueue, TypeOK, Msg, ConstantsAssumption
<1>2. submitted[n] = "none" /\ delivered[n] = "none"
  BY <1>t, <1>1 DEF HeldInv, PromisesAgree, TypeOK
<1>3. lane[p] \in LaneType /\ lane \in [Peers -> LaneType]
  BY <1>t DEF TypeOK
<1>4. \A m \in Msg \ {n} :
        /\ submitted'[m] = IF m \in dropped /\ submitted[m] = "pending" THEN "ok" ELSE submitted[m]
        /\ delivered'[m] = IF m \in dropped /\ delivered[m] = "pending" THEN "false" ELSE delivered[m]
  BY SettleValue DEF Enqueue, Settle
<1>5. /\ submitted'[n] = IF full THEN "error" ELSE "pending"
      /\ delivered'[n] = IF full THEN "false" ELSE "pending"
  BY <1>1 DEF Enqueue, Settle
<1>6. \A m \in Msg : submitted[m] = "pending" => delivered[m] \in {"pending", "false"}
  BY <1>t DEF HeldInv, PromisesAgree
<1>7. Promised
  <2>1. Promises!PromiseStep(n)
    BY <1>2, <1>5 DEF Promises!PromiseStep, Promises!Accept, Promises!Refuse
  <2>2. ASSUME NEW m \in Msg \ {n} PROVE Promises!PromiseStep(m)
    BY <1>4, <1>6 DEF Promises!PromiseStep, Promises!SubmittedStep, Promises!DeliveredStep
  <2>3. QED
    BY <2>1, <2>2 DEF Promised
<1>8. Later(submitted, submitted')
  BY <1>2, <1>4 DEF Later
<1>9. PromisesAgree(submitted, delivered)'
  <2> SUFFICES ASSUME NEW m \in Msg
      PROVE  /\ m > arrived' => submitted'[m] = "none" /\ delivered'[m] = "none"
             /\ submitted'[m] = "pending" => delivered'[m] \in {"pending", "false"}
             /\ submitted'[m] = "none" => delivered'[m] = "none"
    BY DEF PromisesAgree
  <2>1. CASE m = n
    BY <1>t, <1>5, <2>1 DEF Enqueue, TypeOK
  <2>2. CASE m # n
    <3>1. m > arrived' => m > arrived
      BY <1>t DEF Enqueue, TypeOK, Msg
    <3>2. QED
      BY <1>t, <1>4, <2>2, <3>1 DEF HeldInv, PromisesAgree
  <2>3. QED
    BY <2>1, <2>2
<1>10. /\ \A o \in Peers \ {p} : lane'[o] = lane[o]
       /\ lane'[p].current = lane[p].current /\ lane'[p].flight = lane[p].flight
       /\ lane'[p].queue \subseteq lane[p].queue \cup (IF full THEN {} ELSE {n})
  <2>1. kept \in LaneType /\ more \in LaneType
    BY <1>1, <1>3 DEF LaneType
  <2>2. /\ CallPump(more).current = more.current /\ CallPump(more).flight = more.flight
        /\ CallPump(more).queue = more.queue
    BY <2>1, CallPumpFacts
  <2>3. lane' = [lane EXCEPT ![p] = IF full THEN kept ELSE CallPump(more)]
    BY DEF Enqueue
  <2>4. /\ kept.current = lane[p].current /\ kept.flight = lane[p].flight
        /\ more.current = lane[p].current /\ more.flight = lane[p].flight
        /\ kept.queue \subseteq lane[p].queue /\ more.queue = kept.queue \cup {n}
    BY <1>3 DEF LaneType
  <2>5. lane'[p] = (IF full THEN kept ELSE CallPump(more)) /\ \A o \in Peers \ {p} : lane'[o] = lane[o]
    BY <1>3, <2>3
  <2> HIDE DEF kept, more, full
  <2>6. QED
    BY <2>2, <2>4, <2>5
<1>11. RequestInv' /\ SentKept
  BY <1>t, <1>10, RequestsUnmade DEF Enqueue
<1>12. HeldNext(lane'[p])
  <2>1. LaneHeld(lane[p], submitted) /\ lane[p].current <= requests
    BY <1>t DEF HeldInv, RequestInv
  <2>2. /\ \A m \in lane[p].queue : submitted'[m] # "none"
        /\ \A m \in EntriesNext(lane[p].current) : Answered(submitted', m)
    BY <1>t, <1>3, <1>8, <1>11, <2>1, LaneStaysHeld
  <2>3. QED
    BY <1>5, <1>10, <2>2 DEF HeldNext
<1>13. HeldInv'
  BY <1>t, <1>8, <1>9, <1>10, <1>11, <1>12, HeldWithoutSubmit DEF Enqueue
<1>14. QED
  BY <1>7, <1>11, <1>13

LEMMA PumpTickStep ==
  ASSUME ConstantsAssumption, IInv, NEW p \in Peers, NEW noSession \in BOOLEAN,
         PumpTick(p, noSession)
  PROVE  RequestInv' /\ HeldInv' /\ SentKept /\ Promised
<1>1. lane[p] \in LaneType /\ lane[p].current <= requests
  BY DEF IInv, TypeOK, RequestInv
<1>2. LaneHeld(lane[p], submitted) /\ PromisesAgree(submitted, delivered)
  BY DEF IInv, HeldInv
<1>3. Later(submitted, submitted)
  BY DEF Later
<1>4. PumpLoop(p, lane[p], submitted, delivered, noSession)
  BY DEF PumpTick
<1>5. RequestInv' /\ HeldInv' /\ SentKept
  BY <1>1, <1>2, <1>3, <1>4, PumpLoopHeld DEF IInv, PumpTick
<1>6. Promised
  BY <1>2, <1>4, PumpLoopSteps, PumpStepsPromised
<1>7. QED
  BY <1>5, <1>6

LEMMA SubmitReturnsStep ==
  ASSUME ConstantsAssumption, IInv, NEW p \in Peers, NEW noSession \in BOOLEAN,
         SubmitReturns(p, noSession)
  PROVE  RequestInv' /\ HeldInv' /\ SentKept /\ Promised
<1> DEFINE r    == lane[p].flight
           sub  == Settle(submitted, NewIn(r), "ok")
           del  == Settle(delivered, DroppedIn(r), "false")
           next == [lane[p] EXCEPT !.current = r, !.timer = FALSE, !.flight = None,
                      !.extensions = IF sent[r].base = None THEN 0 ELSE @ + 1]
           last == Halt([lane[p] EXCEPT !.timer = FALSE])
<1>t. TypeOK /\ PumpInv /\ RequestInv /\ HeldInv
  BY DEF IInv
<1>1. lane[p] \in LaneType /\ lane \in [Peers -> LaneType]
  BY <1>t DEF TypeOK
<1>2. /\ r \in Request /\ r <= requests /\ r # None
      /\ sent[r].node = "stored" /\ lane[p].pump = "submit"
  BY <1>t, <1>1 DEF SubmitReturns, PumpInv, RequestInv, LaneType
<1>3. Entries(r) = sent[r].entries /\ NewIn(r) \subseteq OnNode
  BY <1>2 DEF Entries, NewIn, OnNode
<1>4. \A m \in Msg :
        /\ sub[m] = IF m \in NewIn(r) /\ submitted[m] = "pending" THEN "ok" ELSE submitted[m]
        /\ del[m] = IF m \in DroppedIn(r) /\ delivered[m] = "pending" THEN "false" ELSE delivered[m]
  BY SettleValue
<1>5. /\ PromisesAgree(submitted, delivered)
      /\ \A m \in Msg : submitted[m] \in SubmittedValue
  BY <1>t DEF HeldInv, TypeOK, SubmittedValue
<1> HIDE DEF sub, del
<1>6. PromisesAgree(sub, del) /\ Later(submitted, sub)
  BY <1>4, <1>5 DEF PromisesAgree, Later
<1>7. LaneHeld(lane[p], sub)
  BY <1>t, <1>1, <1>6, LaneNowHeld
<1>8. \A m \in Entries(r) : Answered(sub, m)
  <2>1. Entries(r) \subseteq Msg
    BY <1>t, <1>2, EntriesType
  <2>2. ASSUME NEW m \in Entries(r) PROVE Answered(sub, m)
    <3>1. submitted[m] # "none" /\ m \in Msg
      BY <1>t, <1>2, <1>3, <2>1, <2>2 DEF HeldInv, RequestsHeld
    <3>2. CASE m \in NewIn(r)
      BY <1>4, <1>5, <3>1, <3>2 DEF Answered, SubmittedValue
    <3>3. CASE m \notin NewIn(r)
      <4>1. m \in Entries(sent[r].base)
        BY <2>2, <3>3 DEF NewIn
      <4>2. Answered(submitted, m)
        BY <1>t, <1>2, <4>1 DEF HeldInv, RequestsHeld
      <4>3. QED
        BY <1>4, <3>1, <4>2 DEF Answered
    <3>4. QED
      BY <3>2, <3>3
  <2>3. QED
    BY <2>2
<1>9. PumpAfter(sub, del) => Promised
  <2> SUFFICES ASSUME PumpAfter(sub, del), NEW m \in Msg PROVE Promises!PromiseStep(m)
    BY DEF Promised
  <2>1. \/ sub[m] = submitted[m]
        \/ submitted[m] = "pending" /\ sub[m] = "ok" /\ m \in OnNode
    BY <1>3, <1>4
  <2>2. del[m] = delivered[m] \/ (delivered[m] = "pending" /\ del[m] = "false")
    BY <1>4
  <2>3. sub[m] = "pending" => del[m] \in {"pending", "false"}
    BY <1>6 DEF PromisesAgree
  <2>4. Promises!SubmittedStep(m) /\ Promises!DeliveredStep(m)
    BY <2>1, <2>2, <2>3 DEF PumpAfter, Rejected, Lost, Same, Promises!SubmittedStep,
       Promises!DeliveredStep
  <2>5. QED
    BY <2>4 DEF Promises!PromiseStep
<1>10. CASE /\ sent[r].base = None \/ lane[p].current # None
            /\ PumpLoop(p, next, sub, del, noSession)
  <2>1. next.extensions \in 0 .. MaxExtensions
    BY <1>t, <1>1, <1>2, <1>10, ConstantsAssumption DEF PumpInv, LaneType, ConstantsAssumption
  <2>2. next \in LaneType /\ next.current = r /\ next.queue = lane[p].queue
    BY <1>1, <1>2, <2>1 DEF LaneType
  <2> HIDE DEF next
  <2>3. LaneHeld(next, sub)
    BY <1>7, <1>8, <2>2 DEF LaneHeld
  <2>4. RequestInv' /\ HeldInv' /\ SentKept
    <3>1. UNCHANGED <<arrived, slot, got>> /\ next.current <= requests
      BY <1>2, <2>2 DEF SubmitReturns
    <3>2. QED
      BY <1>t, <1>6, <1>10, <2>2, <2>3, <3>1, PumpLoopHeld
  <2>5. PumpAfter(sub, del)
    BY <1>6, <1>10, PumpLoopSteps DEF PumpAfter
  <2>6. QED
    BY <1>9, <2>4, <2>5
<1>11. CASE /\ lane' = [lane EXCEPT ![p] = last]
            /\ submitted' = sub
            /\ delivered' = del
            /\ UNCHANGED <<requests, sent>>
  <2>1. last.current = lane[p].current /\ last.queue = lane[p].queue /\ last.flight = None
    BY <1>1 DEF Halt, LaneType
  <2>2. lane'[p] = last /\ \A o \in Peers \ {p} : lane'[o] = lane[o]
    BY <1>1, <1>11
  <2> HIDE DEF last
  <2>3. RequestInv' /\ SentKept
    BY <1>t, <1>11, <2>1, <2>2, RequestsUnmade DEF SubmitReturns
  <2>4. HeldNext(lane'[p])
    <3>1. lane[p].current <= requests /\ Later(sub, submitted')
      BY <1>t, <1>11 DEF RequestInv, Later
    <3>2. QED
      BY <1>t, <1>1, <1>7, <1>11, <2>1, <2>2, <2>3, <3>1, LaneStaysHeld DEF HeldNext
  <2>5. PromisesAgree(submitted, delivered)'
    BY <1>6, <1>11 DEF SubmitReturns, PromisesAgree
  <2>6. HeldInv'
    BY <1>t, <1>6, <1>11, <2>2, <2>3, <2>4, <2>5, HeldWithoutSubmit
  <2>7. PumpAfter(sub, del)
    BY <1>11 DEF PumpAfter, Same
  <2>8. QED
    BY <1>9, <2>3, <2>6, <2>7
<1>12. QED
  <2>1. \/ /\ sent[r].base = None \/ lane[p].current # None
           /\ PumpLoop(p, next, sub, del, noSession)
        \/ /\ lane' = [lane EXCEPT ![p] = last]
           /\ submitted' = sub
           /\ delivered' = del
           /\ UNCHANGED <<requests, sent>>
    BY DEF SubmitReturns, sub, del
  <2>2. QED
    BY <1>10, <1>11, <2>1

(* A callback that only settles: E in error and out, T and F delivered.    *)
LEMMA SettlingStep ==
  ASSUME IInv, NEW E, NEW T, NEW F, NEW p \in Peers,
         submitted' = Settle(submitted, E, "error"),
         \/ delivered' = Settle(delivered, T, "true") /\ E = {} /\ T \subseteq Fetched
              /\ \A m \in T \cap Msg : submitted[m] # "pending"
         \/ delivered' = Settle(delivered, F, "false") /\ E \subseteq F,
         UNCHANGED <<arrived, requests, slot, got>>, SentKept, RequestInv',
         \A o \in Peers \ {p} : lane'[o] = lane[o],
         lane'[p].queue \subseteq lane[p].queue,
         lane'[p].current \in {None, lane[p].current}
  PROVE  HeldInv' /\ Promised
<1>t. TypeOK /\ RequestInv /\ HeldInv
  BY DEF IInv
<1>1. ASSUME NEW m \in Msg
      PROVE  \/ submitted'[m] = submitted[m]
             \/ submitted[m] = "pending" /\ submitted'[m] = "error" /\ delivered'[m] = "false"
  BY <1>t, SettleValue DEF HeldInv, PromisesAgree
<1>2. ASSUME NEW m \in Msg
      PROVE  \/ delivered'[m] = delivered[m]
             \/ delivered[m] = "pending" /\ delivered'[m] = "false"
             \/ /\ delivered[m] = "pending" /\ delivered'[m] = "true"
                /\ m \in Fetched /\ submitted[m] # "pending"
  BY SettleValue
<1>3. Promised
  BY <1>1, <1>2 DEF Promised, Promises!PromiseStep, Promises!SubmittedStep, Promises!DeliveredStep
<1>4. Later(submitted, submitted') /\ PromisesAgree(submitted, delivered)'
  <2>1. Later(submitted, submitted')
    BY <1>1 DEF Later
  <2> SUFFICES ASSUME NEW m \in Msg
      PROVE  /\ m > arrived' => submitted'[m] = "none" /\ delivered'[m] = "none"
             /\ submitted'[m] = "pending" => delivered'[m] \in {"pending", "false"}
             /\ submitted'[m] = "none" => delivered'[m] = "none"
    BY <2>1 DEF PromisesAgree
  <2>2. /\ m > arrived => submitted[m] = "none" /\ delivered[m] = "none"
        /\ submitted[m] = "pending" => delivered[m] \in {"pending", "false"}
        /\ submitted[m] = "none" => delivered[m] = "none"
    BY <1>t DEF HeldInv, PromisesAgree
  <2>3. QED
    BY <1>1, <1>2, <2>2
<1>5. HeldNext(lane'[p])
  <2>1. /\ lane[p] \in LaneType /\ LaneHeld(lane[p], submitted)
        /\ lane[p].current <= requests
    BY <1>t DEF TypeOK, HeldInv, RequestInv
  <2>2. /\ \A m \in lane[p].queue : submitted'[m] # "none"
        /\ \A m \in EntriesNext(lane[p].current) : Answered(submitted', m)
    BY <1>t, <1>4, <2>1, LaneStaysHeld
  <2>3. QED
    BY <2>2 DEF HeldNext, EntriesNext
<1>6. HeldInv'
  BY <1>t, <1>4, <1>5, HeldWithoutSubmit
<1>7. QED
  BY <1>3, <1>6

LEMMA SubmitThrowsStep ==
  ASSUME IInv, NEW p \in Peers, SubmitThrows(p), lane[p].pump = "submit",
         \/ sent' = [sent EXCEPT ![lane[p].flight].node = "refused"]
              /\ sent[lane[p].flight].node = "sent"
         \/ UNCHANGED sent
  PROVE  RequestInv' /\ HeldInv' /\ SentKept /\ Promised
<1> DEFINE r == lane[p].flight
           E == NewIn(r)
<1>t. TypeOK /\ PumpInv /\ RequestInv /\ HeldInv
  BY DEF IInv
<1>1. lane[p] \in LaneType /\ lane \in [Peers -> LaneType] /\ r \in Request /\ r <= requests
  BY <1>t DEF TypeOK, PumpInv, RequestInv, LaneType
<1>2. /\ lane'[p].current = lane[p].current /\ lane'[p].queue = lane[p].queue
      /\ lane'[p].flight = None
      /\ \A o \in Peers \ {p} : lane'[o] = lane[o]
  <2>1. lane' = [lane EXCEPT ![p] = Halt(lane[p])]
    BY DEF SubmitThrows
  <2>2. QED
    BY <1>1, <2>1, HaltFacts
<1>3. \A q \in Request : /\ sent'[q].entries = sent[q].entries
                         /\ sent'[q].base = sent[q].base
                         /\ \/ sent'[q].node = sent[q].node
                            \/ q = r /\ sent[q].node = "sent" /\ sent'[q].node = "refused"
  BY <1>t, <1>1 DEF TypeOK
<1>4. SentKept
  BY <1>3 DEF SentKept
<1>5. RequestInv'
  <2>1. UNCHANGED <<requests, slot, got>>
    BY DEF SubmitThrows
  <2>2. \A o \in Peers : lane'[o].current <= requests' /\ lane'[o].flight <= requests'
    BY <1>t, <1>2, <2>1 DEF RequestInv, None, TypeOK
  <2>3. \A q \in Request : /\ sent'[q].base <= requests'
                           /\ q > requests' => sent'[q].node = "none" /\ sent'[q].base = None
    BY <1>t, <1>1, <1>3, <2>1 DEF RequestInv
  <2>4. \A q \in got' : sent'[q].node = "stored"
    BY <1>t, <1>3, <2>1 DEF RequestInv, TypeOK
  <2>5. \A c \in Channel : slot'[c] # None => sent'[slot'[c]].node = "stored"
    BY <1>t, <1>3, <2>1 DEF RequestInv, TypeOK
  <2>6. QED
    BY <2>2, <2>3, <2>4, <2>5 DEF RequestInv
<1>6. HeldInv' /\ Promised
  <2>1. /\ submitted' = Settle(submitted, E, "error")
        /\ delivered' = Settle(delivered, E, "false")
        /\ UNCHANGED <<arrived, requests, slot, got>>
    BY DEF SubmitThrows
  <2> HIDE DEF E
  <2>2. QED
    BY <1>2, <1>4, <1>5, <2>1, SettlingStep
<1>7. QED
  BY <1>4, <1>5, <1>6

LEMMA OnAckStep ==
  ASSUME IInv, NEW p \in Peers, NEW r \in Request, OnAck(p, r)
  PROVE  RequestInv' /\ HeldInv' /\ SentKept /\ Promised
<1> DEFINE free == [lane[p] EXCEPT !.current = None, !.extensions = 0, !.timer = FALSE]
<1>t. TypeOK /\ RequestInv /\ HeldInv
  BY DEF IInv
<1>1. lane[p] \in LaneType /\ lane \in [Peers -> LaneType]
  BY <1>t DEF TypeOK
<1>2. /\ lane'[p].current = None /\ lane'[p].queue = lane[p].queue
      /\ lane'[p].flight = lane[p].flight
      /\ \A o \in Peers \ {p} : lane'[o] = lane[o]
  <2>0. 0 \in 0 .. MaxExtensions
    BY ConstantsAssumption DEF ConstantsAssumption
  <2>1. /\ free \in LaneType /\ free.current = None /\ free.queue = lane[p].queue
        /\ free.flight = lane[p].flight
    BY <1>1, <2>0 DEF LaneType
  <2>2. lane' = [lane EXCEPT ![p] = CallPump(free)]
    BY DEF OnAck
  <2> HIDE DEF free
  <2>3. QED
    BY <1>1, <2>1, <2>2, CallPumpFacts
<1>3. RequestInv' /\ SentKept
  BY <1>t, <1>2, RequestsUnmade DEF OnAck
<1>4. HeldInv' /\ Promised
  <2>1. Entries(r) \subseteq Fetched
    <3>1. r # None /\ r \in got
      BY DEF OnAck, Request, None
    <3>2. QED
      BY <3>1 DEF Entries, Fetched
  <2>2. \A m \in Entries(r) \cap Msg : submitted[m] # "pending"
    BY <1>t DEF HeldInv, LaneHeld, Answered, OnAck
  <2>3. submitted' = Settle(submitted, {}, "error")
    BY <1>t DEF OnAck, Settle, TypeOK
  <2>4. delivered' = Settle(delivered, Entries(r), "true")
    BY DEF OnAck
  <2>5. UNCHANGED <<arrived, requests, slot, got>>
    BY DEF OnAck
  <2>6. QED
    BY <1>2, <1>3, <2>1, <2>2, <2>3, <2>4, <2>5, SettlingStep
<1>5. QED
  BY <1>3, <1>4

LEMMA GraceFiresStep ==
  ASSUME IInv, NEW p \in Peers, GraceFires(p)
  PROVE  RequestInv' /\ HeldInv' /\ SentKept /\ Promised
<1> DEFINE off  == [lane[p] EXCEPT !.timer = FALSE]
           free == [lane[p] EXCEPT !.current = None, !.extensions = 0, !.timer = FALSE]
           F    == Entries(lane[p].current)
<1>t. TypeOK /\ RequestInv /\ HeldInv
  BY DEF IInv
<1>1. lane[p] \in LaneType /\ lane \in [Peers -> LaneType]
  BY <1>t DEF TypeOK
<1>2. /\ lane'[p].current \in {None, lane[p].current} /\ lane'[p].queue = lane[p].queue
      /\ lane'[p].flight = lane[p].flight
      /\ \A o \in Peers \ {p} : lane'[o] = lane[o]
  <2>0. 0 \in 0 .. MaxExtensions
    BY ConstantsAssumption DEF ConstantsAssumption
  <2>1. /\ free \in LaneType /\ free.current = None /\ free.queue = lane[p].queue
        /\ free.flight = lane[p].flight
    BY <1>1, <2>0 DEF LaneType
  <2>2. off.current = lane[p].current /\ off.queue = lane[p].queue /\ off.flight = lane[p].flight
    BY <1>1 DEF LaneType
  <2>3. lane' = [lane EXCEPT ![p] = CallPump(free)] \/ lane' = [lane EXCEPT ![p] = off]
    BY DEF GraceFires
  <2> HIDE DEF free, off
  <2>4. QED
    BY <1>1, <2>1, <2>2, <2>3, CallPumpFacts
<1>3. RequestInv' /\ SentKept
  BY <1>t, <1>2, RequestsUnmade DEF GraceFires
<1>4. HeldInv' /\ Promised
  <2>1. submitted' = Settle(submitted, {}, "error")
    BY <1>t DEF GraceFires, Settle, TypeOK
  <2>2. delivered' = Settle(delivered, F, "false") \/ delivered' = Settle(delivered, {}, "false")
    BY <1>t DEF GraceFires, Settle, TypeOK
  <2>3. UNCHANGED <<arrived, requests, slot, got>>
    BY DEF GraceFires
  <2> HIDE DEF F
  <2>4. CASE delivered' = Settle(delivered, F, "false")
    BY <1>2, <1>3, <2>1, <2>3, <2>4, SettlingStep
  <2>5. CASE delivered' = Settle(delivered, {}, "false")
    BY <1>2, <1>3, <2>1, <2>3, <2>5, SettlingStep
  <2>6. QED
    BY <2>2, <2>4, <2>5
<1>5. QED
  BY <1>3, <1>4

LEMMA ExpireStep ==
  ASSUME IInv, NEW p \in Peers, Expire(p)
  PROVE  RequestInv' /\ HeldInv' /\ SentKept /\ Promised
<1> DEFINE E == lane[p].queue
           F == lane[p].queue \cup Entries(lane[p].current)
<1>t. TypeOK /\ RequestInv /\ HeldInv
  BY DEF IInv
<1>1. /\ lane'[p].current = None /\ lane'[p].queue \subseteq lane[p].queue
      /\ lane'[p].flight = None
      /\ \A o \in Peers \ {p} : lane'[o] = lane[o]
  <2>1. IdleLane.current = None /\ IdleLane.queue = {} /\ IdleLane.flight = None
    BY DEF IdleLane
  <2>2. lane' = [lane EXCEPT ![p] = IdleLane] /\ lane \in [Peers -> LaneType]
    BY <1>t DEF Expire, TypeOK
  <2>3. QED
    BY <2>1, <2>2
<1>2. RequestInv' /\ SentKept
  BY <1>t, <1>1, RequestsUnmade DEF Expire
<1>3. HeldInv' /\ Promised
  <2>1. /\ submitted' = Settle(submitted, E, "error")
        /\ delivered' = Settle(delivered, F, "false")
        /\ UNCHANGED <<arrived, requests, slot, got>>
        /\ E \subseteq F
    BY DEF Expire
  <2> HIDE DEF E, F
  <2>2. QED
    BY <1>1, <1>2, <2>1, SettlingStep
<1>4. QED
  BY <1>2, <1>3

-----------------------------------------------------------------------------
(* A step of the store or of a peer touches nothing the bot holds.         *)
LEMMA OutsideStep ==
  ASSUME IInv, RequestInv', SentKept, UNCHANGED botVars
  PROVE  HeldInv' /\ Promised
<1>t. TypeOK /\ RequestInv /\ HeldInv
  BY DEF IInv
<1>1. /\ UNCHANGED <<lane, requests, arrived, submitted, delivered>>
      /\ Later(submitted, submitted')
  BY DEF botVars, Later
<1>2. PromisesAgree(submitted, delivered)'
  BY <1>t, <1>1 DEF HeldInv, PromisesAgree
<1>3. HeldInv'
  BY <1>t, <1>1, <1>2, HeldWithoutSubmit
<1>4. Promised
  BY <1>1 DEF Promised, Promises!PromiseStep, Promises!SubmittedStep, Promises!DeliveredStep
<1>5. QED
  BY <1>3, <1>4

LEMMA LandStep ==
  ASSUME IInv, NEW r \in Request, Land(r)
  PROVE  RequestInv' /\ HeldInv' /\ SentKept /\ Promised
<1> DEFINE c == ChannelOf(sent[r].peer, sent[r].identity)
<1>t. TypeOK /\ RequestInv
  BY DEF IInv
<1>1. \A q \in Request : /\ sent'[q].entries = sent[q].entries
                         /\ sent'[q].base = sent[q].base
                         /\ sent'[q].node = IF q = r THEN "stored" ELSE sent[q].node
  BY <1>t DEF Land, TypeOK
<1>2. SentKept
  BY <1>1 DEF SentKept
<1>3. RequestInv'
  <2>1. UNCHANGED <<lane, requests, got>> /\ r <= requests
    BY DEF Land, botVars
  <2>2. \A o \in Peers : lane'[o].current <= requests' /\ lane'[o].flight <= requests'
    BY <1>t, <2>1 DEF RequestInv
  <2>3. \A q \in Request : /\ sent'[q].base <= requests'
                           /\ q > requests' => sent'[q].node = "none" /\ sent'[q].base = None
    BY <1>t, <1>1, <2>1 DEF RequestInv, TypeOK, Request
  <2>4. \A q \in got' : sent'[q].node = "stored"
    BY <1>t, <1>1, <2>1 DEF RequestInv, TypeOK
  <2>5. ASSUME NEW d \in Channel, slot'[d] # None
        PROVE  sent'[slot'[d]].node = "stored"
    <3>1. slot'[d] = IF d = c THEN r ELSE slot[d]
      BY <1>t DEF Land, TypeOK
    <3>2. slot[d] \in Request \/ d = c
      BY <1>t, <2>5, <3>1 DEF TypeOK
    <3>3. QED
      BY <1>t, <1>1, <2>5, <3>1, <3>2 DEF RequestInv
  <2>6. QED
    BY <2>2, <2>3, <2>4, <2>5 DEF RequestInv
<1>4. QED
  BY <1>2, <1>3, OutsideStep DEF Land

LEMMA FetchStep ==
  ASSUME IInv, NEW c \in Channel, Fetch(c)
  PROVE  RequestInv' /\ HeldInv' /\ SentKept /\ Promised
<1>t. TypeOK /\ RequestInv
  BY DEF IInv
<1>1. UNCHANGED <<lane, requests, sent, slot>>
  BY DEF Fetch, botVars
<1>2. \A r \in got' : sent[r].node = "stored"
  BY <1>t DEF Fetch, RequestInv
<1>3. RequestInv' /\ SentKept
  BY <1>t, <1>1, <1>2 DEF RequestInv, SentKept
<1>4. QED
  BY <1>3, OutsideStep DEF Fetch

LEMMA InitHeld ==
  ASSUME ConstantsAssumption, Init
  PROVE  IInv /\ Promises!Init
<1>1. TypeOK /\ PumpInv
  BY TypeInit
<1>2. \A r \in Request : sent[r].node = "none" /\ sent[r].base = None
  BY DEF Init, NoStatement
<1>3. \A p \in Peers : /\ lane[p].current = None /\ lane[p].flight = None
                       /\ lane[p].queue = {}
  BY DEF Init, IdleLane
<1>4. RequestInv
  BY <1>2, <1>3 DEF Init, RequestInv, None
<1>5. HeldInv
  <2>1. \A p \in Peers : LaneHeld(lane[p], submitted)
    BY <1>3 DEF LaneHeld, Entries
  <2>2. RequestsHeld(submitted)
    BY DEF RequestsHeld, Init, Request
  <2>3. PromisesAgree(submitted, delivered)
    BY DEF PromisesAgree, Init
  <2>4. QED
    BY <2>1, <2>2, <2>3 DEF HeldInv
<1>6. OnNode = {} /\ Fetched = {}
  BY <1>2 DEF OnNode, Fetched, Init
<1>7. Promises!Init
  BY <1>6 DEF Promises!Init, Init
<1>8. QED
  BY <1>1, <1>4, <1>5, <1>7 DEF IInv

LEMMA StepHeld ==
  ASSUME ConstantsAssumption, IInv, Next
  PROVE  RequestInv' /\ HeldInv' /\ SentKept /\ Promised
<1>1. ASSUME NEW p \in Peers, SubmitRefused(p) \/ SubmitTimesOut(p)
      PROVE  RequestInv' /\ HeldInv' /\ SentKept /\ Promised
  BY <1>1, SubmitThrowsStep DEF SubmitRefused, SubmitTimesOut
<1>2. QED
  BY <1>1, EnqueueStep, PumpTickStep, SubmitReturnsStep, OnAckStep, GraceFiresStep,
     ExpireStep, LandStep, FetchStep DEF Next

LEMMA NextHeld ==
  ASSUME ConstantsAssumption, IInv, [Next]_vars
  PROVE  IInv' /\ [Promises!Next]_Promises!vars
<1>1. TypeOK' /\ PumpInv'
  BY TypeNext DEF IInv
<1>2. CASE Next
  <2>1. RequestInv' /\ HeldInv' /\ SentKept /\ Promised
    BY <1>2, StepHeld
  <2>2. got \subseteq got'
    BY <1>2 DEF Next, Enqueue, PumpTick, SubmitReturns, SubmitRefused, SubmitTimesOut,
       SubmitThrows, OnAck, GraceFires, Expire, Land, Fetch
  <2>3. Promises!StoreStep
    BY <1>1, <2>1, <2>2, StoreGrows DEF IInv
  <2>4. QED
    BY <1>1, <2>1, <2>3 DEF IInv, Promised, Promises!Next
<1>3. CASE UNCHANGED vars
  <2>1. UNCHANGED <<submitted, delivered, OnNode, Fetched>>
    BY <1>3 DEF vars, OnNode, Fetched
  <2>2. RequestInv' /\ HeldInv'
    BY <1>3 DEF IInv, vars, RequestInv, HeldInv, LaneHeld, RequestsHeld, PromisesAgree,
       Entries, Answered
  <2>3. QED
    BY <1>1, <2>1, <2>2 DEF IInv, Promises!vars
<1>4. QED
  BY <1>2, <1>3

(***************************************************************************)
(* The lanes keep the promises they make to the caller of enqueue          *)
(* (outbound-lanes.mjs 196-199): `submitted` and `delivered` settle once,  *)
(* `submitted` says ok only of a message on the node or superseded, and    *)
(* `delivered` says true only of one the peer has, however ACKs, timers,   *)
(* timeouts, refusals and late landings interleave.                        *)
(***************************************************************************)
THEOREM LanesKeepPromises == Spec => PromisesKept
<1>1. Init => IInv /\ Promises!Init
  BY InitHeld, ConstantsAssumption
<1>2. IInv /\ [Next]_vars => IInv' /\ [Promises!Next]_Promises!vars
  BY NextHeld, ConstantsAssumption
<1>3. QED
  BY <1>1, <1>2, PTL DEF Spec, PromisesKept, Promises!Spec

-----------------------------------------------------------------------------
(* The order of a lane.                                                    *)

(* A message that can no longer be overtaken: it is on the node or was     *)
(* reported undelivered.                                                   *)
Through(m) == m \in OnNode \/ delivered[m] = "false"

(* Promises of arrived messages: `delivered` says true of none the node    *)
(* lacks, and a message supersedes earlier ones only.                      *)
ArrivedInv ==
  \A m \in Msg : m <= arrived =>
    /\ delivered[m] # "none"
    /\ delivered[m] = "true" => m \in OnNode
    /\ \A k \in opts[m].supersedes : k < m

(* A lane queues messages of its own peer, none of them superseded, and    *)
(* holds statements of its own: the current one is on the node.            *)
OwnInv ==
  \A p \in Peers :
    /\ \A m \in lane[p].queue : m <= arrived /\ opts[m].peer = p
    /\ \A m, k \in lane[p].queue : m \notin opts[k].supersedes
    /\ lane[p].current # None => sent[lane[p].current].peer = p
    /\ lane[p].flight # None => lane[p].pump = "submit" /\ sent[lane[p].flight].peer = p
    /\ Entries(lane[p].current) \subseteq OnNode

(* A statement carries arrived messages of its peer and extends one that   *)
(* the node had.                                                           *)
StatementInv ==
  \A r \in Request : r <= requests =>
    /\ \A m \in sent[r].entries : m <= arrived /\ opts[m].peer = sent[r].peer
    /\ Entries(sent[r].base) \subseteq OnNode

(* A message is queued, in the statement being submitted, or through.      *)
PlacedInv ==
  \A m \in Msg : m <= arrived =>
    LET l == lane[opts[m].peer] IN
    m \in l.queue \/ m \in Entries(l.flight) \/ Through(m)

(* What is older than a member of a statement is through, or in the same   *)
(* statement while that is being submitted.                                *)
OlderInv ==
  \A r \in Request : r <= requests =>
    \A b \in sent[r].entries : \A a \in Msg :
      a < b /\ opts[a].peer = sent[r].peer =>
        \/ Through(a)
        \/ a \in sent[r].entries /\ lane[sent[r].peer].flight = r

OrderInv == ArrivedInv /\ OwnInv /\ StatementInv /\ PlacedInv /\ OlderInv

-----------------------------------------------------------------------------
(* What every step leaves: the store keeps what it has, a statement keeps  *)
(* its peer, and a settled promise stays settled.                          *)
Grown ==
  /\ OnNode \subseteq OnNode'
  /\ \A r \in Request : r <= requests => sent'[r].peer = sent[r].peer
  /\ \A m \in Msg : m <= arrived =>
       \/ delivered'[m] = delivered[m]
       \/ delivered[m] = "pending" /\ delivered'[m] = "false"
       \/ delivered[m] = "pending" /\ delivered'[m] = "true" /\ m \in OnNode'

LEMMA ThroughStays ==
  ASSUME Grown, NEW m \in Msg, m <= arrived, Through(m)
  PROVE  Through(m)'
BY DEF Grown, Through

(* A message whose promise is settled with false is through.               *)
LEMMA FailedIsThrough ==
  ASSUME TypeOK, ArrivedInv, Grown, NEW m \in Msg, m <= arrived,
         delivered[m] = "pending" => delivered'[m] = "false"
  PROVE  Through(m)'
BY DEF ArrivedInv, Grown, Through, TypeOK

LEMMA Growth ==
  ASSUME ConstantsAssumption, IInv, ArrivedInv, Next
  PROVE  IInv' /\ SentKept /\ Grown
<1>1. IInv' /\ SentKept /\ Promised
  BY NextHeld, StepHeld
<1>2. got \subseteq got'
  BY DEF Next, Enqueue, PumpTick, SubmitReturns, SubmitRefused, SubmitTimesOut,
     SubmitThrows, OnAck, GraceFires, Expire, Land, Fetch
<1>3. Promises!StoreStep
  BY <1>1, <1>2, StoreGrows DEF IInv
<1>4. ASSUME NEW m \in Msg, m <= arrived
      PROVE  \/ delivered'[m] = delivered[m]
             \/ delivered[m] = "pending" /\ delivered'[m] = "false"
             \/ delivered[m] = "pending" /\ delivered'[m] = "true" /\ m \in OnNode'
  <2>1. Promises!PromiseStep(m) /\ delivered[m] # "none"
    BY <1>1, <1>4 DEF Promised, ArrivedInv
  <2>2. Fetched \subseteq OnNode'
    BY <1>3 DEF Promises!StoreStep
  <2>3. QED
    BY <2>1, <2>2 DEF Promises!PromiseStep, Promises!DeliveredStep
<1>5. \A r \in Request : r <= requests => sent'[r].peer = sent[r].peer
  <2>1. CASE UNCHANGED sent
    BY <2>1
  <2>2. CASE \E r \in Request, v \in {"refused", "stored"} : sent' = [sent EXCEPT ![r].node = v]
    BY <2>2 DEF IInv, TypeOK
  <2>3. CASE \E x : sent' = [sent EXCEPT ![requests + 1] = x]
    <3>1. PICK x : sent' = [sent EXCEPT ![requests + 1] = x]
      BY <2>3
    <3>2. \A r \in Request : r <= requests => r # requests + 1
      BY DEF IInv, TypeOK, Request
    <3>3. QED
      BY <3>1, <3>2 DEF IInv, TypeOK
  <2>4. ASSUME NEW p \in Peers, NEW l, NEW sub, NEW del, NEW noSession \in BOOLEAN,
               PumpLoop(p, l, sub, del, noSession)
        PROVE  UNCHANGED sent \/ \E x : sent' = [sent EXCEPT ![requests + 1] = x]
    BY <2>4 DEF PumpLoop
  <2>5. ASSUME NEW p \in Peers, SubmitRefused(p)
        PROVE  \E r \in Request, v \in {"refused", "stored"} : sent' = [sent EXCEPT ![r].node = v]
    <3>1. lane[p].flight \in Request
      BY <2>5 DEF SubmitRefused, IInv, PumpInv, TypeOK, LaneType
    <3>2. QED
      BY <2>5, <3>1 DEF SubmitRefused
  <2>6. ASSUME NEW p \in Peers, NEW noSession \in BOOLEAN,
               PumpTick(p, noSession) \/ SubmitReturns(p, noSession)
        PROVE  UNCHANGED sent \/ \E x : sent' = [sent EXCEPT ![requests + 1] = x]
    BY <2>4, <2>6 DEF PumpTick, SubmitReturns
  <2>7. ASSUME NEW r \in Request, Land(r)
        PROVE  \E q \in Request, v \in {"refused", "stored"} : sent' = [sent EXCEPT ![q].node = v]
    BY <2>7 DEF Land
  <2>8. \/ \E p \in Peers, noSession \in BOOLEAN : PumpTick(p, noSession)
        \/ \E p \in Peers, noSession \in BOOLEAN : SubmitReturns(p, noSession)
        \/ \E p \in Peers : SubmitRefused(p)
        \/ \E r \in Request : Land(r)
        \/ UNCHANGED sent
    BY DEF Next, Enqueue, SubmitTimesOut, OnAck, GraceFires, Expire, Fetch
  <2>9. QED
    BY <2>1, <2>2, <2>3, <2>5, <2>6, <2>7, <2>8
<1>6. QED
  BY <1>1, <1>3, <1>4, <1>5 DEF Grown, Promises!StoreStep

-----------------------------------------------------------------------------
(* A step that hands the node nothing new and takes no message in.         *)
LEMMA QuietStep ==
  ASSUME IInv, OrderInv, SentKept, Grown, UNCHANGED <<arrived, opts, requests>>,
         \A p \in Peers :
           /\ lane'[p].queue \subseteq lane[p].queue
           /\ \A m \in lane[p].queue \ lane'[p].queue : Through(m)'
           /\ lane'[p].current \in {None} \cup Request /\ lane'[p].current <= requests
           /\ lane'[p].current # None => sent[lane'[p].current].peer = p
           /\ Entries(lane'[p].current) \subseteq OnNode
           /\ \/ /\ lane'[p].flight = lane[p].flight
                 /\ lane[p].flight # None => lane'[p].pump = "submit"
              \/ /\ lane'[p].flight = None
                 /\ \A m \in Entries(lane[p].flight) : Through(m)'
  PROVE  OrderInv'
<1>t. TypeOK /\ RequestInv
  BY DEF IInv
<1>o. ArrivedInv /\ OwnInv /\ StatementInv /\ PlacedInv /\ OlderInv
  BY DEF OrderInv
<1>1. \A r \in {None} \cup Request : r <= requests => EntriesNext(r) = Entries(r)
  BY EntriesKept
<1>2. OnNode \subseteq OnNode' /\ \A r \in Request : r <= requests => sent'[r].peer = sent[r].peer
  BY DEF Grown
<1>3. ArrivedInv'
  BY <1>o, <1>2 DEF ArrivedInv, Grown
<1>4. OwnInv'
  <2> SUFFICES ASSUME NEW p \in Peers
      PROVE  /\ \A m \in lane'[p].queue : m <= arrived' /\ opts'[m].peer = p
             /\ \A m, k \in lane'[p].queue : m \notin opts'[k].supersedes
             /\ lane'[p].current # None => sent'[lane'[p].current].peer = p
             /\ lane'[p].flight # None => lane'[p].pump = "submit" /\ sent'[lane'[p].flight].peer = p
             /\ EntriesNext(lane'[p].current) \subseteq OnNode'
    BY DEF OwnInv, Entries, EntriesNext
  <2>1. /\ \A m \in lane'[p].queue : m <= arrived' /\ opts'[m].peer = p
        /\ \A m, k \in lane'[p].queue : m \notin opts'[k].supersedes
    BY <1>o DEF OwnInv
  <2>2. lane'[p].current # None => sent'[lane'[p].current].peer = p
    BY <1>2
  <2>3. lane[p].flight \in {None} \cup Request /\ lane[p].flight <= requests
    BY <1>t DEF TypeOK, LaneType, RequestInv
  <2>4. lane'[p].flight # None => lane'[p].pump = "submit" /\ sent'[lane'[p].flight].peer = p
    BY <1>o, <1>2, <2>3 DEF OwnInv
  <2>5. EntriesNext(lane'[p].current) \subseteq OnNode'
    BY <1>1, <1>2
  <2>6. QED
    BY <2>1, <2>2, <2>4, <2>5
<1>5. StatementInv'
  <2> SUFFICES ASSUME NEW r \in Request, r <= requests'
      PROVE  /\ \A m \in sent'[r].entries : m <= arrived' /\ opts'[m].peer = sent'[r].peer
             /\ EntriesNext(sent'[r].base) \subseteq OnNode'
    BY DEF StatementInv, Entries, EntriesNext
  <2>1. sent'[r].entries = sent[r].entries /\ sent'[r].base = sent[r].base
    BY DEF SentKept
  <2>2. sent[r].base \in {None} \cup Request /\ sent[r].base <= requests
    BY <1>t DEF TypeOK, RequestInv
  <2>3. QED
    BY <1>o, <1>1, <1>2, <2>1, <2>2 DEF StatementInv
<1>6. PlacedInv'
  <2> SUFFICES ASSUME NEW m \in Msg, m <= arrived', NEW l, l = lane'[opts'[m].peer]
      PROVE  m \in l.queue \/ m \in EntriesNext(l.flight) \/ Through(m)'
    BY DEF PlacedInv, Through, Entries, EntriesNext
  <2> DEFINE o == lane[opts[m].peer]
  <2>1. opts[m].peer \in Peers
    BY <1>t DEF TypeOK
  <2>2. o.flight \in {None} \cup Request /\ o.flight <= requests
    BY <1>t, <2>1 DEF TypeOK, LaneType, RequestInv
  <2>3. m \in o.queue \/ m \in Entries(o.flight) \/ Through(m)
    BY <1>o DEF PlacedInv
  <2>4. Through(m) => Through(m)'
    BY ThroughStays
  <2>5. m \in o.queue => m \in l.queue \/ Through(m)'
    BY <2>1
  <2>6. m \in Entries(o.flight) => m \in EntriesNext(l.flight) \/ Through(m)'
    BY <1>1, <2>1, <2>2
  <2>7. QED
    BY <2>3, <2>4, <2>5, <2>6
<1>7. OlderInv'
  <2> SUFFICES ASSUME NEW r \in Request, r <= requests', NEW b \in sent'[r].entries, NEW a \in Msg,
                      a < b, opts'[a].peer = sent'[r].peer
      PROVE  \/ Through(a)'
             \/ a \in sent'[r].entries /\ lane'[sent'[r].peer].flight = r
    BY DEF OlderInv, Through
  <2>1. sent'[r].entries = sent[r].entries /\ sent'[r].peer = sent[r].peer
    BY <1>2 DEF SentKept
  <2>2. b \in Msg /\ b <= arrived /\ a <= arrived /\ sent[r].peer \in Peers
    BY <1>t, <1>o, <2>1 DEF StatementInv, TypeOK, Msg
  <2>3. Through(a) \/ (a \in sent[r].entries /\ lane[sent[r].peer].flight = r)
    BY <1>o, <2>1 DEF OlderInv
  <2>4. Through(a) => Through(a)'
    BY <2>2, ThroughStays
  <2>5. CASE a \in sent[r].entries /\ lane[sent[r].peer].flight = r
    <3>1. Entries(r) = sent[r].entries
      BY DEF Entries, Request, None
    <3>2. QED
      BY <2>1, <2>2, <2>5, <3>1
  <2>6. QED
    BY <2>3, <2>4, <2>5
<1>8. QED
  BY <1>3, <1>4, <1>5, <1>6, <1>7 DEF OrderInv
-----------------------------------------------------------------------------
(* The queue holds no message older than one packBatch takes: it is taken  *)
(* too, or rejected, and what is taken is in the batch.                    *)
LEMMA PackInOrder ==
  ASSUME NEW l, l.queue \subseteq Msg, \A m, k \in l.queue : m \notin opts[k].supersedes,
         NEW noSession \in BOOLEAN,
         NEW b \in Pack(l, noSession).taken, NEW a \in l.queue, a < b
  PROVE  a \in Pack(l, noSession).entries \/ a \in Pack(l, noSession).rejected
<1> DEFINE base    == Entries(l.current)
           prefix  == FlaggedPrefix(l)
           reached == Reached(base, prefix)
<1>1. ~noSession
  BY DEF Pack
<1>2. /\ Pack(l, noSession).taken = {m \in reached : Fits(Candidate(base, prefix, m))}
      /\ Pack(l, noSession).rejected = {m \in reached : NeverFits(base, prefix, m)}
      /\ Pack(l, noSession).entries = Batch(base, Pack(l, noSession).taken)
  BY <1>1 DEF Pack
<1>3. b \in reached /\ reached \subseteq prefix /\ prefix \subseteq l.queue
  BY <1>2 DEF Reached, FlaggedPrefix
<1>4. a \in prefix
  BY <1>3 DEF FlaggedPrefix, Msg
<1>5. Fits(Candidate(base, prefix, a)) \/ NeverFits(base, prefix, a)
  BY <1>3, <1>4 DEF Reached
<1>6. a \in reached
  BY <1>3, <1>4 DEF Reached, Msg
<1>7. CASE NeverFits(base, prefix, a)
  BY <1>2, <1>6, <1>7
<1>8. CASE Fits(Candidate(base, prefix, a))
  <2>1. a \in Pack(l, noSession).taken /\ Pack(l, noSession).taken \subseteq l.queue
    BY <1>2, <1>3, <1>6, <1>8
  <2>2. QED
    BY <1>2, <2>1 DEF Batch
<1>9. QED
  BY <1>5, <1>7, <1>8

(* The same for the batch as a whole.                                      *)
LEMMA PackTakes ==
  ASSUME NEW l, \A m, k \in l.queue : m \notin opts[k].supersedes, NEW noSession \in BOOLEAN
  PROVE  Pack(l, noSession).taken \subseteq Pack(l, noSession).entries
<1>1. CASE noSession
  BY <1>1 DEF Pack
<1>2. CASE ~noSession
  <2>1. Pack(l, noSession).entries = Batch(Entries(l.current), Pack(l, noSession).taken)
    BY <1>2 DEF Pack
  <2>2. Pack(l, noSession).taken \subseteq l.queue
    BY PackFacts
  <2>3. QED
    BY <2>1, <2>2 DEF Batch
<1>3. QED
  BY <1>1, <1>2

(* The pump's loop, from a lane record that keeps the queue, and promises  *)
(* of which more may have failed.                                          *)
LEMMA PumpLoopOrder ==
  ASSUME ConstantsAssumption, IInv, OrderInv, SentKept, Grown, NEW p \in Peers,
         NEW l \in LaneType, l.queue = lane[p].queue, l.current <= requests,
         l.current # None => sent[l.current].peer = p,
         Entries(l.current) \subseteq OnNode,
         Entries(lane[p].flight) \subseteq OnNode,
         NEW sub, NEW del \in [Msg -> DeliveredValue],
         \A m \in Msg : del[m] = delivered[m] \/ del[m] = "false",
         NEW noSession \in BOOLEAN, PumpLoop(p, l, sub, del, noSession),
         UNCHANGED <<arrived, opts>>
  PROVE  OrderInv'
<1> DEFINE b    == Pack(l, noSession)
           left == [l EXCEPT !.queue = @ \ (b.taken \cup b.rejected)]
           q    == requests + 1
<1>t. TypeOK /\ RequestInv /\ lane \in [Peers -> LaneType]
  BY DEF IInv, TypeOK
<1>o. ArrivedInv /\ OwnInv /\ StatementInv /\ PlacedInv /\ OlderInv
  BY DEF OrderInv
<1>1. OnNode \subseteq OnNode'
  BY DEF Grown
<1>2. \A m \in Msg : m \in b.rejected /\ m <= arrived /\ delivered' = Settle(del, b.rejected, "false")
                       => Through(m)'
  BY <1>t, <1>o, SettleValue, FailedIsThrough
<1>3. /\ l.queue \subseteq Msg
      /\ \A m \in l.queue : m <= arrived /\ opts[m].peer = p
      /\ \A m, k \in l.queue : m \notin opts[k].supersedes
  BY <1>t, <1>o DEF OwnInv, LaneType
<1>4. /\ b.taken \subseteq l.queue /\ b.rejected \subseteq l.queue
      /\ b.entries \subseteq Entries(l.current) \cup b.taken
  BY PackFacts
<1>5. left \in LaneType /\ left.current = l.current /\ left.queue = l.queue \ (b.taken \cup b.rejected)
  BY DEF LaneType
<1> HIDE DEF b, left
<1>6. CASE /\ UNCHANGED <<requests, sent>>
           /\ \/ /\ lane' = [lane EXCEPT ![p] = Halt(l)] \/ lane' = [lane EXCEPT ![p] = Halt(ArmGrace(l))]
              \/ /\ lane' = [lane EXCEPT ![p] = Halt(ArmGrace(left))]
                 /\ b.taken = {} /\ delivered' = Settle(del, b.rejected, "false")
  <2>1. PICK k \in {l, left} : /\ \/ k = l
                                  \/ k = left /\ b.taken = {} /\ delivered' = Settle(del, b.rejected, "false")
                               /\ lane'[p] \in {Halt(k), Halt(ArmGrace(k))}
                               /\ \A o \in Peers \ {p} : lane'[o] = lane[o]
    BY <1>t, <1>6
  <2>2. k \in LaneType /\ k.current = l.current
    BY <1>5
  <2>3. lane'[p].current = l.current /\ lane'[p].queue = k.queue /\ lane'[p].flight = None
    BY <2>1, <2>2, HaltFacts
  <2>4. \A m \in lane[p].queue \ lane'[p].queue : Through(m)'
    BY <1>2, <1>3, <1>5, <2>1, <2>3
  <2>5. \A m \in Entries(lane[p].flight) : Through(m)'
    BY <1>1 DEF Through
  <2>6. lane'[p].queue \subseteq lane[p].queue
    BY <1>5, <2>1, <2>3
  <2>7. l.current \in {None} \cup Request
    BY DEF LaneType
  <2>8. ASSUME NEW o \in Peers
        PROVE  /\ lane'[o].queue \subseteq lane[o].queue
               /\ \A m \in lane[o].queue \ lane'[o].queue : Through(m)'
               /\ lane'[o].current \in {None} \cup Request /\ lane'[o].current <= requests
               /\ lane'[o].current # None => sent[lane'[o].current].peer = o
               /\ Entries(lane'[o].current) \subseteq OnNode
               /\ \/ /\ lane'[o].flight = lane[o].flight
                     /\ lane[o].flight # None => lane'[o].pump = "submit"
                  \/ /\ lane'[o].flight = None
                     /\ \A m \in Entries(lane[o].flight) : Through(m)'
    <3>1. CASE o = p
      BY <2>3, <2>4, <2>5, <2>6, <2>7, <3>1
    <3>2. CASE o # p
      <4>1. lane'[o] = lane[o] /\ lane[o].current \in {None} \cup Request /\ lane[o].current <= requests
        BY <1>t, <2>1, <3>2 DEF RequestInv, LaneType
      <4>2. QED
        BY <1>o, <4>1 DEF OwnInv
    <3>3. QED
      BY <3>1, <3>2
  <2>9. QED
    BY <1>6, <2>8, QuietStep
<1>7. CASE /\ requests < MaxMsgs
           /\ requests' = q
           /\ sent' = [sent EXCEPT ![q] =
                         [peer |-> p, base |-> l.current,
                          identity |-> \A m \in b.taken : opts[m].identity,
                          entries |-> b.entries, node |-> "sent"]]
           /\ lane' = [lane EXCEPT ![p] = [left EXCEPT !.pump = "submit", !.flight = q]]
           /\ delivered' = Settle(del, b.rejected, "false")
  <2>1. q \in Request /\ requests \in Nat
    BY <1>t, <1>7 DEF TypeOK, Request, ConstantsAssumption
  <2>2. /\ lane'[p].queue = l.queue \ (b.taken \cup b.rejected) /\ lane'[p].current = l.current
        /\ lane'[p].flight = q /\ lane'[p].pump = "submit"
        /\ \A o \in Peers \ {p} : lane'[o] = lane[o]
    BY <1>t, <1>5, <1>7 DEF LaneType
  <2>3. /\ \A r \in Request \ {q} : sent'[r] = sent[r]
        /\ sent'[q].peer = p /\ sent'[q].entries = b.entries /\ sent'[q].base = l.current
    BY <1>t, <1>7, <2>1 DEF TypeOK
  <2>4. \A r \in {None} \cup Request : r <= requests => EntriesNext(r) = Entries(r)
    BY EntriesKept
  <2>5. \A m \in l.queue : m \in b.rejected => Through(m)'
    BY <1>2, <1>3, <1>7
  <2>6. ArrivedInv'
    BY <1>o, <1>1 DEF ArrivedInv, Grown
  <2>7. OwnInv'
    <3> SUFFICES ASSUME NEW o \in Peers
        PROVE  /\ \A m \in lane'[o].queue : m <= arrived' /\ opts'[m].peer = o
               /\ \A m, k \in lane'[o].queue : m \notin opts'[k].supersedes
               /\ lane'[o].current # None => sent'[lane'[o].current].peer = o
               /\ lane'[o].flight # None => lane'[o].pump = "submit" /\ sent'[lane'[o].flight].peer = o
               /\ EntriesNext(lane'[o].current) \subseteq OnNode'
      BY DEF OwnInv, Entries, EntriesNext
    <3>1. CASE o = p
      <4>1. l.current \in {None} \cup Request /\ l.current # q
        BY <2>1 DEF LaneType
      <4>2. QED
        BY <1>1, <1>3, <2>2, <2>3, <2>4, <3>1, <4>1
    <3>2. CASE o # p
      <4>1. /\ lane'[o] = lane[o] /\ lane[o].current \in {None} \cup Request /\ lane[o].current <= requests
            /\ lane[o].flight \in {None} \cup Request /\ lane[o].flight <= requests
        BY <1>t, <2>2, <3>2 DEF RequestInv, LaneType
      <4>2. lane[o].current # q /\ lane[o].flight # q
        BY <2>1, <4>1 DEF Request, None
      <4>3. /\ \A m \in lane[o].queue : m <= arrived /\ opts[m].peer = o
            /\ \A m, k \in lane[o].queue : m \notin opts[k].supersedes
            /\ lane[o].current # None => sent[lane[o].current].peer = o
            /\ lane[o].flight # None => lane[o].pump = "submit" /\ sent[lane[o].flight].peer = o
            /\ Entries(lane[o].current) \subseteq OnNode
        BY <1>o DEF OwnInv
      <4>4. QED
        BY <1>1, <2>3, <2>4, <4>1, <4>2, <4>3
    <3>3. QED
      BY <3>1, <3>2
  <2>8. StatementInv'
    <3> SUFFICES ASSUME NEW r \in Request, r <= requests'
        PROVE  /\ \A m \in sent'[r].entries : m <= arrived' /\ opts'[m].peer = sent'[r].peer
               /\ EntriesNext(sent'[r].base) \subseteq OnNode'
      BY DEF StatementInv, Entries, EntriesNext
    <3>1. CASE r = q
      <4>1. \A m \in Entries(l.current) : m <= arrived /\ opts[m].peer = p
        <5>1. CASE l.current = None
          BY <5>1 DEF Entries
        <5>2. CASE l.current # None
          <6>1. l.current \in Request /\ Entries(l.current) = sent[l.current].entries
            BY <5>2 DEF Entries, LaneType
          <6>2. QED
            BY <1>o, <5>2, <6>1 DEF StatementInv
        <5>3. QED
          BY <5>1, <5>2
      <4>2. l.current \in {None} \cup Request
        BY DEF LaneType
      <4>3. QED
        BY <1>1, <1>3, <1>4, <2>3, <2>4, <3>1, <4>1, <4>2
    <3>2. CASE r # q
      <4>1. sent'[r] = sent[r] /\ r <= requests
        BY <1>7, <2>1, <2>3, <3>2 DEF Request
      <4>2. sent[r].base \in {None} \cup Request /\ sent[r].base <= requests
        BY <1>t DEF TypeOK, RequestInv
      <4>3. QED
        BY <1>o, <1>1, <2>4, <4>1, <4>2 DEF StatementInv
    <3>3. QED
      BY <3>1, <3>2
  <2>9. PlacedInv'
    <3> SUFFICES ASSUME NEW m \in Msg, m <= arrived', NEW o, o = opts'[m].peer
        PROVE  m \in lane'[o].queue \/ m \in EntriesNext(lane'[o].flight) \/ Through(m)'
      BY DEF PlacedInv, Through, Entries, EntriesNext
    <3>1. o \in Peers /\ o = opts[m].peer /\ m <= arrived
      BY <1>t DEF TypeOK
    <3>2. m \in lane[o].queue \/ m \in Entries(lane[o].flight) \/ Through(m)
      BY <1>o, <3>1 DEF PlacedInv
    <3>3. Through(m) => Through(m)'
      BY <3>1, ThroughStays
    <3>4. CASE o = p
      <4>1. m \in Entries(lane[p].flight) => Through(m)'
        BY <1>1 DEF Through
      <4>2. EntriesNext(q) = b.entries
        BY <2>1, <2>3 DEF EntriesNext, Request, None
      <4>3. m \in b.taken => m \in EntriesNext(lane'[p].flight)
        BY <1>3, <2>2, <4>2, PackTakes DEF b
      <4>4. QED
        BY <2>2, <2>5, <3>2, <3>3, <3>4, <4>1, <4>3
    <3>5. CASE o # p
      <4>1. lane'[o] = lane[o] /\ lane[o].flight \in {None} \cup Request /\ lane[o].flight <= requests
        BY <1>t, <2>2, <3>1, <3>5 DEF RequestInv, LaneType
      <4>2. QED
        BY <2>4, <3>2, <3>3, <4>1
    <3>6. QED
      BY <3>4, <3>5
  <2>10. OlderInv'
    <3> SUFFICES ASSUME NEW r \in Request, r <= requests', NEW k \in sent'[r].entries, NEW a \in Msg,
                        a < k, opts'[a].peer = sent'[r].peer
        PROVE  \/ Through(a)'
               \/ a \in sent'[r].entries /\ lane'[sent'[r].peer].flight = r
      BY DEF OlderInv, Through
    <3>1. CASE r = q
      <4>1. opts[a].peer = p /\ k \in b.entries
        BY <2>3, <3>1
      <4>2. CASE k \in Entries(l.current)
        <5>1. l.current \in Request /\ k \in sent[l.current].entries /\ sent[l.current].peer = p
          BY <4>2 DEF Entries, LaneType
        <5>2. /\ k \in Msg /\ k <= arrived /\ a <= arrived
              /\ Through(a) \/ a \in Entries(l.current)
          BY <1>t, <1>o, <4>1, <5>1 DEF OlderInv, StatementInv, TypeOK, Msg, Entries, None, Request
        <5>3. Through(a)
          BY <5>2 DEF Through
        <5>4. QED
          BY <5>2, <5>3, ThroughStays
      <4>3. CASE k \in b.taken
        <5>1. k \in l.queue /\ k \in Msg /\ k <= arrived /\ a <= arrived
          BY <1>t, <1>3, <1>4, <4>3 DEF Msg, TypeOK
        <5>2. a \in lane[p].queue \/ a \in Entries(lane[p].flight) \/ Through(a)
          BY <1>o, <4>1, <5>1 DEF PlacedInv
        <5>3. CASE a \in lane[p].queue
          <6>1. a \in b.entries \/ a \in b.rejected
            BY <1>3, <4>3, <5>1, <5>3, PackInOrder DEF b
          <6>2. a \in b.rejected => Through(a)'
            BY <2>5, <5>3
          <6>3. QED
            BY <2>2, <2>3, <3>1, <6>1, <6>2
        <5>4. CASE a \in Entries(lane[p].flight)
          BY <1>1, <5>4 DEF Through
        <5>5. CASE Through(a)
          BY <5>1, <5>5, ThroughStays
        <5>6. QED
          BY <5>2, <5>3, <5>4, <5>5
      <4>4. QED
        BY <1>4, <4>1, <4>2, <4>3
    <3>2. CASE r # q
      <4>1. sent'[r] = sent[r] /\ r <= requests /\ sent[r].peer \in Peers
        BY <1>t, <1>7, <2>1, <2>3, <3>2 DEF Request, TypeOK
      <4>2. k \in Msg /\ k <= arrived /\ a <= arrived
        BY <1>t, <1>o, <4>1 DEF StatementInv, TypeOK, Msg
      <4>3. Through(a) \/ (a \in sent[r].entries /\ lane[sent[r].peer].flight = r)
        BY <1>o, <4>1 DEF OlderInv
      <4>4. CASE Through(a)
        BY <4>2, <4>4, ThroughStays
      <4>5. CASE a \in sent[r].entries /\ lane[sent[r].peer].flight = r
        <5>1. CASE sent[r].peer = p
          <6>1. a \in Entries(lane[p].flight)
            BY <4>5, <5>1 DEF Entries, Request, None
          <6>2. QED
            BY <1>1, <6>1 DEF Through
        <5>2. CASE sent[r].peer # p
          BY <2>2, <4>1, <4>5, <5>2
        <5>3. QED
          BY <5>1, <5>2
      <4>6. QED
        BY <4>3, <4>4, <4>5
    <3>3. QED
      BY <3>1, <3>2
  <2>11. QED
    BY <2>6, <2>7, <2>8, <2>9, <2>10 DEF OrderInv
<1>8. QED
  BY <1>6, <1>7 DEF PumpLoop, b, left
-----------------------------------------------------------------------------
LEMMA EnqueueOrder ==
  ASSUME ConstantsAssumption, IInv, OrderInv, SentKept, Grown,
         NEW p \in Peers, NEW identity \in BOOLEAN, NEW oversize \in BOOLEAN,
         NEW s \in Superseded(p), Enqueue(p, identity, oversize, s)
  PROVE  OrderInv'
<1> DEFINE n       == arrived + 1
           dropped == lane[p].queue \cap s
           kept    == [lane[p] EXCEPT !.queue = @ \ dropped]
           more    == [kept EXCEPT !.queue = @ \cup {n}]
           full    == Cardinality(kept.queue) >= MaxQueued
<1>t. TypeOK /\ RequestInv /\ lane \in [Peers -> LaneType] /\ arrived \in Nat
  BY DEF IInv, TypeOK
<1>o. ArrivedInv /\ OwnInv /\ StatementInv /\ PlacedInv /\ OlderInv
  BY DEF OrderInv
<1>1. n \in Msg /\ arrived' = n /\ UNCHANGED <<requests, sent>>
  BY <1>t, ConstantsAssumption DEF Enqueue, Msg, ConstantsAssumption
<1>2. /\ \A m \in Msg \ {n} : opts'[m] = opts[m]
      /\ opts'[n].peer = p /\ opts'[n].supersedes = s
      /\ \A k \in s : k <= arrived
  BY <1>t, <1>1 DEF Enqueue, TypeOK, Superseded
<1>3. \A m \in Msg : m <= n => m = n \/ m <= arrived
  BY <1>t DEF Msg
<1>4. \A m \in Msg : m <= arrived => m # n
  BY <1>t DEF Msg
<1>5. delivered'[n] \in {"pending", "false"} /\ (full => delivered'[n] = "false")
  BY <1>1 DEF Enqueue, Settle
<1>6. \A m \in dropped : Through(m)'
  <2>1. \A m \in dropped : m \in Msg /\ m <= arrived /\ m # n
    BY <1>t, <1>o, <1>4 DEF OwnInv, TypeOK, LaneType
  <2>2. \A m \in dropped : delivered'[m] = Settle(delivered, dropped, "false")[m]
    BY <2>1 DEF Enqueue, Settle
  <2>3. QED
    BY <1>t, <1>o, <2>1, <2>2, SettleValue, FailedIsThrough
<1>7. /\ \A o \in Peers \ {p} : lane'[o] = lane[o]
      /\ lane'[p].current = lane[p].current /\ lane'[p].flight = lane[p].flight
      /\ lane[p].pump = "submit" => lane'[p].pump = "submit"
      /\ lane'[p].queue = (lane[p].queue \ dropped) \cup (IF full THEN {} ELSE {n})
  <2>1. kept \in LaneType /\ more \in LaneType
    BY <1>1, <1>t DEF LaneType
  <2>2. /\ CallPump(more).current = more.current /\ CallPump(more).flight = more.flight
        /\ CallPump(more).queue = more.queue
        /\ more.pump = "submit" => CallPump(more).pump = "submit"
    BY <2>1, CallPumpFacts DEF CallPump
  <2>3. lane' = [lane EXCEPT ![p] = IF full THEN kept ELSE CallPump(more)]
    BY DEF Enqueue
  <2>4. /\ kept.current = lane[p].current /\ kept.flight = lane[p].flight
        /\ more.current = lane[p].current /\ more.flight = lane[p].flight
        /\ kept.pump = lane[p].pump /\ more.pump = lane[p].pump
        /\ kept.queue = lane[p].queue \ dropped /\ more.queue = kept.queue \cup {n}
    BY <1>t DEF LaneType
  <2>5. lane'[p] = (IF full THEN kept ELSE CallPump(more)) /\ \A o \in Peers \ {p} : lane'[o] = lane[o]
    BY <1>t, <2>3
  <2> HIDE DEF kept, more, full, dropped
  <2>6. QED
    BY <2>2, <2>4, <2>5
<1> HIDE DEF kept, more, full
<1>8. OnNode \subseteq OnNode' /\ \A r \in {None} \cup Request : r <= requests => EntriesNext(r) = Entries(r)
  BY EntriesKept DEF Grown
<1>9. \A o \in Peers : /\ lane'[o].current = lane[o].current /\ lane'[o].flight = lane[o].flight
                       /\ lane[o].pump = "submit" => lane'[o].pump = "submit"
                       /\ lane[o].current \in {None} \cup Request /\ lane[o].current <= requests
                       /\ lane[o].flight \in {None} \cup Request /\ lane[o].flight <= requests
  BY <1>t, <1>7 DEF RequestInv, LaneType
<1>10. ArrivedInv'
  <2> SUFFICES ASSUME NEW m \in Msg, m <= arrived'
      PROVE  /\ delivered'[m] # "none"
             /\ delivered'[m] = "true" => m \in OnNode'
             /\ \A k \in opts'[m].supersedes : k < m
    BY DEF ArrivedInv
  <2>1. CASE m = n
    <3>1. \A k \in s : k < n
      BY <1>t, <1>2 DEF Superseded, Msg
    <3>2. QED
      BY <1>2, <1>5, <2>1, <3>1
  <2>2. CASE m <= arrived
    BY <1>o, <1>2, <1>4, <1>8, <2>2 DEF ArrivedInv, Grown
  <2>3. QED
    BY <1>1, <1>3, <2>1, <2>2
<1>11. OwnInv'
  <2> SUFFICES ASSUME NEW o \in Peers
      PROVE  /\ \A m \in lane'[o].queue : m <= arrived' /\ opts'[m].peer = o
             /\ \A m, k \in lane'[o].queue : m \notin opts'[k].supersedes
             /\ lane'[o].current # None => sent'[lane'[o].current].peer = o
             /\ lane'[o].flight # None => lane'[o].pump = "submit" /\ sent'[lane'[o].flight].peer = o
             /\ EntriesNext(lane'[o].current) \subseteq OnNode'
    BY DEF OwnInv, Entries, EntriesNext
  <2>1. /\ lane[o].queue \subseteq Msg
        /\ \A m \in lane[o].queue : m <= arrived /\ opts[m].peer = o /\ m # n
        /\ \A m, k \in lane[o].queue : m \notin opts[k].supersedes
        /\ lane[o].current # None => sent[lane[o].current].peer = o
        /\ lane[o].flight # None => lane[o].pump = "submit" /\ sent[lane[o].flight].peer = o
        /\ Entries(lane[o].current) \subseteq OnNode
    BY <1>t, <1>o, <1>4 DEF OwnInv, LaneType
  <2>2. \A m \in lane[o].queue : m <= arrived' /\ opts'[m].peer = o /\ opts'[m].supersedes = opts[m].supersedes
    BY <1>t, <1>1, <1>2, <2>1 DEF Msg
  <2>3. \A k \in lane[o].queue : n \notin opts[k].supersedes
    BY <1>t, <1>o, <2>1 DEF ArrivedInv, Msg
  <2>4. n \notin s /\ n <= arrived'
    BY <1>t, <1>1, <1>2
  <2>5. CASE o = p
    <3>1. \A m \in lane'[o].queue : m = n \/ (m \in lane[o].queue /\ m \notin s)
      BY <1>7, <2>5
    <3>2. QED
      BY <1>1, <1>2, <1>8, <1>9, <2>1, <2>2, <2>3, <2>4, <2>5, <3>1
  <2>6. CASE o # p
    BY <1>1, <1>7, <1>8, <1>9, <2>1, <2>2, <2>6
  <2>7. QED
    BY <2>5, <2>6
<1>12. StatementInv'
  <2> SUFFICES ASSUME NEW r \in Request, r <= requests'
      PROVE  /\ \A m \in sent'[r].entries : m <= arrived' /\ opts'[m].peer = sent'[r].peer
             /\ EntriesNext(sent'[r].base) \subseteq OnNode'
    BY DEF StatementInv, Entries, EntriesNext
  <2>1. sent[r].base \in {None} \cup Request /\ sent[r].base <= requests /\ sent[r].entries \subseteq Msg
    BY <1>t DEF TypeOK, RequestInv
  <2>2. \A m \in sent[r].entries : m <= arrived /\ opts[m].peer = sent[r].peer /\ m # n
    BY <1>o, <1>1, <1>4, <2>1 DEF StatementInv
  <2>3. \A m \in sent[r].entries : m <= arrived' /\ opts'[m].peer = sent[r].peer
    BY <1>t, <1>1, <1>2, <2>1, <2>2 DEF Msg
  <2>4. QED
    BY <1>o, <1>1, <1>8, <2>1, <2>3 DEF StatementInv
<1>13. PlacedInv'
  <2> SUFFICES ASSUME NEW m \in Msg, m <= arrived', NEW o, o = opts'[m].peer
      PROVE  m \in lane'[o].queue \/ m \in EntriesNext(lane'[o].flight) \/ Through(m)'
    BY DEF PlacedInv, Through, Entries, EntriesNext
  <2>1. CASE m = n
    BY <1>2, <1>5, <1>7, <2>1 DEF Through
  <2>2. CASE m <= arrived
    <3>1. o = opts[m].peer /\ o \in Peers
      BY <1>t, <1>2, <1>4, <2>2 DEF TypeOK
    <3>2. m \in lane[o].queue \/ m \in Entries(lane[o].flight) \/ Through(m)
      BY <1>o, <2>2, <3>1 DEF PlacedInv
    <3>3. Through(m) => Through(m)'
      BY <2>2, ThroughStays
    <3>4. m \in lane[o].queue => m \in lane'[o].queue \/ Through(m)'
      BY <1>6, <1>7, <3>1
    <3>5. QED
      BY <1>8, <1>9, <3>1, <3>2, <3>3, <3>4
  <2>3. QED
    BY <1>1, <1>3, <2>1, <2>2
<1>14. OlderInv'
  <2> SUFFICES ASSUME NEW r \in Request, r <= requests', NEW b \in sent'[r].entries, NEW a \in Msg,
                      a < b, opts'[a].peer = sent'[r].peer
      PROVE  \/ Through(a)'
             \/ a \in sent'[r].entries /\ lane'[sent'[r].peer].flight = r
    BY DEF OlderInv, Through
  <2>1. b \in Msg /\ b <= arrived /\ a <= arrived /\ sent[r].peer \in Peers
    BY <1>t, <1>o, <1>1 DEF StatementInv, TypeOK, Msg
  <2>2. opts[a].peer = sent[r].peer
    BY <1>1, <1>2, <1>4, <2>1
  <2>3. Through(a) \/ (a \in sent[r].entries /\ lane[sent[r].peer].flight = r)
    BY <1>o, <1>1, <2>2 DEF OlderInv
  <2>4. QED
    BY <1>1, <1>9, <2>1, <2>3, ThroughStays
<1>15. QED
  BY <1>10, <1>11, <1>12, <1>13, <1>14 DEF OrderInv

LEMMA PumpTickOrder ==
  ASSUME ConstantsAssumption, IInv, OrderInv, SentKept, Grown,
         NEW p \in Peers, NEW noSession \in BOOLEAN, PumpTick(p, noSession)
  PROVE  OrderInv'
<1>1. lane[p] \in LaneType /\ lane[p].current <= requests /\ delivered \in [Msg -> DeliveredValue]
  BY DEF IInv, TypeOK, RequestInv, DeliveredValue
<1>2. /\ lane[p].current # None => sent[lane[p].current].peer = p
      /\ Entries(lane[p].current) \subseteq OnNode
      /\ lane[p].flight = None
  BY DEF OrderInv, OwnInv, PumpTick
<1>3. Entries(lane[p].flight) = {}
  BY <1>2 DEF Entries
<1>4. PumpLoop(p, lane[p], submitted, delivered, noSession) /\ UNCHANGED <<arrived, opts>>
  BY DEF PumpTick
<1>5. QED
  BY <1>1, <1>2, <1>3, <1>4, PumpLoopOrder

LEMMA SubmitReturnsOrder ==
  ASSUME ConstantsAssumption, IInv, OrderInv, SentKept, Grown,
         NEW p \in Peers, NEW noSession \in BOOLEAN, SubmitReturns(p, noSession)
  PROVE  OrderInv'
<1> DEFINE r    == lane[p].flight
           sub  == Settle(submitted, NewIn(r), "ok")
           del  == Settle(delivered, DroppedIn(r), "false")
           next == [lane[p] EXCEPT !.current = r, !.timer = FALSE, !.flight = None,
                      !.extensions = IF sent[r].base = None THEN 0 ELSE @ + 1]
           last == Halt([lane[p] EXCEPT !.timer = FALSE])
<1>t. TypeOK /\ PumpInv /\ RequestInv /\ lane[p] \in LaneType /\ lane \in [Peers -> LaneType]
  BY DEF IInv, TypeOK
<1>o. OwnInv
  BY DEF OrderInv
<1>1. /\ r \in Request /\ r <= requests /\ r # None
      /\ sent[r].node = "stored" /\ lane[p].pump = "submit"
  BY <1>t DEF SubmitReturns, PumpInv, RequestInv, LaneType
<1>2. Entries(r) \subseteq OnNode /\ sent[r].peer = p
  BY <1>o, <1>1 DEF Entries, OnNode, OwnInv
<1>3. /\ del \in [Msg -> DeliveredValue]
      /\ \A m \in Msg : del[m] = delivered[m] \/ del[m] = "false"
  BY <1>t, SettlesTyped, SettleValue DEF DeliveredValue
<1>4. UNCHANGED <<arrived, opts>>
  BY DEF SubmitReturns
<1>5. CASE /\ sent[r].base = None \/ lane[p].current # None
           /\ PumpLoop(p, next, sub, del, noSession)
  <2>1. next.extensions \in 0 .. MaxExtensions
    BY <1>t, <1>1, <1>5, ConstantsAssumption DEF PumpInv, LaneType, ConstantsAssumption
  <2>2. next \in LaneType /\ next.current = r /\ next.queue = lane[p].queue
    BY <1>t, <1>1, <2>1 DEF LaneType
  <2> HIDE DEF next, sub, del
  <2>3. QED
    BY <1>1, <1>2, <1>3, <1>4, <1>5, <2>2, PumpLoopOrder
<1>6. CASE /\ lane' = [lane EXCEPT ![p] = last] /\ UNCHANGED <<requests, sent>>
  <2>1. [lane[p] EXCEPT !.timer = FALSE] \in LaneType
    BY <1>t DEF LaneType
  <2>2. last.current = lane[p].current /\ last.queue = lane[p].queue /\ last.flight = None
    BY <1>t, <2>1, HaltFacts DEF LaneType
  <2> HIDE DEF last
  <2>3. \A m \in Entries(r) : Through(m)'
    BY <1>2 DEF Grown, Through
  <2>4. ASSUME NEW o \in Peers
        PROVE  /\ lane'[o].queue = lane[o].queue /\ lane'[o].current = lane[o].current
               /\ \/ lane'[o] = lane[o]
                  \/ o = p /\ lane'[o].flight = None
    BY <1>t, <1>6, <2>2
  <2>5. ASSUME NEW o \in Peers
        PROVE  /\ lane[o].current \in {None} \cup Request /\ lane[o].current <= requests
               /\ lane[o].current # None => sent[lane[o].current].peer = o
               /\ Entries(lane[o].current) \subseteq OnNode
               /\ lane[o].flight # None => lane[o].pump = "submit"
    BY <1>t, <1>o DEF OwnInv, RequestInv, LaneType
  <2>6. QED
    BY <1>4, <1>6, <2>3, <2>4, <2>5, QuietStep
<1>7. QED
  BY <1>5, <1>6 DEF SubmitReturns

LEMMA SubmitThrowsOrder ==
  ASSUME ConstantsAssumption, IInv, OrderInv, SentKept, Grown,
         NEW p \in Peers, SubmitThrows(p), lane[p].pump = "submit"
  PROVE  OrderInv'
<1> DEFINE r == lane[p].flight
<1>t. TypeOK /\ PumpInv /\ RequestInv /\ lane[p] \in LaneType /\ lane \in [Peers -> LaneType]
  BY DEF IInv, TypeOK
<1>o. ArrivedInv /\ OwnInv /\ StatementInv
  BY DEF OrderInv
<1>1. r \in Request /\ r <= requests /\ r # None
  BY <1>t DEF PumpInv, RequestInv, LaneType
<1>2. UNCHANGED <<arrived, opts, requests>> /\ delivered' = Settle(delivered, NewIn(r), "false")
  BY DEF SubmitThrows
<1>3. \A m \in Entries(r) : Through(m)'
  <2>1. \A m \in Entries(r) : m \in Msg /\ m <= arrived
    BY <1>t, <1>o, <1>1 DEF Entries, StatementInv, TypeOK
  <2>2. \A m \in NewIn(r) : Through(m)'
    BY <1>t, <1>o, <1>2, <2>1, SettleValue, FailedIsThrough DEF NewIn
  <2>3. \A m \in Entries(sent[r].base) : Through(m)'
    BY <1>o, <1>1 DEF StatementInv, Grown, Through
  <2>4. QED
    BY <2>2, <2>3 DEF NewIn
<1>4. ASSUME NEW o \in Peers
      PROVE  /\ lane'[o].queue = lane[o].queue /\ lane'[o].current = lane[o].current
             /\ \/ lane'[o] = lane[o]
                \/ o = p /\ lane'[o].flight = None
  BY <1>t, HaltFacts DEF SubmitThrows
<1>5. ASSUME NEW o \in Peers
      PROVE  /\ lane[o].current \in {None} \cup Request /\ lane[o].current <= requests
             /\ lane[o].current # None => sent[lane[o].current].peer = o
             /\ Entries(lane[o].current) \subseteq OnNode
             /\ lane[o].flight # None => lane[o].pump = "submit"
  BY <1>t, <1>o DEF OwnInv, RequestInv, LaneType
<1>6. QED
  BY <1>2, <1>3, <1>4, <1>5, QuietStep

(* ACKs, the grace timer and expiry leave the statement being submitted.   *)
LEMMA FreeingOrder ==
  ASSUME ConstantsAssumption, IInv, OrderInv, SentKept, Grown, UNCHANGED <<arrived, opts, requests>>,
         NEW p \in Peers, \A o \in Peers \ {p} : lane'[o] = lane[o],
         lane'[p].queue \subseteq lane[p].queue,
         \A m \in lane[p].queue \ lane'[p].queue : Through(m)',
         lane'[p].current \in {None, lane[p].current},
         lane'[p].flight = lane[p].flight,
         lane[p].pump = "submit" => lane'[p].pump = "submit"
  PROVE  OrderInv'
<1>1. OwnInv
  BY DEF OrderInv
<1>2. ASSUME NEW o \in Peers
      PROVE  /\ lane[o].current \in {None} \cup Request /\ lane[o].current <= requests
             /\ lane[o].current # None => sent[lane[o].current].peer = o
             /\ Entries(lane[o].current) \subseteq OnNode
             /\ lane[o].flight # None => lane[o].pump = "submit"
  BY <1>1 DEF OwnInv, IInv, TypeOK, RequestInv, LaneType
<1>3. None <= requests /\ Entries(None) = {}
  BY DEF None, IInv, TypeOK, Entries
<1>4. ASSUME NEW o \in Peers
      PROVE  /\ lane'[o].queue \subseteq lane[o].queue
             /\ \A m \in lane[o].queue \ lane'[o].queue : Through(m)'
             /\ lane'[o].current \in {None, lane[o].current}
             /\ lane'[o].flight = lane[o].flight
             /\ lane[o].pump = "submit" => lane'[o].pump = "submit"
  OBVIOUS
<1>5. QED
  BY <1>2, <1>3, <1>4, QuietStep

LEMMA OnAckOrder ==
  ASSUME ConstantsAssumption, IInv, OrderInv, SentKept, Grown,
         NEW p \in Peers, NEW r \in Request, OnAck(p, r)
  PROVE  OrderInv'
<1> DEFINE free == [lane[p] EXCEPT !.current = None, !.extensions = 0, !.timer = FALSE]
<1>1. lane[p] \in LaneType /\ lane \in [Peers -> LaneType] /\ 0 \in 0 .. MaxExtensions
  BY ConstantsAssumption DEF ConstantsAssumption, IInv, TypeOK
<1>2. /\ free \in LaneType /\ free.current = None /\ free.queue = lane[p].queue
      /\ free.flight = lane[p].flight /\ free.pump = lane[p].pump
  BY <1>1 DEF LaneType
<1>3. lane' = [lane EXCEPT ![p] = CallPump(free)] /\ UNCHANGED <<arrived, opts, requests>>
  BY DEF OnAck
<1> HIDE DEF free
<1>4. free.pump = "submit" => CallPump(free).pump = "submit"
  BY <1>2 DEF CallPump
<1>5. QED
  BY <1>1, <1>2, <1>3, <1>4, CallPumpFacts, FreeingOrder

LEMMA GraceFiresOrder ==
  ASSUME ConstantsAssumption, IInv, OrderInv, SentKept, Grown, NEW p \in Peers, GraceFires(p)
  PROVE  OrderInv'
<1> DEFINE off  == [lane[p] EXCEPT !.timer = FALSE]
           free == [lane[p] EXCEPT !.current = None, !.extensions = 0, !.timer = FALSE]
<1>1. lane[p] \in LaneType /\ lane \in [Peers -> LaneType] /\ 0 \in 0 .. MaxExtensions
  BY ConstantsAssumption DEF ConstantsAssumption, IInv, TypeOK
<1>2. /\ free \in LaneType /\ free.current = None /\ free.queue = lane[p].queue
      /\ free.flight = lane[p].flight /\ free.pump = lane[p].pump
      /\ off.current = lane[p].current /\ off.queue = lane[p].queue
      /\ off.flight = lane[p].flight /\ off.pump = lane[p].pump
  BY <1>1 DEF LaneType
<1>3. /\ lane' = [lane EXCEPT ![p] = CallPump(free)] \/ lane' = [lane EXCEPT ![p] = off]
      /\ UNCHANGED <<arrived, opts, requests>>
  BY DEF GraceFires
<1> HIDE DEF free, off
<1>4. free.pump = "submit" => CallPump(free).pump = "submit"
  BY <1>2 DEF CallPump
<1>5. QED
  BY <1>1, <1>2, <1>3, <1>4, CallPumpFacts, FreeingOrder

LEMMA ExpireOrder ==
  ASSUME ConstantsAssumption, IInv, OrderInv, SentKept, Grown, NEW p \in Peers, Expire(p)
  PROVE  OrderInv'
<1> DEFINE F == lane[p].queue \cup Entries(lane[p].current)
<1>t. TypeOK /\ lane \in [Peers -> LaneType]
  BY DEF IInv, TypeOK
<1>o. ArrivedInv /\ OwnInv
  BY DEF OrderInv
<1>1. /\ lane'[p].current = None /\ lane'[p].queue = {} /\ lane'[p].flight = None
      /\ \A o \in Peers \ {p} : lane'[o] = lane[o]
      /\ UNCHANGED <<arrived, opts, requests>> /\ delivered' = Settle(delivered, F, "false")
  BY <1>t DEF Expire, IdleLane
<1>2. lane[p].flight = None /\ lane[p].pump # "submit"
  BY <1>o DEF Expire, Pumping, OwnInv
<1>3. \A m \in lane[p].queue : Through(m)'
  <2>1. \A m \in lane[p].queue : m \in Msg /\ m <= arrived
    BY <1>t, <1>o DEF OwnInv, LaneType
  <2>2. QED
    BY <1>t, <1>o, <1>1, <2>1, SettleValue, FailedIsThrough
<1>4. QED
  BY <1>1, <1>2, <1>3, FreeingOrder

(* The store and the peers touch no lane.                                  *)
LEMMA OutsideOrder ==
  ASSUME ConstantsAssumption, IInv, OrderInv, SentKept, Grown, UNCHANGED botVars
  PROVE  OrderInv'
<1>1. UNCHANGED <<lane, arrived, opts, requests>>
  BY DEF botVars
<1>2. CASE Peers = {}
  BY <1>2 DEF ConstantsAssumption
<1>3. CASE Peers # {}
  BY <1>1, <1>3, FreeingOrder
<1>4. QED
  BY <1>2, <1>3

-----------------------------------------------------------------------------
LEMMA OrderInit ==
  ASSUME ConstantsAssumption, Init
  PROVE  OrderInv
<1>1. arrived = 0 /\ requests = 0
  BY DEF Init
<1>2. \A m \in Msg : ~(m <= arrived)
  BY <1>1 DEF Msg
<1>3. \A r \in Request : ~(r <= requests)
  BY <1>1 DEF Request
<1>4. OwnInv
  BY DEF Init, IdleLane, OwnInv, Entries
<1>5. QED
  BY <1>2, <1>3, <1>4 DEF OrderInv, ArrivedInv, StatementInv, PlacedInv, OlderInv

LEMMA OrderNext ==
  ASSUME ConstantsAssumption, IInv, OrderInv, [Next]_vars
  PROVE  OrderInv'
<1>1. CASE Next
  <2>1. SentKept /\ Grown
    BY <1>1, Growth DEF OrderInv
  <2>2. ASSUME NEW p \in Peers, SubmitRefused(p) \/ SubmitTimesOut(p)
        PROVE  OrderInv'
    BY <2>1, <2>2, SubmitThrowsOrder DEF SubmitRefused, SubmitTimesOut
  <2>3. ASSUME (\E r \in Request : Land(r)) \/ (\E c \in Channel : Fetch(c))
        PROVE  OrderInv'
    BY <2>1, <2>3, OutsideOrder DEF Land, Fetch
  <2>4. QED
    BY <1>1, <2>1, <2>2, <2>3, EnqueueOrder, PumpTickOrder, SubmitReturnsOrder, OnAckOrder,
       GraceFiresOrder, ExpireOrder DEF Next
<1>2. CASE UNCHANGED vars
  BY <1>2 DEF vars, OrderInv, ArrivedInv, OwnInv, StatementInv, PlacedInv, OlderInv, Through,
     OnNode, Entries
<1>3. QED
  BY <1>1, <1>2

(* What is on the node is in a stored statement.                           *)
LEMMA OrderFollows ==
  ASSUME IInv, OrderInv
  PROVE  OrderPreserved
<1> SUFFICES ASSUME NEW a \in 1 .. arrived, NEW b \in 1 .. arrived, a < b,
                    opts[a].peer = opts[b].peer, b \in OnNode
             PROVE  a \in OnNode \/ delivered[a] = "false"
  BY DEF OrderPreserved
<1>1. PICK r \in Request : sent[r].node = "stored" /\ b \in sent[r].entries
  BY DEF OnNode
<1>2. r <= requests
  BY <1>1 DEF IInv, RequestInv, TypeOK, Request
<1>3. opts[b].peer = sent[r].peer
  BY <1>1, <1>2 DEF OrderInv, StatementInv
<1>m. a \in Msg
  <2>1. arrived \in 0 .. MaxMsgs
    BY DEF IInv, TypeOK
  <2>2. QED
    BY <2>1, ConstantsAssumption DEF Msg, ConstantsAssumption
<1>4. Through(a) \/ a \in sent[r].entries
  BY <1>1, <1>2, <1>3, <1>m DEF OrderInv, OlderInv
<1>5. a \in sent[r].entries => a \in OnNode
  BY <1>1 DEF OnNode
<1>6. QED
  BY <1>4, <1>5 DEF Through

(***************************************************************************)
(* The lane is FIFO for its peer (outbound-lanes.mjs 17-23): a message is  *)
(* on the node only if every earlier one of its channel was, or was        *)
(* reported undelivered, however submissions fail, land late, are          *)
(* superseded or extended.                                                 *)
(***************************************************************************)
THEOREM LanesPreserveOrder == Spec => []OrderPreserved
<1>1. Init => IInv /\ OrderInv
  BY InitHeld, OrderInit, ConstantsAssumption
<1>2. IInv /\ OrderInv /\ [Next]_vars => (IInv /\ OrderInv)'
  BY NextHeld, OrderNext, ConstantsAssumption
<1>3. IInv /\ OrderInv => OrderPreserved
  BY OrderFollows
<1>4. QED
  BY <1>1, <1>2, <1>3, PTL DEF Spec

=============================================================================
