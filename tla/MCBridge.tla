------------------------------ MODULE MCBridge ------------------------------
(***************************************************************************)
(* Small instances of the bridge (BridgeQueue), of a consumer with queues  *)
(* of its own, the adapter of Hermes (HermesAdapter), and of what shows    *)
(* that an answer is being made, the placeholders that a brain or a        *)
(* consumer edits (T3amsLive), checked in one run. They share no variable  *)
(* (HermesAdapter has what it needs of the bridge, its leases and files):  *)
(* a behaviour runs the component named by part, and the others rest in a  *)
(* first state.                                                            *)
(***************************************************************************)
EXTENDS Consumers, TLC

CONSTANTS k1, k2

VARIABLES
  part,
  (* of T3amsLive *)
  row, tenure, kept, turn, started, thinking, slot, bubble, edits, mut, revoked, durable, livePlan, liveLeft

bridgeVars  == <<owed, seen, ackDue, admitting, queued, handler, handing, reserved, inbound, lease,
                 issued, acking, ack, consumer, pending, disk, acked, finished, faults>>
adapterVars == <<tickets, leases, vault, session, loop, queues, ready, scheduled, running, waiting, jobs,
                 claims, dirs, handed, replies, plan, left>>
liveVars    == <<row, tenure, kept, turn, started, thinking, slot, bubble, edits, mut, revoked, durable,
                 livePlan, liveLeft>>
consumerVars == <<part, bridgeVars, adapterVars, liveVars>>

-----------------------------------------------------------------------------
(* Two deliveries of one chat and one of another; a slow turn, a lost or   *)
(* refused request, a failed turn, a stop.                                 *)
Fails(slow, net, gone, refused, turns, stops) ==
  [slow |-> slow, net |-> net, lost |-> gone, refuse |-> refused, turn |-> turns, stop |-> stops]
Delivers(files, sends, fenced, kinds) == [files |-> files, sends |-> sends, fenced |-> fenced, faults |-> kinds]

DeliveryChats == 1 :> k1 @@ 2 :> k1 @@ 3 :> k2
DeliveryPlans ==
  {Delivers({1}, {2}, TRUE, Fails(1, 0, 0, 0, 0, 0)), Delivers({}, {}, FALSE, Fails(0, 1, 0, 0, 0, 0)),
   Delivers({}, {}, FALSE, Fails(0, 0, 1, 0, 0, 0)), Delivers({1}, {}, FALSE, Fails(0, 0, 0, 1, 0, 0)),
   Delivers({}, {}, FALSE, Fails(0, 0, 0, 0, 1, 0)), Delivers({1}, {1}, TRUE, Fails(0, 0, 0, 0, 0, 1))}

(* Two messages of a lane, which their author changes while a direct brain *)
(* or a consumer is at them.                                               *)
LiveKinds == {"change", "disk", "submit", "brain", "lapse"}
Turns(brain, faulty) == [brain |-> brain, faults |-> faulty @@ [k \in LiveKinds |-> 0]]

Live == INSTANCE T3amsLive WITH
  Messages <- 2, MaxTurns <- 2, MaxFrames <- 1,
  lease <- tenure, timer <- thinking, plan <- livePlan, left <- liveLeft,
  Plans <- {Turns("direct", [change |-> 2]),
            Turns("direct", [change |-> 1, disk |-> 1]),
            Turns("direct", [change |-> 1, submit |-> 1, brain |-> 1]),
            Turns("bridge", [change |-> 1, lapse |-> 1]),
            Turns("bridge", [change |-> 1, disk |-> 1]),
            Turns("bridge", [change |-> 1, submit |-> 1])}

-----------------------------------------------------------------------------
ConsumersInit ==
  /\ part \in {"bridge", "adapter", "live"}
  /\ Init
  /\ Adapter!Init /\ (part = "adapter" \/ left.slow = 1)
  /\ Live!Init /\ (part = "live" \/ liveLeft.change = 2)

ConsumersNext ==
  \/ part = "bridge" /\ Next /\ UNCHANGED <<part, adapterVars, liveVars>>
  \/ part = "adapter" /\ Adapter!Next /\ UNCHANGED <<part, bridgeVars, liveVars>>
  \/ part = "live" /\ Live!Next /\ UNCHANGED <<part, bridgeVars, adapterVars>>

(* The fairness of the bridge and of T3amsLive.                            *)
ConsumersSpec ==
  /\ ConsumersInit /\ [][ConsumersNext]_consumerVars
  /\ WF_bridgeVars(part = "bridge" /\ StoreSteps) /\ WF_bridgeVars(part = "bridge" /\ AckSteps)
  /\ \A m \in Msgs :
       /\ WF_bridgeVars(part = "bridge" /\ OpenerSteps(m)) /\ WF_bridgeVars(part = "bridge" /\ SessionSteps(m))
       /\ WF_bridgeVars(part = "bridge" /\ HandedOver(m)) /\ WF_bridgeVars(part = "bridge" /\ Expires(m))
  /\ \A c \in Consumers :
       WF_bridgeVars(part = "bridge" /\ Poll(c)) /\ WF_bridgeVars(part = "bridge" /\ Finishes(c))
  /\ WF_liveVars(part = "live" /\ Live!Steps)

-----------------------------------------------------------------------------
(* The properties of T3amsLive, explained there; those of BridgeQueue and  *)
(* HermesAdapter come with Consumers.                                      *)
(* A placeholder that shows its last word keeps it (live-reply.mjs:        *)
(* 152-159).                                                               *)
RetiredStaysRetired == Live!RetiredStaysRetired
(* A placeholder that appears is retired in the end (t3ams/index.mjs:1875, *)
(* 1920-1934).                                                             *)
BubbleIsRetired == part = "live" => Live!BubbleIsRetired

=============================================================================
