--------------------------- MODULE MessagePromises ---------------------------
(***************************************************************************)
(* What bot-core's outbound lanes promise the caller of enqueue            *)
(* (src/bot-core/lib/outbound-lanes.mjs 196-199), message by message and   *)
(* without lanes, batches or timers:                                       *)
(*   submitted  settles once: "ok" when a statement carrying the message   *)
(*              is on the node, or when the message was superseded;        *)
(*   delivered  settles once: "true" when the peer has it, "false" when it *)
(*              was superseded, failed or given up.                        *)
(* onNode and fetched are what the store held and what the peers took.     *)
(***************************************************************************)
CONSTANT Messages

VARIABLES submitted, delivered, onNode, fetched

promises == <<submitted, delivered>>
vars     == <<submitted, delivered, onNode, fetched>>

Init ==
  /\ submitted = [m \in Messages |-> "none"]
  /\ delivered = [m \in Messages |-> "none"]
  /\ onNode = {}
  /\ fetched = {}

(* The message is new: queued, or refused on the spot.                     *)
Accept(m) == submitted'[m] = "pending" /\ delivered'[m] = "pending"
Refuse(m) == submitted'[m] = "error" /\ delivered'[m] = "false"

SubmittedStep(m) ==
  \/ submitted'[m] = submitted[m]
  \/ /\ submitted[m] = "pending"
     /\ \/ submitted'[m] = "ok" /\ (m \in onNode \/ delivered'[m] = "false")
        \/ submitted'[m] = "error" /\ delivered'[m] = "false"

DeliveredStep(m) ==
  \/ delivered'[m] = delivered[m]
  \/ /\ delivered[m] = "pending"
     /\ \/ delivered'[m] = "true" /\ m \in fetched
        \/ delivered'[m] = "false"

PromiseStep(m) ==
  \/ submitted[m] = "none" /\ delivered[m] = "none" /\ (Accept(m) \/ Refuse(m))
  \/ SubmittedStep(m) /\ DeliveredStep(m)

(* The store and the peers only ever gain messages, the peers from the store. *)
StoreStep ==
  /\ onNode \subseteq onNode'
  /\ fetched \subseteq fetched'
  /\ fetched' \subseteq onNode'

Next == (\A m \in Messages : PromiseStep(m)) /\ StoreStep

Spec == Init /\ [][Next]_vars
=============================================================================
