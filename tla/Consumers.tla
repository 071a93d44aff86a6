------------------------------ MODULE Consumers ------------------------------
(***************************************************************************)
(* The bridge (BridgeQueue) beside a consumer with queues of its own, the  *)
(* adapter of Hermes (HermesAdapter). They share no variable: the adapter  *)
(* has what it needs of a bridge, its leases, which are tickets here, and  *)
(* the files it staged.                                                    *)
(***************************************************************************)
EXTENDS BridgeQueue

CONSTANTS
  Deliveries, Chats, ChatOf, Workers, MaxPending, Nil,
  Deals  \* the Plans of HermesAdapter

VARIABLES
  tickets, leases, vault, session, loop, queues, ready, scheduled, running, waiting, jobs, claims,
  dirs, handed, replies, plan, left

Adapter == INSTANCE HermesAdapter WITH
  None <- Nil, Plans <- Deals, lease <- tickets, pending <- waiting

(* Deliveries are numbered in the order of the bridge, and each is of one  *)
(* chat.                                                                   *)
ASSUME DeliveryAssumption ==
  /\ Deliveries \subseteq Nat /\ IsFiniteSet(Deliveries) /\ ChatOf \in [Deliveries -> Chats]
  /\ Workers \in Nat

-----------------------------------------------------------------------------
(* The property of HermesAdapter, explained there. A reply goes out under  *)
(* the claim of its own delivery (adapter.py:189-197, 555-612).            *)
RepliesAreTheirOwn == Adapter!RepliesAreTheirOwn

=============================================================================
