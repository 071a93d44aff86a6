----------------------------- MODULE Transport -----------------------------
(***************************************************************************)
(* The files that messages bring (HopTransfer), for any files and requests *)
(* that are limited in number.                                             *)
(***************************************************************************)
EXTENDS Integers, Sequences, FiniteSets

CONSTANTS Files, ChunksOf, Requests, FileOf, Slots, Budget, Transfers, Nil

VARIABLES pool, up, ask, job, queue, used, inflight, cache, plan, left

Hop == INSTANCE HopTransfer WITH None <- Nil, Plans <- Transfers

(* The state of a download, which Nil is none of.                          *)
Downloads ==
  [at : {"queued", "begin", "connect", "claim", "ack", "save"}, on : Nat, parts : Seq(Nat),
   try : 1 .. 2, open : BOOLEAN]

ASSUME FilesAssumption ==
  /\ IsFiniteSet(Files) /\ ChunksOf \in [Files -> Nat]
  /\ IsFiniteSet(Requests) /\ FileOf \in [Requests -> Files]
  /\ Nil \notin Requests /\ Nil \notin Nat /\ Nil \notin Downloads
  /\ Transfers \subseteq [bot : BOOLEAN, files : SUBSET Files, asks : SUBSET Requests,
                           faults : [Hop!Kinds -> Nat], room : [pool : Nat, queue : Nat, cache : Nat]]

-----------------------------------------------------------------------------
(* The property, explained in the module: one lost connection costs the    *)
(* bot no file (hop-client.mjs:433-497, index.mjs:481-483, 544).           *)
OneLossIsAbsorbed == Hop!OneLossIsAbsorbed

=============================================================================
