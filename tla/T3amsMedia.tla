----------------------------- MODULE T3amsMedia -----------------------------
(***************************************************************************)
(* The analysis of media (MediaAnalysis) beside the journal of T3ams, with *)
(* which it shares the state file but no variable here: its own part of    *)
(* the file is saved, its turns are task, what it sent is sent.            *)
(***************************************************************************)
EXTENDS Integers, FiniteSets

CONSTANTS
  Attached,   \* messages with attachments
  Sender, MaxRev, GlobalCap, GlobalPeriod, SenderCap, SenderPeriod, MaxBuckets, MaxConcurrent, MaxQueued,
  MaxTicks, Budgets

VARIABLES now, mem, saved, lock, task, queue, call, sent, charged, failsLeft

Analysis == INSTANCE MediaAnalysis WITH
  Messages <- Attached, disk <- saved, turn <- task, posted <- sent, left <- failsLeft

(* A bucket holds tokens, and each takes a while to come back.             *)
ASSUME BudgetAssumption ==
  /\ IsFiniteSet(Attached) /\ MaxRev \in Nat \ {0} /\ MaxTicks \in Nat
  /\ GlobalCap \in Nat \ {0} /\ GlobalPeriod \in Nat \ {0}

-----------------------------------------------------------------------------
(* The properties of MediaAnalysis, explained there. The files of a        *)
(* revision leave the bot once (t3ams/index.mjs:846-847).                  *)
SubmittedOnce == Analysis!SubmittedOnce
(* What is spent stays within the budget, also over crashes                *)
(* (t3ams-media-budget.mjs:1-4).                                           *)
SpendIsBounded == Analysis!SpendIsBounded

=============================================================================
