---------------------------- MODULE T3amsTraffic ----------------------------
(***************************************************************************)
(* What the T3ams bot keeps of the workspace it is in (T3amsWorkspace) and *)
(* of the talk around it (T3amsContext), and what it sends in a            *)
(* conversation (T3amsOutbound). They share no variable.                   *)
(***************************************************************************)
EXTENDS Integers, Sequences, FiniteSets

CONSTANTS
  (* of T3amsWorkspace *)
  Owner, Others, Bot, Channels, Private, Announcements, CreatorOf, Rosters, FirstRoster, Budgets,
  (* of T3amsContext *)
  Remarks,    \* its Messages
  AuthorOf, RootOf, RecordCap, ContextCap, SenderCap,
  Talks,      \* its Plans
  (* of T3amsOutbound *)
  Outgoing,      \* its Jobs
  KindOf, BackfillCap, QueueCap, Attempts, Burst,
  Sendings,   \* its Plans
  None

VARIABLES
  (* of T3amsWorkspace *)
  docs, lists, notes, posts, epoch, holder, ws, keys, joining, heard, wsDisk, wsLeft,
  (* of T3amsContext *)
  posted, ops, rec, lru, noted, ctx, prompts, ctxDisk, rest,
  (* of T3amsOutbound *)
  item, sending, handed, revoked, seconds, mark, slots, backfill, waking, closed, sendDisk, sendPlan, left

Workspace == INSTANCE T3amsWorkspace WITH disk <- wsDisk, left <- wsLeft

Context == INSTANCE T3amsContext WITH
  Messages <- Remarks, Plans <- Talks, seen <- noted, rows <- prompts, disk <- ctxDisk

Outbound == INSTANCE T3amsOutbound WITH
  Jobs <- Outgoing, Plans <- Sendings, job <- item, queue <- sending, disk <- sendDisk, plan <- sendPlan

(* A version of a message: nothing is written at time 0, and no version is *)
(* None.                                                                   *)
Wording == [at : Nat \ {0}, size : {"empty", "fits", "large"}, mention : BOOLEAN]

ASSUME WorkspaceAssumption ==
  Budgets \subseteq [docs : Nat, lists : Nat, notes : Nat, posts : Nat, fault : STRING, faults : Nat]

ASSUME ContextAssumption ==
  /\ None \notin Wording
  /\ Talks \subseteq [first : [Remarks -> {"empty", "fits", "large", "prompt", None}], ops : Nat,
                      crashes : Nat, expiries : Nat]

-----------------------------------------------------------------------------
(* The properties, explained in the modules. A channel its creator deleted *)
(* stays deleted: T3amsWorkspace (t3ams-protocol.mjs:1724-1735).           *)
DeletedStaysDeleted == Workspace!DeletedStaysDeleted
(* The context holds nothing known to be deleted or outdated: T3amsContext *)
(* (t3ams/index.mjs:2121-2123, 2380-2388).                                 *)
ContextFollows == Context!ContextFollows
(* Nothing queued is sent once its claim is withdrawn: T3amsOutbound       *)
(* (t3ams-submission.mjs:60-63).                                           *)
QueuedIsFenced == Outbound!QueuedIsFenced

=============================================================================
