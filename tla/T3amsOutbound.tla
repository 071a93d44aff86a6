---------------------------- MODULE T3amsOutbound ----------------------------
(***************************************************************************)
(* What the T3ams bot sends in one conversation                            *)
(* (src/bot-core/transports/t3ams/t3ams-protocol.mjs, sendRichText, the    *)
(* operations and the wake; t3ams-submission.mjs; submitAppStatement). All *)
(* writes of the bot go through one serial queue and are fenced by the     *)
(* claim of the turn that makes them. The node keeps one statement of the  *)
(* bot per channel, the one with the highest priority; so a message takes  *)
(* the recent messages of its conversation with it, for a reader who was   *)
(* away. In a direct conversation all operations share the channel of the  *)
(* messages.                                                               *)
(*                                                                         *)
(* Not modelled: the other conversations, the contents, sizes in bytes     *)
(* (an entry is one unit of the carrier), the deliveries' own retries.     *)
(***************************************************************************)
EXTENDS Naturals, Sequences, FiniteSets, SequencesExt

CONSTANTS
  Jobs,        \* what is sent: replies, edits and reactions, typing signals
  KindOf,      \* "message", "operation" or "typing", a function on Jobs
  None,
  BackfillCap, \* T3AMS_BACKFILL_CAP
  QueueCap,    \* maxPending of the submit queue
  Attempts,    \* attempts of submitAppStatement
  Burst,       \* priorities of one second
  Plans        \* bounds: a record each, with the kind of the conversation,
               \* the jobs of each lane in their order, the jobs whose claim
               \* may be withdrawn, incoming messages, seconds, crashes, lost
               \* answers, refused allowances, and whether the channel closes

VARIABLES
  job,      \* the state of each job, its attempt and what it was composed with
  queue,    \* the submit queue, whose first is being sent: jobs, or "wake"
  handed,   \* how often each job was handed to the node
  revoked,  \* the jobs whose claim was withdrawn
  seconds,  \* the time
  mark,     \* the priority clock
  slots,    \* what the node retains, for each channel
  backfill, \* the recent messages of the conversation, the newest last
  waking,   \* dmWakeState: when the peer was woken, and whether it wrote since
  closed,   \* whether the channel was archived
  disk,     \* the state on disk: the priority mark and the backfill
  plan,     \* the plan
  left      \* what is left of its budgets

jobVars == <<job, queue, handed, revoked>>
state == <<mark, backfill, waking>>
rest  == <<plan, left>>
vars  == <<job, queue, handed, revoked, seconds, mark, slots, backfill, waking, closed, disk, plan, left>>

SlotKinds == {"messages", "operations", "typing", "inbox"}

(* The channel that carries a job.                                         *)
ChannelOf(j) ==
  IF KindOf[j] = "message" \/ plan.kind = "dm" THEN "messages"
  ELSE IF KindOf[j] = "operation" THEN "operations" ELSE "typing"

Idle == [state |-> "idle", attempt |-> 0, prior |-> {}]

Init ==
  /\ plan \in Plans /\ left = plan /\ job = [j \in Jobs |-> Idle]
  /\ queue = <<>> /\ handed = [j \in Jobs |-> 0] /\ revoked = {}
  /\ seconds = 0 /\ mark = 0 /\ slots = [c \in SlotKinds |-> None]
  /\ backfill = <<>> /\ waking = [woken |-> "never", heard |-> FALSE]
  /\ closed = FALSE /\ disk = [mark |-> 0, backfill |-> <<>>]

-----------------------------------------------------------------------------
(* Composing.                                                              *)

(* A lane sends one thing after the other.                                 *)
Done(j)   == job[j].state \in {"sent", "fenced", "failed"}
IsNext(j) ==
  \E lane \in plan.lanes : \E n \in DOMAIN lane :
    lane[n] = j /\ \A k \in 1 .. n - 1 : Done(lane[k])

(* Mutant: a message takes nothing with it. *)
TakesNothing == {}

(* channelPriorEntries                                                     *)
Prior == ToSet(backfill)

(* The conversation is open to the bot, workspaceOperationRoute.           *)
Refuses == closed /\ plan.kind = "channel"

(* Mutant: one message more than the limit is queued. *)
FullByOneMore == Len(queue) > QueueCap

(* The queue of the channel is bounded.                                    *)
Full == Len(queue) >= QueueCap

(* sendRichText, editText, sendReaction and sendTyping up to the queue. A  *)
(* full queue is an error that is tried again; a channel that is closed    *)
(* is not. Typing is not sent in a direct conversation.                    *)
Composes(j) ==
  /\ job[j].state \in {"idle", "refused"} /\ IsNext(j)
  /\ LET fate == CASE Refuses -> "failed"
                   [] j \in revoked -> "fenced"
                   [] KindOf[j] = "typing" /\ plan.kind = "dm" -> "sent"
                   [] Full -> "refused"
                   [] OTHER -> "queued"
     IN  /\ fate # job[j].state
         /\ job' = [job EXCEPT ![j] =
              [state |-> fate, attempt |-> 0, prior |-> IF KindOf[j] = "message" THEN Prior ELSE {}]]
         /\ queue' = IF fate = "queued" THEN Append(queue, j) ELSE queue
  /\ UNCHANGED <<handed, revoked, seconds, state, slots, closed, disk, rest>>

(* An edit or a delete of the prompt withdraws the claim of its turn.      *)
Revokes(j) ==
  /\ j \in plan.revocable \ revoked /\ revoked' = revoked \cup {j}
  /\ UNCHANGED <<job, queue, handed, seconds, state, slots, closed, disk, rest>>

-----------------------------------------------------------------------------
(* Submitting. The first of the queue is sent, createSerializedSubmitter.  *)

First == queue # <<>> /\ Head(queue) # "wake"

(* nextPriority                                                            *)
Later == IF seconds * Burst > mark THEN seconds * Burst ELSE mark + 1

(* Mutant: the claim was looked at when the job was queued. *)
LooksNot(j) == TRUE

(* assertOutboundGuard, as the queue's beforeSend.                         *)
Permitted(j) == j \notin revoked

Fenced ==
  /\ First /\ LET j == Head(queue) IN
     /\ job[j].state = "queued" /\ ~Permitted(j)
     /\ job' = [job EXCEPT ![j].state = "fenced"]
  /\ queue' = Tail(queue)
  /\ UNCHANGED <<handed, revoked, seconds, state, slots, closed, disk, rest>>

(* A statement is handed to the node: the first time, or again after a     *)
(* refusal and a pause.                                                    *)
Hands ==
  /\ First /\ LET j == Head(queue) IN
     /\ job[j].state = "pausing" \/ (job[j].state = "queued" /\ Permitted(j))
     /\ job' = [job EXCEPT ![j].state = "sending", ![j].attempt = @ + 1]
     /\ handed' = [handed EXCEPT ![j] = @ + 1]
  /\ mark' = Later
  /\ UNCHANGED <<queue, revoked, seconds, backfill, slots, waking, closed, disk, rest>>

Retained(c) == IF slots[c] = None THEN 0 ELSE slots[c].priority

Stored(j) ==
  [slots EXCEPT ![ChannelOf(j)] = [job |-> j, prior |-> job[j].prior, priority |-> mark]]

(* appendBackfill                                                          *)
WithEntry(entry) ==
  LET all == Append(backfill, entry)
  IN  SubSeq(all, IF Len(all) > BackfillCap THEN Len(all) - BackfillCap + 1 ELSE 1, Len(all))

(* shouldWakePeerInbox                                                     *)
Wakes == plan.kind = "dm" /\ (waking.woken = "never" \/ (waking.woken = "long ago" /\ ~waking.heard))

(* The node stores the statement and its answer comes: a message enters    *)
(* the backfill, and a peer not heard of for long is woken.                *)
Accepted ==
  /\ First /\ LET j == Head(queue) IN
     /\ job[j].state = "sending" /\ mark > Retained(ChannelOf(j))
     /\ slots' = Stored(j)
     /\ job' = [job EXCEPT ![j].state = "sent"]
     /\ IF KindOf[j] = "message"
        THEN /\ backfill' = WithEntry(j)
             /\ IF Wakes
                THEN /\ waking' = [woken |-> "lately", heard |-> FALSE]
                     /\ queue' = Append(Tail(queue), "wake")
                ELSE queue' = Tail(queue) /\ UNCHANGED waking
        ELSE queue' = Tail(queue) /\ UNCHANGED <<backfill, waking>>
  /\ UNCHANGED <<handed, revoked, seconds, mark, closed, disk, rest>>

(* The answer is lost: whether the node has it or not, the job failed.     *)
AnswerLost ==
  /\ First /\ left.lost > 0 /\ left' = [left EXCEPT !.lost = @ - 1]
  /\ LET j == Head(queue) IN
     /\ job[j].state = "sending"
     /\ slots' = IF mark > Retained(ChannelOf(j)) THEN Stored(j) ELSE slots
     /\ job' = [job EXCEPT ![j].state = "failed"]
  /\ queue' = Tail(queue)
  /\ UNCHANGED <<handed, revoked, seconds, state, closed, disk, plan>>

(* Mutant: what the node says of its priority is not noted. *)
NotesNothing(minimum) == mark

(* noteRejectedPriority                                                    *)
Noted(minimum) == IF minimum > mark THEN minimum ELSE mark

AfterRefusal(j) ==
  IF job[j].attempt < Attempts THEN "pausing" ELSE "failed"

(* The node has a statement of that priority or a higher one.              *)
TooLow ==
  /\ First /\ LET j == Head(queue) IN
     /\ job[j].state = "sending" /\ mark <= Retained(ChannelOf(j))
     /\ mark' = Noted(Retained(ChannelOf(j)))
     /\ job' = [job EXCEPT ![j].state = AfterRefusal(j)]
     /\ queue' = IF AfterRefusal(j) = "pausing" THEN queue ELSE Tail(queue)
  /\ UNCHANGED <<handed, revoked, seconds, slots, backfill, waking, closed, disk, rest>>

(* The allowance is used up: after the attempts the caller tries again.    *)
NoAllowance ==
  /\ First /\ left.refusals > 0 /\ left' = [left EXCEPT !.refusals = @ - 1]
  /\ LET j == Head(queue)
         next == IF job[j].attempt < Attempts THEN "pausing" ELSE "refused"
     IN /\ job[j].state = "sending"
        /\ job' = [job EXCEPT ![j].state = next]
        /\ queue' = IF next = "pausing" THEN queue ELSE Tail(queue)
  /\ UNCHANGED <<handed, revoked, seconds, state, slots, closed, disk, plan>>

(* maybeWakePeerInbox: a copy in the peer's inbox, whatever comes of it.   *)
WakeIsSent ==
  /\ queue # <<>> /\ Head(queue) = "wake" /\ queue' = Tail(queue)
  /\ mark' = Later
  /\ slots' = IF Later > Retained("inbox")
              THEN [slots EXCEPT !["inbox"] = [job |-> "wake", prior |-> {}, priority |-> Later]]
              ELSE slots
  /\ UNCHANGED <<job, handed, revoked, seconds, backfill, waking, closed, disk, rest>>

-----------------------------------------------------------------------------
(* The rest.                                                               *)

(* commitInbound: a message from a person, which is retained for readers   *)
(* too, and shows that its sender is there.                                *)
Incoming ==
  /\ left.incoming > 0 /\ left' = [left EXCEPT !.incoming = @ - 1]
  /\ backfill' = WithEntry("incoming") /\ waking' = [waking EXCEPT !.heard = TRUE]
  /\ UNCHANGED <<jobVars, seconds, mark, slots, closed, disk, plan>>

Tick ==
  /\ left.seconds > 0 /\ left' = [left EXCEPT !.seconds = @ - 1] /\ seconds' = seconds + 1
  /\ waking' = [waking EXCEPT !.woken = IF @ = "lately" THEN "long ago" ELSE @]
  /\ UNCHANGED <<jobVars, mark, slots, backfill, closed, disk, plan>>

Closes ==
  /\ plan.closes /\ ~closed /\ closed' = TRUE
  /\ UNCHANGED <<jobVars, seconds, state, slots, disk, rest>>

(* Bound: only while a crash may follow.                                   *)
Saved ==
  /\ left.crashes > 0 /\ disk # [mark |-> mark, backfill |-> backfill] /\ disk' = [mark |-> mark, backfill |-> backfill]
  /\ UNCHANGED <<jobVars, seconds, state, slots, closed, rest>>

(* A crash: the state on disk is restored, and what was not finished is    *)
(* composed again for its delivery.                                        *)
Crash ==
  /\ left.crashes > 0 /\ left' = [left EXCEPT !.crashes = @ - 1]
  /\ job' = [j \in Jobs |-> IF Done(j) THEN job[j] ELSE Idle]
  /\ queue' = <<>> /\ mark' = disk.mark /\ backfill' = disk.backfill
  /\ waking' = [woken |-> "never", heard |-> FALSE]
  /\ UNCHANGED <<handed, revoked, seconds, slots, closed, disk, plan>>

Next ==
  \/ \E j \in Jobs : Composes(j) \/ Revokes(j)
  \/ Fenced \/ Hands \/ Accepted \/ AnswerLost \/ TooLow \/ NoAllowance \/ WakeIsSent
  \/ Incoming \/ Tick \/ Closes \/ Saved \/ Crash

Fairness ==
  /\ \A j \in Jobs : WF_vars(Composes(j))
  /\ WF_vars(Fenced \/ Hands \/ Accepted \/ TooLow \/ WakeIsSent)

Spec == Init /\ [][Next]_vars /\ Fairness

-----------------------------------------------------------------------------
TypeOK ==
  /\ \A j \in Jobs :
       /\ job[j].state \in {"idle", "queued", "sending", "pausing", "sent", "fenced", "refused", "failed"}
       /\ job[j].attempt \in 0 .. Attempts
       /\ job[j].state \in {"queued", "sending", "pausing"} <=> j \in ToSet(queue)
  /\ \A k, l \in DOMAIN queue : queue[k] = queue[l] => k = l \/ queue[k] = "wake"
  /\ Len(queue) <= QueueCap
  /\ \A k \in 2 .. Len(queue) : queue[k] # "wake" => job[queue[k]].state = "queued"
  /\ Len(backfill) <= BackfillCap

(* A reader who was away finds every message of a conversation, as many as *)
(* a carrier takes: what is retained holds all messages that were sent,    *)
(* when they came from one lane, nothing but a message was put in their    *)
(* channel and no answer and no state was lost                             *)
(* (t3ams-protocol.mjs:579-606, 2104-2155).                                *)
Undisturbed ==
  /\ Cardinality(plan.lanes) = 1 /\ plan.lost = 0 /\ plan.crashes = 0
  /\ \A j \in Jobs : job[j].state \in {"failed", "refused"} => KindOf[j] # "message"
  /\ plan.kind = "dm" => \A j \in Jobs : KindOf[j] # "operation" \/ job[j].state = "idle"

Sent == {j \in Jobs : KindOf[j] = "message" /\ job[j].state = "sent"}

RetainedIsWhole ==
  Undisturbed /\ Sent # {} /\ Cardinality(Sent) <= BackfillCap
    => Sent \subseteq {slots["messages"].job} \cup slots["messages"].prior

(* A restart that lost the highest priority used does not stop the bot:    *)
(* what is to be sent is sent, though the node refuses it at first, as     *)
(* long as its answers come and the channel is open                        *)
(* (t3ams-submission.mjs:38-44; app-chat-codec.mjs:1651-1654).             *)
SendsSucceed ==
  []<>(\A j \in Jobs :
         \/ ~\E lane \in plan.lanes : j \in ToSet(lane)
         \/ job[j].state = "sent" \/ j \in revoked \/ closed \/ plan.lost > 0)

(* What is still queued when its claim is withdrawn is not handed to the   *)
(* node (t3ams-submission.mjs:60-63).                                      *)
QueuedIsFenced ==
  [][\A j \in Jobs : j \in revoked /\ job[j].state = "queued" => handed'[j] = handed[j]]_vars

-----------------------------------------------------------------------------
(* Properties the code does not have.                                      *)

(* Nothing is handed to the node once its claim is withdrawn               *)
(* (docs/guide/t3ams.md:153-154: "Editing or deleting a prompt revokes     *)
(* that claim, so a stale worker cannot publish an answer or live activity *)
(* for old text"; t3ams-submission.mjs:60-62: "Recheck at the irreversible *)
(* network-write boundary"). The attempts after a refusal, up to nine      *)
(* seconds later, do not look at the claim again.                          *)
StaleIsNotSent ==
  [][\A j \in Jobs : j \in revoked => handed'[j] = handed[j]]_vars

(* What is retained holds all messages, also of two threads, and after an  *)
(* edit or a reaction in a direct conversation. A message is composed with *)
(* the messages that were accepted before, not with those under way; and   *)
(* an operation takes the place of the message, until the next one.        *)
RetainedIsWholeAlways ==
  /\ Sent # {} /\ Cardinality(Sent) <= BackfillCap
  /\ plan.lost = 0 /\ plan.crashes = 0 /\ queue = <<>>
  => Sent \subseteq {slots["messages"].job} \cup slots["messages"].prior

=============================================================================
