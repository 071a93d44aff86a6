---------------------------- MODULE T3amsBridge ----------------------------
(***************************************************************************)
(* The bridge of the T3ams transport and the OpenClaw gateway that works   *)
(* for it: journal rows leased lane by lane, answers fenced by the lease,  *)
(* edits held back and flushed by the acknowledgement, and on the other    *)
(* side a poll loop, a bounded keyed dispatcher and one live reply per     *)
(* delivery.                                                               *)
(*   src/bot-core/transports/t3ams/index.mjs  leaseBridgeIngress,          *)
(*       updateBridgeLeases, finalizeBridgeEdits, POST /send               *)
(*   src/openclaw-plugin/polkadot/src/gateway.ts  the dispatcher,          *)
(*       createT3amsLiveReply, processDelivery                             *)
(*   src/openclaw-plugin/polkadot/src/bridge.ts   poll, renew, ack, send   *)
(* The agent behind the gateway, the disk and the user are the             *)
(* environment. Every fault they commit is counted against MaxFaults.      *)
(* Not modelled: the thinking placeholder (LiveReply has it), files and    *)
(* reactions, proactive sends, the parts of a long answer, attachments.    *)
(***************************************************************************)
EXTENDS Naturals, Sequences, FiniteSets, SequencesExt

CONSTANTS
    Messages,       \* messages that arrive, in their order
    Limit,          \* deliveries a poll may lease
    MaxConcurrent,  \* turns the gateway runs at a time
    MaxPending,     \* deliveries its dispatcher holds
    MaxFaults,      \* bound: faults of all kinds
    MaxFrames,      \* bound: progress frames of a turn
    MaxRev          \* bound: edits and deletions by the authors

Msgs == 1 .. Messages
Lanes == Msgs
\* Every lease but the first replaces one that a fault or an edit voided.
MaxLease == 1 + MaxFaults + MaxRev

ASSUME ConstantsAssumption ==
    /\ {Messages, Limit, MaxConcurrent, MaxPending} \subseteq Nat \ {0}
    /\ {MaxFaults, MaxFrames, MaxRev} \subseteq Nat

VARIABLES
    LaneOf,   \* the lane of each message: its thread, or its conversation
    row,      \* the journal's row of each message; "by" is history: the lease
              \* of the turn that answered it and was acknowledged
    disk,     \* what the state file says of it
    durable,  \* ingressDurable
    retry,    \* the durability retry: whether its timer is armed, and whether
              \* deferredAgentArtifactOutboxCleanup makes it throw
    mut,      \* the mutation of the journal that is being written
    issued,   \* leases issued for each message
    pend,     \* bridgePendingEdits, by lane
    bubbles,  \* what the user sees: the bot's messages about each message
    batch,    \* deliveries polled and not yet submitted
    queue,    \* the dispatcher's queues, by lane
    ready,    \* lanes with work and no running turn, in order
    job,      \* the running turns, by lane
    faults, conflicts, revisions

bot == <<LaneOf, row, disk, durable, retry, mut, issued>>
gateway == <<batch, queue, ready, job>>
counters == <<faults, conflicts, revisions>>
vars == <<bot, pend, bubbles, gateway, counters>>

NoEdit == [claim |-> [m |-> 0, lease |-> 0, rev |-> 0], text |-> "none", bubble |-> 0]
NoMut == [op |-> "none", for |-> {}, lane |-> 0, heard |-> FALSE, before |-> <<>>]
NoJob == [pc |-> "none"]
NoRetry == [armed |-> FALSE, throws |-> FALSE]

Claims == [m : Msgs, lease : 1 .. MaxLease, rev : 0 .. MaxRev]

Fault == /\ faults < MaxFaults
         /\ faults' = faults + 1
         /\ UNCHANGED <<conflicts, revisions>>

-----------------------------------------------------------------------------
(* The journal.                                                            *)

\* bridgeLeaseIsActive
Active(c) == row[c.m].in = "yes" /\ row[c.m].lease = c.lease /\ row[c.m].live

\* Mutant: deliveries are leased without a look at the lane.
OccupiedNever == {}

Occupied == {LaneOf[m] : m \in {n \in Msgs : row[n].in = "yes" /\ row[n].live}}

\* Mutant: a row is leased again while it is leased.
LeasableAgain ==
    {m \in Msgs : /\ row[m].in = "yes"
                  /\ \A n \in Msgs : n < m /\ LaneOf[n] = LaneOf[m] => row[n].in # "yes"}

\* The rows a poll leases: per free lane the oldest row that is not leased.
Leasable ==
    LET free == {m \in Msgs : /\ row[m].in = "yes" /\ ~row[m].live
                              /\ LaneOf[m] \notin Occupied
                              /\ \A n \in Msgs : n < m /\ LaneOf[n] = LaneOf[m]
                                    => row[n].in # "yes" \/ row[n].live}
    IN {m \in free : Cardinality({n \in free : n <= m}) <= Limit}

ClaimOf(m) == [m |-> m, lease |-> row[m].lease, rev |-> row[m].rev]
OnDisk(r) == [m \in Msgs |-> [in |-> r[m].in, rev |-> r[m].rev, by |-> r[m].by]]
Freed(r) == [r EXCEPT !.lease = 0, !.live = FALSE]

Quiet == mut.op = "none"

\* mutateIngress: a change of the journal is made in memory and then written;
\* the retry has left its timer
Begins(op, for, lane, rows) ==
    /\ Quiet
    /\ row' = rows
    /\ retry' = [retry EXCEPT !.armed = @ /\ op # "retry"]
    /\ mut' = [op |-> op, for |-> for, lane |-> lane, heard |-> TRUE, before |-> row]
    /\ UNCHANGED <<LaneOf, disk, durable>>

\* admitIngress
Arrives(m) ==
    /\ row[m].in = "no"
    /\ \A n \in Msgs : n < m => row[n].in # "no"
    /\ Begins("admit", {m}, 0, [row EXCEPT ![m].in = "yes"])
    /\ UNCHANGED <<issued, pend, bubbles, gateway, counters>>

\* reconcileQueuedIngressOperation: the author edits or deletes the message
Revise(m) ==
    /\ row[m].in = "yes"
    /\ revisions < MaxRev /\ revisions' = revisions + 1
    /\ \/ Begins("revise", {m}, 0, [row EXCEPT ![m] = Freed([row[m] EXCEPT !.rev = @ + 1])])
       \/ Begins("revise", {m}, 0, [row EXCEPT ![m] = Freed([row[m] EXCEPT !.in = "gone"])])
    /\ UNCHANGED <<issued, pend, bubbles, gateway, faults, conflicts>>

\* scheduleIngressDurabilityRetry
RetryWrite ==
    /\ retry.armed
    /\ Begins("retry", {}, 0, row)
    /\ UNCHANGED <<issued, pend, bubbles, gateway, counters>>

\* leaseBridgeIngress, up to its write: the gateway polls whenever it has
\* submitted what it polled before
Lease ==
    /\ batch = <<>> /\ durable /\ Leasable # {}
    /\ issued' = [m \in Msgs |-> issued[m] + IF m \in Leasable THEN 1 ELSE 0]
    /\ Begins("lease", Leasable, 0,
              [m \in Msgs |-> IF m \in Leasable
                              THEN [row[m] EXCEPT !.lease = issued'[m], !.live = TRUE]
                              ELSE row[m]])
    /\ pend' = [l \in Lanes |-> IF \E m \in Leasable : LaneOf[m] = l THEN NoEdit ELSE pend[l]]
    /\ UNCHANGED <<bubbles, gateway, counters>>

-----------------------------------------------------------------------------
(* The gateway's dispatcher.                                               *)

Pending == Cardinality({l \in Lanes : job[l] # NoJob})
           + FoldSet(LAMBDA l, n : n + Len(queue[l]), 0, Lanes)

Fresh(c) == [pc |-> "agent", claim |-> c, live |-> 0, unavailable |-> FALSE,
             failed |-> FALSE, final |-> FALSE, frames |-> 0, retried |-> FALSE,
             tries |-> 0]

\* markReady
Ready(q, r, j, l) ==
    IF q[l] # <<>> /\ j[l] = NoJob /\ l \notin Range(r) THEN Append(r, l) ELSE r

\* How many of n ready lanes find a free worker.
Starting(n, j) ==
    LET running == Cardinality({l \in Lanes : j[l] # NoJob})
    IN IF MaxConcurrent <= running THEN 0
       ELSE IF MaxConcurrent - running < n THEN MaxConcurrent - running ELSE n

\* pump: the lanes at the head of the ready list get the free workers
Pumped(q, r, j) ==
    LET k == Starting(Len(r), j)
        starts == Range(SubSeq(r, 1, k))
    IN /\ queue' = [l \in Lanes |-> IF l \in starts THEN Tail(q[l]) ELSE q[l]]
       /\ ready' = SubSeq(r, k + 1, Len(r))
       /\ job' = [l \in Lanes |-> IF l \in starts THEN Fresh(Head(q[l])) ELSE j[l]]

\* Mutant: the last submission comes before the limit is looked at.
HasCapacityOnce == Pending <= MaxPending

HasCapacity == Pending < MaxPending

\* BoundedKeyedDispatcher.submit
Submit ==
    /\ batch # <<>> /\ HasCapacity
    /\ LET l == LaneOf[Head(batch).m]
           q == [queue EXCEPT ![l] = Append(@, Head(batch))]
       IN Pumped(q, Ready(q, ready, job, l), job)
    /\ batch' = Tail(batch)
    /\ UNCHANGED <<bot, pend, bubbles, counters>>

\* Mutant: a turn that ends does not pump.
JobEndsQuietly(l) ==
    /\ job[l] # NoJob /\ job[l].pc = "over"
    /\ job' = [job EXCEPT ![l] = NoJob]
    /\ ready' = Ready(queue, ready, job', l)
    /\ UNCHANGED <<bot, pend, bubbles, batch, queue, counters>>

\* run's finally: the worker is free, its lane may be ready again
JobEnds(l) ==
    /\ job[l] # NoJob /\ job[l].pc = "over"
    /\ LET j == [job EXCEPT ![l] = NoJob] IN Pumped(queue, Ready(queue, ready, j, l), j)
    /\ UNCHANGED <<bot, pend, bubbles, batch, counters>>

-----------------------------------------------------------------------------
(* A delivery at work: the agent's frames and its final answer.            *)

At(l, pc) == job[l] # NoJob /\ job[l].pc = pc
Goes(l, pc) == job' = [job EXCEPT ![l].pc = pc]
OnlyJob == UNCHANGED <<bot, batch, queue, ready>>

\* update: a visible frame goes out as a message, later ones as edits of it
Frame(l) ==
    /\ At(l, "agent") /\ job[l].frames < MaxFrames /\ ~job[l].unavailable
    /\ job' = [job EXCEPT ![l].frames = @ + 1,
                          ![l].pc = IF job[l].live = 0 THEN "first" ELSE "edit"]
    /\ OnlyJob /\ UNCHANGED <<pend, bubbles, counters>>

\* deliverFinal
Final(l) ==
    /\ At(l, "agent")
    /\ job' = [job EXCEPT ![l].final = TRUE,
                          ![l].pc = IF job[l].live # 0 /\ ~job[l].unavailable
                                    THEN "finalEdit" ELSE "finalSend"]
    /\ OnlyJob /\ UNCHANGED <<pend, bubbles, counters>>

\* The turn ends without an answer.
Silent(l) ==
    /\ At(l, "agent")
    /\ Goes(l, "ended")
    /\ OnlyJob /\ UNCHANGED <<pend, bubbles, counters>>

\* What the gateway does with the answer to a /send.
Streaming == {"first", "edit", "publishFirst"}
Failed(j) == [j EXCEPT !.pc = "ended", !.failed = TRUE]
Refused(j) == IF j.pc \in Streaming THEN [j EXCEPT !.pc = "agent", !.unavailable = TRUE]
              ELSE IF j.pc = "finalEdit" THEN [j EXCEPT !.pc = "finalSend", !.unavailable = TRUE]
              ELSE Failed(j)
Lost(j) == IF j.pc \in Streaming THEN [j EXCEPT !.pc = "agent"] ELSE Failed(j)

Sends == {"first", "finalSend"}
Edits == {"edit", "finalEdit"}
Publishing == {"publishFirst", "publishFinal"}

\* POST /send: an ordinary message is validated and drops the pending edit
SendAccepted(l) ==
    /\ job[l] # NoJob /\ job[l].pc \in Sends /\ Active(job[l].claim)
    /\ pend' = [pend EXCEPT ![l] = NoEdit]
    /\ Goes(l, IF job[l].pc = "first" THEN "publishFirst" ELSE "publishFinal")
    /\ OnlyJob /\ UNCHANGED <<bubbles, counters>>

\* POST /send with edit_of: the frame waits for the throttle, latest wins
EditAccepted(l, lost) ==
    /\ job[l] # NoJob /\ job[l].pc \in Edits /\ Active(job[l].claim)
    /\ pend' = [pend EXCEPT ![l] = [claim |-> job[l].claim, bubble |-> job[l].live,
                    text |-> IF job[l].pc = "edit" THEN "progress" ELSE "final"]]
    /\ job' = [job EXCEPT ![l] = IF lost THEN Lost(@)
                                 ELSE [job[l] EXCEPT !.pc = IF @ = "edit" THEN "agent" ELSE "ended"]]
    /\ OnlyJob /\ UNCHANGED bubbles

\* The claim is stale when the request arrives, or when its message is due.
SendRefused(l) ==
    /\ job[l] # NoJob /\ job[l].pc \in Sends \union Edits \union Publishing /\ ~Active(job[l].claim)
    /\ job' = [job EXCEPT ![l] = Refused(@)]
    /\ OnlyJob /\ UNCHANGED <<pend, bubbles, counters>>

\* Mutant: the lease that was valid when the request arrived is trusted.
FencedOnArrival(c) == TRUE

\* claimSubmissionGuard: the lease is looked at again when the message goes out
Fenced(c) == Active(c)

\* protocol.sendText under the guard
Published(l, lost) ==
  /\ job[l] # NoJob /\ job[l].pc \in Publishing
  /\ LET j == job[l]
        text == IF j.pc = "publishFirst" THEN "progress" ELSE "final"
        bubble == [lease |-> j.claim.lease, rev |-> j.claim.rev, text |-> text]
        shown == Append(bubbles[j.claim.m], bubble)
    IN /\ Fenced(j.claim)
       /\ bubbles' = [bubbles EXCEPT ![j.claim.m] = shown]
       /\ job' = [job EXCEPT ![l] =
              IF lost THEN Lost(@)
              ELSE IF j.pc = "publishFirst" THEN [j EXCEPT !.pc = "agent", !.live = Len(shown)]
              ELSE [j EXCEPT !.pc = "ended"]]
       /\ OnlyJob /\ UNCHANGED pend

\* The statement is refused: 500.
SubmitFails(l) ==
    /\ job[l] # NoJob /\ job[l].pc \in Publishing
    /\ job' = [job EXCEPT ![l] = Refused(@)]
    /\ OnlyJob /\ UNCHANGED <<pend, bubbles>>

Show(e) == bubbles' = [bubbles EXCEPT ![e.claim.m][e.bubble].text = e.text]

\* throttledEdit: the throttle lets the newest frame out
FrameDue(l) ==
    /\ pend[l] # NoEdit /\ Active(pend[l].claim)
    /\ bubbles[pend[l].claim.m][pend[l].bubble].text # pend[l].text
    /\ Show(pend[l])
    /\ UNCHANGED <<bot, pend, gateway, counters>>

\* dispatchInbound returns: a final answer that failed is not acknowledged
Returns(l) ==
    /\ At(l, "ended")
    /\ Goes(l, IF job[l].failed THEN "over" ELSE "renew")
    /\ OnlyJob /\ UNCHANGED <<pend, bubbles, counters>>

\* processDelivery: after a lost session commit the turn runs once more
Conflict(l) ==
    /\ At(l, "ended") /\ ~job[l].retried
    /\ faults < MaxFaults /\ faults' = faults + 1 /\ conflicts' = conflicts + 1
    /\ job' = [job EXCEPT ![l] = [Fresh(job[l].claim) EXCEPT !.retried = TRUE]]
    /\ OnlyJob /\ UNCHANGED <<pend, bubbles, revisions>>

\* The agent core throws anything else.
Throws(l) ==
    /\ job[l] # NoJob /\ job[l].pc \in {"agent", "ended"}
    /\ Goes(l, "over")
    /\ Fault /\ OnlyJob /\ UNCHANGED <<pend, bubbles>>

-----------------------------------------------------------------------------
(* Renewal and acknowledgement.                                            *)

\* acknowledgeWithRetry: three attempts
AckAgain(j) == IF j.tries < 2 THEN [j EXCEPT !.pc = "ack", !.tries = @ + 1]
               ELSE [j EXCEPT !.pc = "over"]

\* renewNow: the last renewal proves that the claim is still ours
Renew(l) ==
    /\ At(l, "renew") /\ Quiet
    /\ IF Active(job[l].claim)
       THEN /\ Begins("renew", {job[l].claim.m}, l, row)
            /\ Goes(l, "renewing")
       ELSE Goes(l, "over") /\ UNCHANGED <<LaneOf, row, mut, disk, durable, retry>>
    /\ UNCHANGED <<issued, batch, queue, ready, pend, bubbles, counters>>

\* Mutant: the acknowledgement leaves the pending frame to its throttle.
FlushedByThrottle(l) == UNCHANGED <<bubbles, pend>>

\* finalizeBridgeEdits: the newest frame of this very claim goes out
Flushed(l) ==
    IF Active(job[l].claim) /\ pend[l].claim = job[l].claim
    THEN Show(pend[l]) /\ pend' = [pend EXCEPT ![l] = NoEdit]
    ELSE UNCHANGED <<bubbles, pend>>

AckArrives(l) ==
    /\ At(l, "ack")
    /\ Flushed(l)
    /\ Goes(l, "flushed")
    /\ OnlyJob /\ UNCHANGED counters

AckFlushFails(l) ==
    /\ At(l, "ack") /\ Active(job[l].claim) /\ pend[l].claim = job[l].claim
    /\ job' = [job EXCEPT ![l] = AckAgain(@)]
    /\ Fault /\ OnlyJob /\ UNCHANGED <<pend, bubbles>>

\* updateBridgeLeases: the row leaves the journal, or no row has this claim
Ack(l) ==
    /\ At(l, "flushed") /\ Quiet
    /\ LET c == job[l].claim
       IN IF Active(c)
          THEN /\ Begins("ack", {c.m}, l, [row EXCEPT ![c.m] = Freed([row[c.m] EXCEPT !.in = "gone",
                                 !.by = IF job[l].final THEN c.lease ELSE 0])])
               /\ Goes(l, "acking")
          ELSE /\ job' = [job EXCEPT ![l] = AckAgain(@)]
               /\ UNCHANGED <<LaneOf, row, mut, disk, durable, retry>>
    /\ UNCHANGED <<issued, batch, queue, ready, pend, bubbles, counters>>

-----------------------------------------------------------------------------
(* A mutation ends: persistCritical has returned.                          *)

\* A set of messages as a sequence, the oldest first.
Oldest(S) == {s \in [1 .. Cardinality(S) -> S] : \A i, j \in DOMAIN s : i < j => s[i] < s[j]}

\* The caller of a mutation hears the outcome, unless it is gone.
Answered(ok) ==
    LET l == mut.lane
    IN \/ /\ mut.op = "lease" /\ mut.heard
          /\ IF ok THEN batch' \in {[i \in DOMAIN s |-> ClaimOf(s[i])] : s \in Oldest(mut.for)}
             ELSE batch' = <<>>
          /\ UNCHANGED job
       \/ /\ mut.op = "renew" /\ mut.heard
          /\ Goes(l, IF ok THEN "ack" ELSE "over")
          /\ UNCHANGED batch
       \/ /\ mut.op = "ack" /\ mut.heard
          /\ job' = [job EXCEPT ![l] = IF ok THEN [job[l] EXCEPT !.pc = "over"] ELSE AckAgain(@)]
          /\ UNCHANGED batch
       \/ /\ ~(mut.heard /\ mut.op \in {"lease", "renew", "ack"})
          /\ UNCHANGED <<batch, job>>

\* An edit or a deletion that is durable revokes the pending frame of its lane.
Revoked(l) == mut.op = "revise" /\ \E m \in mut.for : LaneOf[m] = l /\ mut.before[m].lease # 0

\* A row that is removed leaves the removal of its outbox directory to the
\* retry when the write fails. cleanupDeferredAgentArtifactOutboxes names a
\* variable that is not declared: the retry that finds such a removal ends
\* before it thaws, and mutateIngress swallows the error.
Thaws == mut.op = "retry" => ~retry.throws
Defers == mut.op = "revise" /\ \E m \in mut.for : row[m].in = "gone"

MutationSaved(lost) ==
    /\ ~Quiet
    /\ disk' = OnDisk(row)
    /\ durable' = (durable \/ Thaws)
    /\ mut' = NoMut
    /\ pend' = [l \in Lanes |-> IF Revoked(l) THEN NoEdit ELSE pend[l]]
    /\ Answered(~lost)
    /\ UNCHANGED <<LaneOf, row, retry, issued, queue, ready, bubbles>>

\* What a failed write takes back: leases, the removal of an acknowledged row.
\* What lapsed meanwhile has lapsed: the restored copies hold their times.
RolledBack ==
    [m \in Msgs |-> IF m \in mut.for /\ mut.op = "lease" THEN Freed(row[m])
                    ELSE IF m \in mut.for /\ mut.op = "ack" THEN mut.before[m]
                    ELSE row[m]]

MutationFails ==
    /\ ~Quiet
    /\ row' = RolledBack
    /\ durable' = (durable /\ mut.op = "retry")
    /\ retry' = [armed |-> TRUE, throws |-> retry.throws \/ Defers]
    /\ mut' = NoMut
    /\ Answered(FALSE)
    /\ Fault /\ UNCHANGED <<LaneOf, disk, issued, queue, ready, pend, bubbles>>

-----------------------------------------------------------------------------
(* Time and failures.                                                      *)

\* Deliveries the gateway still has, queued or running.
Held(m) == \/ \E i \in DOMAIN batch : batch[i].m = m /\ batch[i].lease = row[m].lease
           \/ \E i \in DOMAIN queue[LaneOf[m]] : queue[LaneOf[m]][i] = ClaimOf(m)
           \/ job[LaneOf[m]] # NoJob /\ job[LaneOf[m]].claim = ClaimOf(m)

Lapses(m) ==
    /\ row[m].live /\ m \notin mut.for
    /\ row' = [row EXCEPT ![m].live = FALSE]
    /\ UNCHANGED <<LaneOf, disk, durable, retry, mut, issued, pend, bubbles, gateway>>

\* Nobody renews a delivery whose worker is gone: its lease ends.
OrphanLapses(m) == ~Held(m) /\ Lapses(m) /\ UNCHANGED counters

\* The renewals of a running turn come late, or the delivery waits in the
\* dispatcher for longer than its lease: the keeper starts with the turn.
HeldLapses(m) == Held(m) /\ Lapses(m) /\ Fault

\* The gateway's process ends; requests it sent are still served.
GatewayDies ==
    /\ batch' = <<>> /\ ready' = <<>>
    /\ queue' = [l \in Lanes |-> <<>>]
    /\ job' = [l \in Lanes |-> NoJob]
    /\ mut' = [mut EXCEPT !.heard = FALSE]
    /\ Fault /\ UNCHANGED <<LaneOf, row, disk, durable, retry, issued, pend, bubbles>>

\* What a turn makes of a request that the dead bot never answers.
Orphaned(j) ==
    IF j = NoJob THEN j
    ELSE IF j.pc \in Publishing THEN Lost(j)
    ELSE IF j.pc = "renewing" THEN [j EXCEPT !.pc = "over"]
    ELSE IF j.pc = "acking" THEN AckAgain(j)
    ELSE j

\* The restored journal: no lease survives a restart.
Restored == [m \in Msgs |-> [in |-> disk[m].in, rev |-> disk[m].rev, by |-> disk[m].by,
                             lease |-> 0, live |-> FALSE]]

BotDies ==
    /\ row' = Restored
    /\ durable' = TRUE /\ retry' = NoRetry
    /\ mut' = NoMut
    /\ pend' = [l \in Lanes |-> NoEdit]
    /\ job' = [l \in Lanes |-> Orphaned(job[l])]
    /\ Fault /\ UNCHANGED <<LaneOf, disk, issued, bubbles, batch, queue, ready>>

-----------------------------------------------------------------------------
\* Lanes are numbered in the order in which they are first used.
Init ==
    /\ LaneOf \in {f \in [Msgs -> Lanes] : \A m \in Msgs : f[m] = 1 \/ \E n \in 1 .. m - 1 : f[m] <= f[n] + 1}
    /\ row = [m \in Msgs |-> [in |-> "no", rev |-> 0, lease |-> 0, live |-> FALSE, by |-> 0]]
    /\ disk = OnDisk(row)
    /\ durable = TRUE /\ retry = NoRetry
    /\ mut = NoMut
    /\ issued = [m \in Msgs |-> 0]
    /\ pend = [l \in Lanes |-> NoEdit]
    /\ bubbles = [m \in Msgs |-> <<>>]
    /\ batch = <<>> /\ ready = <<>>
    /\ queue = [l \in Lanes |-> <<>>]
    /\ job = [l \in Lanes |-> NoJob]
    /\ faults = 0 /\ conflicts = 0 /\ revisions = 0

Done == \A m \in Msgs : row[m].in = "gone"

\* The journal is frozen and only another mutation that is saved thaws it: the
\* retry throws.
Stuck == ~durable /\ retry.throws

\* Nothing is left to do, or nothing that the bot would still do.
Rests == /\ \A l \in Lanes : job[l] = NoJob
         /\ Done \/ (Stuck /\ ~retry.armed /\ Quiet)

Turn(l) ==
    \/ Final(l) \/ Silent(l)
    \/ SendAccepted(l) \/ (EditAccepted(l, FALSE) /\ UNCHANGED counters) \/ SendRefused(l)
    \/ (Published(l, FALSE) /\ UNCHANGED counters)
    \/ Returns(l) \/ AckArrives(l) \/ JobEnds(l)

Requests(l) == Renew(l) \/ Ack(l)

Fails(l) ==
    \/ (EditAccepted(l, TRUE) /\ Fault) \/ (Published(l, TRUE) /\ Fault)
    \/ (SubmitFails(l) /\ Fault)
    \/ Throws(l) \/ AckFlushFails(l)

Saved == MutationSaved(FALSE) /\ UNCHANGED counters
SavedUnheard == mut.op \in {"lease", "renew", "ack"} /\ MutationSaved(TRUE) /\ Fault

Next ==
    \/ \E m \in Msgs : Arrives(m) \/ Revise(m) \/ OrphanLapses(m) \/ HeldLapses(m)
    \/ RetryWrite \/ Lease \/ Saved \/ SavedUnheard \/ MutationFails
    \/ Submit
    \/ \E l \in Lanes : Turn(l) \/ Requests(l) \/ Frame(l) \/ FrameDue(l) \/ Conflict(l) \/ Fails(l)
    \/ GatewayDies \/ BotDies
    \/ Rests /\ UNCHANGED vars

\* Requests and mutations are served in turn, timers fire, turns end, and the
\* network keeps a message until the bot has taken it; nothing is assumed of
\* faults, edits, conflicts and frames.
Fairness ==
    /\ WF_vars(RetryWrite) /\ WF_vars(Lease) /\ WF_vars(Saved)
    /\ WF_vars(Submit)
    /\ \A l \in Lanes : WF_vars(Turn(l)) /\ SF_vars(Requests(l))
    /\ \A m \in Msgs : WF_vars(Arrives(m)) /\ WF_vars(OrphanLapses(m))

Spec == Init /\ [][Next]_vars
FairSpec == Spec /\ Fairness

-----------------------------------------------------------------------------
(* Properties.                                                             *)

\* The shape of the state, and that the dispatcher keeps to its two limits.
TypeOK ==
    /\ \A m \in Msgs : /\ row[m].in \in {"no", "yes", "gone"} /\ row[m].rev \in 0 .. MaxRev
                       /\ row[m].lease \in 0 .. MaxLease /\ row[m].by \in 0 .. MaxLease
                       /\ row[m].live => row[m].in = "yes" /\ row[m].lease = issued[m]
    /\ durable \in BOOLEAN /\ retry \in [armed : BOOLEAN, throws : BOOLEAN]
    /\ batch \in Seq(Claims) /\ \A l \in Lanes : queue[l] \in Seq(Claims)
    /\ Pending <= MaxPending
    /\ Cardinality({l \in Lanes : job[l] # NoJob}) <= MaxConcurrent
    /\ IsInjective(ready) /\ Range(ready) \subseteq {l \in Lanes : queue[l] # <<>> /\ job[l] = NoJob}

\* A lane's messages are worked on one at a time and in order: while one holds
\* a lease, no earlier message of the lane is left in the journal, through
\* failed writes, restarts and stale workers (index.mjs:3585-3594).
LaneInOrder ==
    \A m, n \in Msgs : m < n /\ LaneOf[m] = LaneOf[n] /\ row[n].live => row[m].in = "gone"

\* A message that left the journal as answered has its whole answer on the
\* user's screen, however the frames were coalesced (index.mjs:4039-4042).
AnsweredIsSeen ==
    \A m \in Msgs : row[m].by # 0 =>
        \E i \in DOMAIN bubbles[m] : bubbles[m][i].lease = row[m].by /\ bubbles[m][i].text = "final"

Finals(m, r) == {i \in DOMAIN bubbles[m] : bubbles[m][i].text = "final" /\ bubbles[m][i].rev = r}

\* At-least-once stays close to once: each fault costs
\* the user at most one more copy of an answer.
RepeatsArePaid ==
    \A m \in Msgs, r \in 0 .. MaxRev : Cardinality(Finals(m, r)) <= 1 + faults

\* "Retrying once is safe because no bridge acknowledgement was sent yet"
\* (gateway.ts:778-779): a lost session commit alone repeats no answer.
RetryIsSafe ==
    faults = conflicts => \A m \in Msgs, r \in 0 .. MaxRev : Cardinality(Finals(m, r)) <= 1

\* Nothing is shown for a message whose author has changed or deleted it
\* meanwhile, nor by a worker whose row is gone: bridge.md:151-154.
NoStaleAnswer ==
    [][\A m \in Msgs : bubbles'[m] # bubbles[m] =>
          /\ row[m].in = "yes"
          /\ \E i \in DOMAIN bubbles'[m] : bubbles'[m][i].rev = row[m].rev
                /\ (i \in DOMAIN bubbles[m] => bubbles'[m][i] # bubbles[m][i])]_vars

\* Every message that arrives leaves the journal in the end, acknowledged or
\* deleted, whatever finitely many faults happen on the way (index.mjs:825-845,
\* 3581-3617). The one exception of the code: a deletion whose write failed
\* makes the durability retry throw (646-647, 836), and no later mutation is
\* saved, so that nothing ends the freeze.
TakenIsFinished ==
    \/ <>[]Stuck
    \/ \A m \in Msgs : row[m].in = "yes" ~> row[m].in = "gone"
=============================================================================
