----------------------------- MODULE T3amsLive -----------------------------
(***************************************************************************)
(* The thinking placeholders of the T3ams transport, in one lane: the      *)
(* timer that posts one when a turn is slow, the progress frames, and the  *)
(* four who retire it: the answer, the acknowledgement of a streamed       *)
(* answer, the placeholder's time to live, and the revocation after an     *)
(* edit or a deletion.                                                     *)
(*   transports/t3ams/index.mjs 1622-1657, 1771-2008, 2235-2372, 3619-3625,*)
(*       3679-3717, 4109-4197; t3ams-live-revocation.mjs; live-reply.mjs   *)
(* The turns are those of the direct agent, or of bridge workers that hold *)
(* a lease on a row of the journal.                                        *)
(* Not modelled: throttling and coalescing of frames (LiveReply), the text *)
(* of a frame, typing signals, artifacts, the flushes of rows that are     *)
(* completed or leased (T3amsJournal, T3amsBridge); a crash, which forgets *)
(* every placeholder.                                                      *)
(***************************************************************************)
EXTENDS Naturals

CONSTANTS
  Messages,  \* messages of the lane, in their order
  MaxTurns,  \* bound: turns, or leases
  MaxFrames, \* bound: progress frames of a placeholder
  Plans      \* [brain: "direct" or "bridge", changes: how often the author edits or
             \*  deletes, or (directly) stops, faults: [Kinds -> Nat]]

Entries == 1 .. Messages
Turns  == 1 .. MaxTurns
None   == 0

VARIABLES
  row,      \* the revision of each message in the journal, None when it is gone
  lease,    \* the lease on each row: who has it, and whether it still runs
  kept,     \* the revision of which each row holds a finished answer (replyOutbox)
  turn,     \* the turns
  started,  \* how many of them have begun
  timer,    \* thinkingTimers: the turn that armed it, or None
  slot,     \* livePlaceholders: the placeholder of the lane, or None
  bubble,   \* the placeholder that each turn's timer posted
  edits,    \* bridgePendingEdits: the worker whose streamed frame is the last one
  mut,      \* the change of the author that is being written to disk: the status
            \* it asks for, and whether outbox directories are left to remove
  revoked,  \* the status that liveRevocation holds for the lane
  durable,  \* [now, retry, throws]: ingressDurable, its retry timer, and whether
            \* deferredAgentArtifactOutboxCleanup holds what makes the retry throw
  plan, left

journal == <<row, lease, kept>>
turns == <<turn, started>>
disk == <<mut, revoked, durable>>
vars == <<journal, turns, timer, slot, bubble, edits, disk, plan, left>>

(* change: the author edits, deletes or stops; submit: the node refuses a  *)
(* statement; disk: a flush fails; lapse: a lease runs out; brain: the     *)
(* agent fails.                                                            *)
Kinds == {"change", "submit", "disk", "lapse", "brain"}
Fault(kind) == left[kind] > 0 /\ left' = [left EXCEPT ![kind] = @ - 1]

Direct == plan.brain = "direct"

NoMut == [status |-> "none", outbox |-> FALSE]

NoBubble == [state |-> "none", flight |-> FALSE, final |-> FALSE, taker |-> "none", by |-> None,
             status |-> "none", text |-> "spinning", lost |-> FALSE, frames |-> 0]

Init ==
  /\ plan \in Plans /\ left = plan.faults
  /\ row = [m \in Entries |-> 1] /\ lease = [m \in Entries |-> [by |-> None, live |-> FALSE]]
  /\ kept = [m \in Entries |-> None]
  /\ turn = [n \in Turns |-> [pc |-> "none", m |-> None, rev |-> None]] /\ started = 0
  /\ timer = None /\ slot = None /\ edits = None
  /\ bubble = [n \in Turns |-> NoBubble]
  /\ mut = NoMut /\ revoked = "none" /\ durable = [now |-> TRUE, retry |-> FALSE, throws |-> FALSE]

-----------------------------------------------------------------------------
(* ingressEntryCurrent of a direct turn, bridgeLeaseIsActive of a worker.  *)
Current(n) ==
  /\ row[turn[n].m] = turn[n].rev
  /\ Direct \/ lease[turn[n].m] = [by |-> n, live |-> TRUE]

(* The fence of a placeholder's own frames. That of a bridge lane asks for *)
(* the row's lease, whoever has it now.                                    *)
Fence(p) ==
  IF Direct THEN row[turn[p].m] = turn[p].rev
  ELSE row[turn[p].m] # None /\ lease[turn[p].m].live

Goes(n, pc) == turn' = [turn EXCEPT ![n].pc = pc]

(* armThinking: unless a timer or a placeholder is there already.          *)
Armed(n) == IF timer = None /\ slot = None THEN n ELSE timer

Waiting(m) == row[m] # None /\ \A k \in Entries : k < m => row[k] = None
Busy == \E n \in Turns : turn[n].pc \notin {"none", "over"}

(* A finished answer is delivered without another run of the agent.        *)
Resumes(m) == Direct /\ kept[m] = row[m]

(* pumpIngress and leaseBridgeIngress: the oldest row of the lane. A bridge*)
(* worker may still be at work when its lease is gone.                     *)
Starts ==
  /\ started < MaxTurns /\ durable.now
  /\ IF Direct THEN ~Busy ELSE mut = NoMut /\ \A m \in Entries : ~lease[m].live
  /\ \E m \in Entries :
       LET n == started + 1 IN
       /\ Waiting(m)
       /\ started' = n /\ turn' = [turn EXCEPT ![n] = [pc |-> "work", m |-> m, rev |-> row[m]]]
       /\ lease' = IF Direct THEN lease ELSE [lease EXCEPT ![m] = [by |-> n, live |-> TRUE]]
       /\ timer' = IF Resumes(m) THEN timer ELSE Armed(n)
       /\ edits' = None
  /\ UNCHANGED <<row, kept, slot, bubble, disk, plan, left>>

(* The timer fires: the placeholder of a turn that is still wanted is sent.*)
TimerFires ==
  /\ timer # None /\ timer' = None
  /\ IF Fence(timer) /\ slot = None
     THEN slot' = timer /\ bubble' = [bubble EXCEPT ![timer].state = "posting"]
     ELSE UNCHANGED <<slot, bubble>>
  /\ UNCHANGED <<journal, turns, edits, disk, plan, left>>

-----------------------------------------------------------------------------
(* Who takes the placeholder out of its slot becomes the one to retire it; *)
(* one that is still being posted is awaited.                              *)

(* Mutant: only a placeholder that is there already is taken. *)
TakenIfLive(b, who, n, status) ==
  IF b.state = "posting" THEN b
  ELSE [b EXCEPT !.taker = who, !.by = n, !.status = status, !.final = (b.state = "live")]

(* takeLivePlaceholder, and the first line of finalize: no frames any more.*)
Taken(b, who, n, status) ==
  [b EXCEPT !.taker = who, !.by = n, !.status = status, !.final = (b.state = "live")]

Takes(who, n, status) ==
  /\ slot' = None
  /\ bubble' = [bubble EXCEPT ![slot] = Taken(@, who, n, status)]

(* updateBridgeLeases: an acknowledged row leaves; the lane is disarmed.   *)
Completes(n) ==
  /\ row' = [row EXCEPT ![turn[n].m] = None]
  /\ lease' = [lease EXCEPT ![turn[n].m] = [by |-> None, live |-> FALSE]]
  /\ UNCHANGED kept

(* What the turn does once it has no placeholder to retire.                *)
Retired(b, n) ==
  IF b.taker = "turn" THEN Goes(n, "parts") /\ UNCHANGED journal
  ELSE IF b.taker = "ack" THEN Goes(n, "over") /\ Completes(n)
  ELSE UNCHANGED <<turn, journal>>

(* finalizeBridgeEdits looks at the lease again before it retires.         *)
StillWanted(b) == b.taker = "ack" => edits = b.by /\ Current(b.by)

(* begin: the placeholder is there, or it could not be posted, or its      *)
(* fence refused it.                                                       *)
Posted(p) ==
  LET b == bubble[p] IN
  /\ b.state = "posting"
  /\ \/ /\ Fence(p)
        /\ bubble' = [bubble EXCEPT ![p] = [b EXCEPT !.state = "live",
              !.final = (b.taker # "none" /\ StillWanted(b)), !.lost = ~StillWanted(b)]]
        /\ IF StillWanted(b) THEN UNCHANGED turn ELSE Goes(b.by, "over")
        /\ UNCHANGED <<left, journal>>
     \/ /\ ~Fence(p) /\ UNCHANGED left
        /\ bubble' = [bubble EXCEPT ![p].state = "failed"] /\ Retired(b, b.by)
     \/ /\ Fence(p) /\ Fault("submit")
        /\ bubble' = [bubble EXCEPT ![p].state = "failed"] /\ Retired(b, b.by)
  /\ UNCHANGED <<started, timer, slot, edits, disk, plan>>

(* The heartbeat or a tool of the agent: a frame under the fence.          *)
Frame(p) ==
  /\ bubble[p].state = "live" /\ ~bubble[p].final /\ ~bubble[p].flight /\ ~bubble[p].lost /\ Fence(p)
  /\ bubble[p].frames < MaxFrames
  /\ bubble' = [bubble EXCEPT ![p].flight = TRUE, ![p].frames = @ + 1]
  /\ UNCHANGED <<journal, turns, timer, slot, edits, disk, plan, left>>

(* It lands, or it is dropped.                                             *)
FrameSettles(p) ==
  /\ bubble[p].flight
  /\ bubble' = [bubble EXCEPT ![p].flight = FALSE, ![p].text = "spinning"]
  /\ UNCHANGED <<journal, turns, timer, slot, edits, disk, plan, left>>

(* Only the answer retires under a fence: its claim, or, directly, that of *)
(* the turn that posted the placeholder.                                   *)
MayRetire(p) ==
  bubble[p].taker = "turn" => IF Direct THEN Fence(p) ELSE Current(bubble[p].by)

(* Mutant: the terminal text does not wait for the frame in flight. *)
SettledAtOnce(b) == TRUE

Settled(b) == ~b.flight

(* finalize: after the last frame has landed. What is fenced or refused is *)
(* not tried again: nobody holds the placeholder any more.                 *)
Finalizes(p) ==
  LET b == bubble[p] IN
  /\ b.final /\ Settled(b) /\ b.text = "spinning" /\ ~b.lost
  /\ \/ /\ MayRetire(p) /\ bubble' = [bubble EXCEPT ![p].text = b.status]
        /\ Retired(b, b.by) /\ UNCHANGED left
     \/ /\ ~MayRetire(p) /\ bubble' = [bubble EXCEPT ![p].lost = TRUE]
        /\ Goes(b.by, "over") /\ UNCHANGED <<journal, left>>
     \/ /\ MayRetire(p) /\ Fault("submit") /\ bubble' = [bubble EXCEPT ![p].lost = TRUE]
        /\ IF b.by = None THEN UNCHANGED turn ELSE Goes(b.by, "over")
        /\ UNCHANGED journal
  /\ UNCHANGED <<started, timer, slot, edits, disk, plan>>

(* The placeholder's time to live.                                         *)
Expires ==
  /\ slot # None /\ bubble[slot].state = "live" /\ Takes("ttl", None, "timeout")
  /\ UNCHANGED <<journal, turns, timer, edits, disk, plan, left>>

-----------------------------------------------------------------------------
(* Turns.                                                                  *)

(* A turn that an edit, a deletion or a lapsed lease has overtaken.        *)
Superseded(n) ==
  /\ turn[n].pc \in {"work", "parts", "sent"} /\ ~Current(n) /\ Goes(n, "over")
  /\ timer' = IF turn[n].pc = "work" /\ timer = n /\ Direct THEN None ELSE timer
  /\ UNCHANGED <<journal, started, slot, bubble, edits, disk, plan, left>>

(* deliverPersistedAgentReply, POST /send: the lane is disarmed, the fence *)
(* looked at, and the placeholder taken.                                   *)
Replies(n) ==
  /\ turn[n].pc = "work" /\ Current(n)
  /\ timer' = None /\ edits' = IF Direct THEN edits ELSE None
  /\ kept' = [kept EXCEPT ![turn[n].m] = IF Direct THEN turn[n].rev ELSE @]
  /\ IF slot = None THEN Goes(n, "parts") /\ UNCHANGED <<slot, bubble>>
     ELSE IF bubble[slot].state = "failed" THEN Goes(n, "parts") /\ slot' = None /\ UNCHANGED bubble
     ELSE Goes(n, "take") /\ Takes("turn", n, "done")
  /\ UNCHANGED <<row, lease, started, disk, plan, left>>

(* The answer goes out; a direct row is then complete.                     *)
SendsParts(n) ==
  /\ turn[n].pc = "parts" /\ Current(n)
  /\ \/ /\ UNCHANGED left
        /\ IF Direct THEN Goes(n, "over") /\ Completes(n)
           ELSE Goes(n, "sent") /\ UNCHANGED journal
     \/ Fault("submit") /\ Goes(n, "over") /\ UNCHANGED journal
  /\ UNCHANGED <<started, timer, slot, bubble, edits, disk, plan>>

(* A file command, or the confirmation of a command, is a plain message:   *)
(* it disarms the lane and takes no placeholder.                           *)
Command(n) ==
  /\ Direct /\ turn[n].pc = "work" /\ Current(n) /\ kept[turn[n].m] # turn[n].rev
  /\ timer' = None /\ Goes(n, "over") /\ Completes(n)
  /\ UNCHANGED <<started, slot, bubble, edits, disk, plan, left>>

BrainFails(n) ==
  /\ turn[n].pc = "work" /\ Fault("brain") /\ Goes(n, "over")
  /\ UNCHANGED <<journal, started, timer, slot, bubble, edits, disk, plan>>

(* POST /send with edit_of, of an older message of the bot.                *)
Streams(n) ==
  /\ ~Direct /\ turn[n].pc = "work" /\ Current(n) /\ edits # n
  /\ timer' = None /\ edits' = n
  /\ UNCHANGED <<journal, turns, slot, bubble, disk, plan, left>>

(* POST /ack: a streamed answer is promoted, and a placeholder beside it is*)
(* retired; then the row leaves, which disarms the lane.                   *)
Acks(n) ==
  /\ ~Direct /\ turn[n].pc \in {"work", "sent"} /\ Current(n)
  /\ IF edits = n /\ slot # None /\ bubble[slot].state # "failed"
     THEN Goes(n, "take") /\ Takes("ack", n, "done") /\ UNCHANGED <<journal, timer>>
     ELSE Goes(n, "over") /\ Completes(n) /\ timer' = None /\ UNCHANGED <<slot, bubble>>
  /\ UNCHANGED <<started, edits, disk, plan, left>>

Lapses(m) ==
  /\ lease[m].live /\ Fault("lapse") /\ lease' = [lease EXCEPT ![m].live = FALSE]
  /\ UNCHANGED <<row, kept, turns, timer, slot, bubble, edits, disk, plan>>

-----------------------------------------------------------------------------
(* Edits, deletions and /stop.                                             *)

(* Whose live status is replaced: of a direct row in any case, of a bridge *)
(* row when it was leased.                                                 *)
Revokes(m) == Direct \/ lease[m].by # None

Gone(m) ==
  /\ row' = [row EXCEPT ![m] = None]
  /\ lease' = [lease EXCEPT ![m] = [by |-> None, live |-> FALSE]]

Asks(status, outbox) == mut' = [status |-> status, outbox |-> outbox]

(* reconcileQueuedIngressOperation, up to its flush: an edit, a deletion,  *)
(* and an edit after which a worker's row no longer addresses the bot.     *)
Changes(m) ==
  /\ mut = NoMut /\ row[m] # None /\ Fault("change")
  /\ \/ /\ row' = [row EXCEPT ![m] = @ + 1]
        /\ lease' = [lease EXCEPT ![m] = [by |-> None, live |-> FALSE]]
        /\ Asks(IF Revokes(m) THEN "edited" ELSE "plain", Resumes(m))
     \/ Gone(m) /\ Asks(IF Revokes(m) THEN "deleted" ELSE "plain", TRUE)
     \/ ~Direct /\ Gone(m) /\ Asks("plain", TRUE)
  /\ UNCHANGED <<kept, turns, timer, slot, bubble, edits, revoked, durable, plan>>

(* cancelUnfinishedIngressForSession                                       *)
Stops ==
  /\ Direct /\ mut = NoMut /\ \E m \in Entries : row[m] # None
  /\ Fault("change")
  /\ row' = [m \in Entries |-> IF kept[m] = row[m] THEN row[m] ELSE None]
  /\ row' # row /\ Asks("stopped", TRUE)
  /\ UNCHANGED <<lease, kept, turns, timer, slot, bubble, edits, revoked, durable, plan>>

(* liveRevocation.queue: the last status of a lane counts.                 *)
Queued == IF mut.status \in {"none", "plain", "stopped"} THEN revoked ELSE mut.status

(* liveRevocation.flush: disarm, take, and retire without a fence.         *)
Flushes(status) ==
  IF status = "none" THEN UNCHANGED <<timer, slot, bubble>>
  ELSE /\ timer' = None
       /\ IF slot = None THEN UNCHANGED <<slot, bubble>> ELSE Takes("revoke", None, status)

(* The change is on disk. A stop flushes nothing.                          *)
Saved ==
  /\ mut # NoMut /\ mut' = NoMut /\ durable' = [durable EXCEPT !.now = TRUE]
  /\ IF mut.status = "stopped" THEN UNCHANGED <<revoked, timer, slot, bubble>>
     ELSE revoked' = "none" /\ Flushes(Queued)
  /\ edits' = IF mut.status \in {"plain", "stopped"} THEN edits ELSE None
  /\ UNCHANGED <<journal, turns, plan, left>>

(* It is not: what is shown to the user, and the removal of the outbox     *)
(* directories, wait for the retry.                                        *)
Unsaved ==
  /\ mut # NoMut /\ Fault("disk") /\ mut' = NoMut /\ revoked' = Queued
  /\ durable' = [now |-> FALSE, retry |-> TRUE, throws |-> durable.throws \/ mut.outbox]
  /\ UNCHANGED <<journal, turns, timer, slot, bubble, edits, plan>>

RetrySaves ==
  /\ durable.retry /\ ~durable.throws /\ mut = NoMut
  /\ durable' = [durable EXCEPT !.now = TRUE, !.retry = FALSE]
  /\ revoked' = "none" /\ Flushes(revoked)
  /\ UNCHANGED <<journal, turns, edits, mut, plan, left>>

(* The removal names a variable that is not declared: the retry ends there,*)
(* nothing is flushed, the journal stays frozen, and no retry is armed.    *)
RetryThrows ==
  /\ durable.retry /\ durable.throws /\ mut = NoMut
  /\ durable' = [durable EXCEPT !.retry = FALSE]
  /\ UNCHANGED <<journal, turns, timer, slot, bubble, edits, mut, revoked, plan, left>>

(* Another change of the journal is written first.                         *)
OtherSaves ==
  /\ ~durable.now /\ mut = NoMut /\ durable' = [durable EXCEPT !.now = TRUE]
  /\ UNCHANGED <<journal, turns, timer, slot, bubble, edits, mut, revoked, plan, left>>

-----------------------------------------------------------------------------
Steps ==
  \/ Starts \/ TimerFires \/ Expires \/ Saved \/ RetrySaves \/ RetryThrows
  \/ \E n \in Turns :
       \/ Posted(n) \/ FrameSettles(n) \/ Finalizes(n)
       \/ Superseded(n) \/ Replies(n) \/ SendsParts(n) \/ Command(n) \/ Acks(n)

Next ==
  \/ Steps \/ Unsaved \/ OtherSaves \/ Stops
  \/ \E n \in Turns : Frame(n) \/ BrainFails(n) \/ Streams(n)
  \/ \E m \in Entries : Changes(m) \/ Lapses(m)

(* Timers fire, submits and flushes settle, turns go on.                   *)
Fairness == WF_vars(Steps)

Spec == Init /\ [][Next]_vars /\ Fairness
-----------------------------------------------------------------------------
TypeOK ==
  /\ started \in 0 .. MaxTurns /\ timer \in 0 .. MaxTurns /\ slot \in 0 .. MaxTurns /\ edits \in 0 .. MaxTurns
  /\ \A m \in Entries : row[m] \in Nat /\ kept[m] \in Nat /\ lease[m] \in [by : {None} \cup Turns, live : BOOLEAN]
  /\ \A n \in Turns : turn[n].pc \in {"none", "work", "take", "parts", "sent", "over"}
  /\ \A p \in Turns :
       /\ bubble[p].state \in {"none", "posting", "live", "failed"}
       /\ bubble[p].taker \in {"none", "turn", "ack", "ttl", "revoke"}
       /\ bubble[p].text \in {"spinning", "done", "timeout", "edited", "deleted"}
  /\ mut \in [status : {"none", "plain", "stopped", "edited", "deleted"}, outbox : BOOLEAN] /\ revoked \in {"none", "edited", "deleted"}

(* A placeholder that shows its last word keeps it: no frame that was on   *)
(* its way when it was retired, by whomever, turns it back into one that   *)
(* works (live-reply.mjs:152-159).                                         *)
RetiredStaysRetired ==
  [][\A p \in Turns : bubble[p].text # "spinning" => bubble'[p].text = bubble[p].text]_vars

(* A placeholder that appears is retired in the end, also when it was      *)
(* still being posted as its turn ended, was answered or was revoked,      *)
(* unless the one who took it could not retire it (t3ams/index.mjs:1875,   *)
(* 1920-1934).                                                             *)
BubbleIsRetired == \A p \in Turns :
  [](bubble[p].state = "live" => <>(bubble[p].text # "spinning" \/ bubble[p].lost))

-----------------------------------------------------------------------------
(* What the comments say and the code does not do.                         *)

(* Without a fault of the node, no placeholder is left that nobody will    *)
(* retire: "Taking it first would strand the thinking bubble forever"      *)
(* (t3ams/index.mjs:1631-1634). The answer takes a placeholder under the   *)
(* fence of the turn that posted it. One that a stopped turn or a command  *)
(* left in the slot, or whose message is edited while the last frame       *)
(* lands, is taken, fenced, and spins on.                                  *)
NothingDangles == \A p \in Turns :
  bubble[p].state = "live" /\ bubble[p].text = "spinning" /\ bubble[p].lost =>
    plan.faults["submit"] > left["submit"]

(* A placeholder says that its message was deleted or edited only if it    *)
(* was: "An authenticated edit/delete invalidates the worker which         *)
(* originally opened a thinking placeholder" (t3ams-live-revocation.mjs:   *)
(* 3-4). A direct row that only waits in the lane revokes what the turn    *)
(* before it shows.                                                        *)
StatusIsItsOwn == \A p \in Turns :
  bubble[p].text \in {"edited", "deleted"} => row[turn[p].m] # turn[p].rev
=============================================================================
