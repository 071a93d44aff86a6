---------------------------- MODULE T3amsJournal ----------------------------
(***************************************************************************)
(* The durable ingress journal of the T3ams transport with a direct brain  *)
(* (src/bot-core/transports/t3ams/index.mjs): how retained messages, edits *)
(* and deletes are admitted, run and answered, and what a crash leaves.    *)
(*                                                                         *)
(* One inbound callback, one task for each conversation lane and the       *)
(* durability retry change the journal through one first-in-first-out      *)
(* queue of mutations. A mutation has a part that runs when its turn comes,*)
(* a wait for the state file, and a part that runs after it. Both parts    *)
(* are microtasks: no event comes between them and what starts them.       *)
(*                                                                         *)
(* Not modelled: bridge entries and leases (BridgeQueue has those of       *)
(* bot-core), local file commands and echo, the quotas of the outboxes and *)
(* of the analyzer (either outcome is taken), conversation pins, and live  *)
(* placeholders (LiveReply).                                               *)
(***************************************************************************)
EXTENDS Naturals, Sequences, FiniteSets, SequencesExt

CONSTANTS
  Lanes,        \* the conversation lanes: a chat or a thread of it
  PerLane,      \* bound: messages the user posts to each lane
  StopAt,       \* the places in a lane at which the user posts /stop
  MediaAt,      \* the places of messages with an analysable attachment
  MaxEdits,     \* bound: edits of each prompt
  MaxRevised,   \* bound: prompts the user edits or deletes
  Silent,       \* the edits that no longer address the bot
  Parts,        \* messages one answer is split into
  IngressCap,   \* BOT_INBOUND_CAP, entries of the journal
  MaxFaults     \* bound: crashes, failed writes, failed brains and requests

ASSUME ConstantsAssumption ==
  /\ PerLane \in Nat /\ MaxEdits \in Nat /\ Parts \in Nat \ {0}
  /\ IngressCap \in Nat \ {0}
  /\ Silent \subseteq 1 .. MaxEdits
  /\ MaxFaults \in Nat /\ MaxRevised \in Nat
  /\ Lanes \cap {"callback", "retry"} = {}

VARIABLES
  posted,     \* the newest version of each message that T3ams retains
  ingress,    \* the journal: its messages, oldest first
  entry,      \* the journal's row of each of them
  seen,       \* the committed claims of the protocol
  life,       \* messageLifecycle: the version last applied of each message
  dead,       \* deadLetters
  durable,    \* ingressDurable
  deferred,   \* deferredAgentArtifactOutboxCleanup
  armed,      \* ingressDurabilityRetryTimer is set
  callback,   \* the inbound callback that runs
  mutations,  \* the queue of mutateIngress: who waits for its turn
  waiting,    \* whether the head of the queue waits for the state file
  undo,       \* what the head of the queue needs if the write fails
  tasks,      \* the dispatcher: tasks of each lane, as <<message, revision>>
  running,    \* runningIngress
  stalled,    \* a durability retry threw, and the pump has not run since
  turn,       \* what the first task of each lane is doing
  staged,     \* the messages whose outbox directory holds their file
  pending,    \* the snapshot the store has still to write
  disk,       \* the state file
  out,        \* the answer parts on T3ams, as <<message, version, part>>
  analyzed,   \* what was sent to the analyzer, as <<message, revision>>
  stopped,    \* the messages that a /stop cancelled
  faults      \* how many faults happened so far

journal == <<ingress, entry, seen, life, dead>>
control == <<durable, deferred, armed>>
work    == <<tasks, running, stalled, turn>>
effects == <<staged, out, analyzed, stopped>>
vars == <<posted, journal, control, callback, mutations, waiting, undo, work, effects,
          pending, disk, faults>>

Messages  == Lanes \X (1 .. PerLane)
LaneOf(m) == m[1]
IsStop(m) == m[2] \in StopAt
HasMedia(m) == m[2] \in MediaAt
Deleted   == MaxEdits + 1
Gone      == Silent \cup {Deleted}
FilePart  == Parts + 1
None      == <<>>

(* agentReplyOutbox and agentArtifactOutbox of one turn.                   *)
Outbox(file) == [next |-> 1, file |-> file]
NoOutbox  == [next |-> 0, file |-> "none"]
Row(v, rev) == [rev |-> rev, ver |-> v, done |-> FALSE, delayed |-> FALSE, media |-> "none",
              box |-> NoOutbox]
NoTurn    == [phase |-> "idle", msg |-> None, rev |-> 0, ver |-> 0, abort |-> FALSE,
              file |-> "none"]
Idle      == [phase |-> "idle", msg |-> None]

NoUndo    == [clean |-> {}, ingress |-> <<>>]
Cleans(M) == [NoUndo EXCEPT !.clean = M]

Callback == "callback"
Retry    == "retry"

-----------------------------------------------------------------------------
(* The journal, its snapshot and its mutation queue.                       *)

Journaled(m) == Contains(ingress, m)
Current(m, rev) == Journaled(m) /\ entry[m].rev = rev

(* ingress.splice for each message of M: the others keep their order.      *)
Splices(M) ==
  LET kept == {i \in DOMAIN ingress : ingress[i] \notin M}
  IN \E f \in Surjection(1 .. Cardinality(kept), kept) :
       /\ \A i, j \in DOMAIN f : i < j => f[i] < f[j]
       /\ ingress' = [i \in DOMAIN f |-> ingress[f[i]]]

Snapshot == [ingress |-> ingress, entry |-> entry, seen |-> seen, life |-> life, dead |-> dead]
Saved == pending' = Snapshot'

(* A mutation that was enqueued runs before the next event.                *)
Quiet == mutations = <<>> \/ waiting

HeadIs(a) == mutations # <<>> /\ Head(mutations) = a
Runs(a)  == HeadIs(a) /\ ~waiting
Waits(a) == HeadIs(a) /\ waiting
Flushed  == pending = None
Faults == faults < MaxFaults /\ faults' = faults + 1
WriteFails == pending # None /\ Faults

Write ==
  /\ pending # None
  /\ disk' = pending
  /\ pending' = None
  /\ UNCHANGED <<posted, journal, control, callback, mutations, waiting, undo, work, effects, faults>>

(* Mutant: a failed write freezes dispatch and nothing thaws it. *)
FrozenForGood == durable' = FALSE /\ UNCHANGED armed

(* persistCritical failed: freeze dispatch and retry in a second.          *)
Frozen == durable' = FALSE /\ armed' = TRUE

-----------------------------------------------------------------------------
(* pumpIngress: a lane gets its oldest entry as a task unless that one is  *)
(* running or delayed; e is the journal's rows.                            *)

(* Mutant: a lane whose oldest entry is delayed goes on with the next one. *)
NextPastDelayed(l) ==
  LET s == SelectSeq(ingress, LAMBDA m : LaneOf(m) = l /\ ~entry[m].delayed)
  IN IF s = <<>> THEN None ELSE Head(s)

(* The oldest entry of a lane.                                             *)
Places(s, l) == {i \in DOMAIN s : LaneOf(s[i]) = l}
Oldest(s, l) == IF Places(s, l) = {} THEN None ELSE s[Min(Places(s, l))]
NextOf(l)    == Oldest(ingress, l)

Ready(l, e, r) == NextOf(l) # None /\ NextOf(l) \notin r /\ ~e[NextOf(l)].delayed

(* The pump, if the journal is durable, over the tasks ts and the set r.   *)
Pump(on, e, ts, r) ==
  LET ready == {l \in Lanes : on /\ Ready(l, e, r)}
  IN /\ tasks' = [l \in Lanes |-> IF l \in ready
                    THEN Append(ts[l], <<NextOf(l), e[NextOf(l)].rev>>) ELSE ts[l]]
     /\ running' = r \cup {NextOf(l) : l \in ready}
     /\ stalled' = (stalled /\ ~on)

(* The first task of lane l settles: runningIngress.delete, then the pump. *)
TaskEnds(l, on) ==
  /\ turn' = [turn EXCEPT ![l] = NoTurn]
  /\ Pump(on, entry, [tasks EXCEPT ![l] = Tail(@)], running \ {turn[l].msg})

Goes(l, phase) == turn' = [turn EXCEPT ![l].phase = phase]

(* abortIngressTurn: the controllers of the turns of M that execute.       *)
Executing == {"fetch", "begin", "analyze", "result", "brain", "prepare", "send", "part",
              "uploaded", "sent", "confirm"}
Aborted(M) == [l \in Lanes |-> IF turn[l].msg \in M /\ turn[l].phase \in Executing
                                 THEN [turn[l] EXCEPT !.abort = TRUE] ELSE turn[l]]

TurnCurrent(l) == ~turn[l].abort /\ Current(turn[l].msg, turn[l].rev)

-----------------------------------------------------------------------------
(* Inbound: one callback at a time handles one retained statement.         *)

(* The author edits or deletes a prompt; the newer operation replaces the  *)
(* older one. Bound: only prompts.                                         *)
Revise(m) ==
  /\ posted[m] < Deleted /\ ~IsStop(m)
  /\ Cardinality({k \in Messages : posted[k] \in 1 .. Deleted} \cup {m}) <= MaxRevised
  /\ \E v \in posted[m] + 1 .. Deleted : posted' = [posted EXCEPT ![m] = v]
  /\ UNCHANGED <<journal, control, callback, mutations, waiting, undo, work, effects, pending,
                 disk, faults>>

CallbackGoes(phase, m) ==
  /\ callback' = [phase |-> phase, msg |-> m]
  /\ mutations' = Append(mutations, Callback)

(* claimInbound and routeOneInbound, up to the first await. Bound: the     *)
(* messages of a lane come in their order.                                 *)
MessageArrives(m) ==
  /\ callback = Idle
  /\ m \notin seen
  /\ \A k \in Messages : LaneOf(k) = LaneOf(m) /\ k[2] < m[2] => k \in seen
  /\ CallbackGoes(IF life[m] \in Gone THEN "history" ELSE IF IsStop(m) THEN "cancel" ELSE "admit", m)
  /\ turn' = IF IsStop(m) /\ life[m] \notin Gone
               THEN Aborted({k \in Messages : LaneOf(k) = LaneOf(m)}) ELSE turn
  /\ UNCHANGED <<posted, journal, control, waiting, undo, tasks, running, stalled, effects, pending, disk, faults>>

(* applyOperation: the last writer wins, an old operation is ignored.      *)
Newer(m) == posted[m] > life[m]

(* routeInboundOperation.                                                  *)
OperationArrives(m) ==
  /\ callback = Idle
  /\ Newer(m)
  /\ life' = [life EXCEPT ![m] = posted[m]]
  /\ CallbackGoes("reconcile", m)
  /\ UNCHANGED <<posted, ingress, entry, seen, dead, control, waiting, undo, work, effects,
                 pending, disk, faults>>

CallbackRuns == Runs(Callback) /\ waiting' = TRUE
CallbackWaits == Waits(Callback) /\ waiting' = FALSE /\ undo' = NoUndo
CallbackEnds == callback' = Idle /\ mutations' = Tail(mutations)

(* commitHistoryOnly.                                                      *)
CommitHistory ==
  /\ CallbackRuns /\ callback.phase = "history"
  /\ seen' = seen \cup {callback.msg}
  /\ UNCHANGED <<posted, ingress, entry, life, dead, control, callback, mutations, undo, work,
                 effects, disk, faults>>
  /\ Saved

(* Mutant: a journal that is full takes one more. *)
HasRoomForOne == Len(ingress) <= IngressCap

HasRoom == Len(ingress) < IngressCap

(* Mutant: the claim is committed although the journal is full. *)
AdmitDropped ==
  /\ CallbackRuns /\ callback.phase = "admit"
  /\ seen' = seen \cup {callback.msg}
  /\ LET m == callback.msg
         room == HasRoom
     IN /\ ingress' = IF room THEN Append(ingress, m) ELSE ingress
        /\ entry' = IF room THEN [entry EXCEPT ![m] = Row(life[m], 0)] ELSE entry
  /\ UNCHANGED <<posted, life, dead, control, callback, mutations, undo, work, effects, disk, faults>>
  /\ Saved

(* admitIngress: the entry and the claim are one mutation.                 *)
Admit ==
  /\ CallbackRuns /\ callback.phase = "admit"
  /\ HasRoom
  /\ LET m == callback.msg
     IN /\ ingress' = Append(ingress, m)
        /\ entry' = [entry EXCEPT ![m] = Row(life[m], 0)]
        /\ seen' = seen \cup {m}
  /\ UNCHANGED <<posted, life, dead, control, callback, mutations, undo, work, effects, disk, faults>>
  /\ Saved

(* The journal is full: the claim is released, the statement comes again.  *)
AdmitFull ==
  /\ Runs(Callback) /\ callback.phase = "admit"
  /\ ~HasRoom
  /\ CallbackEnds
  /\ UNCHANGED <<posted, journal, control, waiting, undo, work, effects, pending, disk, faults>>

(* cancelUnfinishedIngressForSession: /stop removes what has no answer.    *)
Unfinished(l) ==
  {m \in ToSet(ingress) : LaneOf(m) = l /\ ~entry[m].done /\ entry[m].box = NoOutbox}

Cancel ==
  LET M == Unfinished(LaneOf(callback.msg))
  IN /\ Runs(Callback) /\ callback.phase = "cancel"
     /\ UNCHANGED <<posted, entry, seen, life, dead, control, tasks, running, stalled, staged, out, analyzed, disk,
                    faults>>
     /\ stopped' = stopped \cup M
     /\ IF M = {}
          THEN /\ callback' = [callback EXCEPT !.phase = "admit"]
               /\ mutations' = Append(Tail(mutations), Callback)
               /\ UNCHANGED <<ingress, pending, waiting, undo, turn>>
          ELSE /\ Splices(M)
               /\ turn' = Aborted(M)
               /\ undo' = Cleans(M)
               /\ waiting' = TRUE
               /\ Saved
               /\ UNCHANGED <<callback, mutations>>

(* The row of an edited prompt is a new one of the next revision.          *)
Revised(m) == Row(life[m], entry[m].rev + 1)

(* reconcileQueuedIngressOperation; without a row only the lifecycle is    *)
(* saved, in a mutation of its own.                                        *)
Reconcile ==
  LET m == callback.msg
      gone == life[m] \in Gone
  IN /\ Runs(Callback) /\ callback.phase = "reconcile"
     /\ UNCHANGED <<posted, seen, life, dead, control, tasks, running, stalled, effects, disk, faults>>
     /\ IF Journaled(m) /\ ~entry[m].done
          THEN /\ IF gone THEN Splices({m}) ELSE UNCHANGED ingress
               /\ entry' = IF gone THEN entry ELSE [entry EXCEPT ![m] = Revised(m)]
               /\ turn' = Aborted({m})
               /\ undo' = IF gone \/ entry[m].box # NoOutbox THEN Cleans({m}) ELSE NoUndo
               /\ waiting' = TRUE
               /\ Saved
               /\ UNCHANGED <<callback, mutations>>
          ELSE /\ callback' = [callback EXCEPT !.phase = "lifecycle"]
               /\ mutations' = Append(Tail(mutations), Callback)
               /\ UNCHANGED <<ingress, entry, turn, undo, waiting, pending>>

SaveLifecycle ==
  /\ CallbackRuns /\ callback.phase = "lifecycle"
  /\ UNCHANGED <<posted, journal, control, callback, mutations, undo, work, effects, disk, faults>>
  /\ Saved

(* What follows a mutation of the callback: a cancelled lane still admits  *)
(* the /stop; every other phase ends the callback.                         *)
CallbackProceeds ==
  IF callback.phase = "cancel"
    THEN /\ callback' = [callback EXCEPT !.phase = "admit"]
         /\ mutations' = Append(Tail(mutations), Callback)
    ELSE CallbackEnds

CallbackFlushed ==
  /\ CallbackWaits /\ Flushed
  /\ CallbackProceeds
  /\ durable' = TRUE
  /\ staged' = staged \ undo.clean
  /\ IF callback.phase \in {"history", "admit", "reconcile"}
       THEN Pump(TRUE, entry, tasks, running)
       ELSE UNCHANGED <<tasks, running, stalled>>
  /\ UNCHANGED <<posted, journal, deferred, armed, turn, out, analyzed, stopped, pending, disk, faults>>

CallbackUnsaved ==
  /\ CallbackWaits /\ WriteFails
  /\ CallbackProceeds
  /\ Frozen
  /\ deferred' = deferred \cup undo.clean
  /\ UNCHANGED <<posted, journal, work, effects, pending, disk>>

-----------------------------------------------------------------------------
(* The tasks: executeIngressTurn between its awaits.                       *)

At(l, phase) == turn[l].phase = phase

(* A mutation of the turn is enqueued.                                     *)
Mutates(l, phase) == Goes(l, phase) /\ mutations' = Append(mutations, l)

(* The task ends without a mutation: superseded, aborted or nothing to do. *)
EndsAt(l) == TaskEnds(l, durable) /\ UNCHANGED mutations

(* The first check of executeIngressTurn.                                  *)
MayExecute(l, m, rev) == Current(m, rev)

(* Mutant: the brain is asked again although an answer is journaled. *)
PlanRerun(m) == IF IsStop(m) THEN "confirm" ELSE "fetch"

(* How a turn goes about its entry: a journaled answer is only delivered.  *)
Plan(m) == IF IsStop(m) THEN "confirm" ELSE IF entry[m].box = NoOutbox THEN "fetch" ELSE "send"

TaskStarts(l) ==
  /\ tasks[l] # <<>> /\ At(l, "idle")
  /\ LET m == Head(tasks[l])[1]
         rev == Head(tasks[l])[2]
         starts == [NoTurn EXCEPT !.msg = m, !.rev = rev, !.ver = entry[m].ver]
     IN IF entry[m].done
          THEN /\ turn' = [turn EXCEPT ![l] = [starts EXCEPT !.phase = "complete"]]
               /\ mutations' = Append(mutations, l)
               /\ UNCHANGED <<tasks, running, stalled>>
          ELSE IF MayExecute(l, m, rev)
          THEN /\ turn' = [turn EXCEPT ![l] = [starts EXCEPT !.phase = Plan(m)]]
               /\ UNCHANGED <<tasks, running, stalled, mutations>>
          ELSE /\ turn' = turn
               /\ Pump(durable, entry, [tasks EXCEPT ![l] = Tail(@)], running \ {m})
               /\ UNCHANGED mutations
  /\ UNCHANGED <<posted, journal, control, callback, waiting, undo, effects, pending, disk, faults>>

(* Mutant: whatever the journal knows, the attachment is analysed. *)
AnalyzesAgain(m) == HasMedia(m)

(* A boundary or a result that was journaled is not asked for again.       *)
Analyzes(m) == HasMedia(m) /\ entry[m].media = "none"

(* The attachments are there.                                              *)
Fetched(l) ==
  /\ At(l, "fetch")
  /\ LET m == turn[l].msg
     IN IF ~TurnCurrent(l) THEN EndsAt(l)
        ELSE IF Analyzes(m) THEN Mutates(l, "begin") /\ UNCHANGED <<tasks, running, stalled>>
        ELSE Goes(l, "brain") /\ UNCHANGED <<tasks, running, stalled, mutations>>
  /\ UNCHANGED <<posted, journal, control, callback, waiting, undo, effects, pending, disk, faults>>

(* The analyzer answers, or fails: both are a result. The request was made *)
(* when the boundary was durable.                                          *)
Analyzed(l) ==
  /\ At(l, "analyze")
  /\ IF ~TurnCurrent(l) THEN EndsAt(l) ELSE Mutates(l, "result") /\ UNCHANGED <<tasks, running, stalled>>
  /\ UNCHANGED <<posted, journal, control, callback, waiting, undo, effects, pending, disk, faults>>

(* copyAgentArtifactToOutbox: the bytes are on disk before the journal     *)
(* names them.                                                             *)
Stages(m, file) == staged' = IF file = "staged" THEN staged \cup {m} ELSE staged

(* handleMessage answered: deliverAgentTurn copies the files, if there are *)
(* any and the quota allows them, and journals answer and manifest.        *)
BrainAnswers(l) ==
  /\ At(l, "brain")
  /\ \E file \in {"none", "staged"} :
       IF turn[l].abort \/ ~Current(turn[l].msg, turn[l].rev)
         THEN file = "none" /\ EndsAt(l) /\ UNCHANGED staged
         ELSE /\ turn' = [turn EXCEPT ![l].phase = "prepare", ![l].file = file]
              /\ Stages(turn[l].msg, file)
              /\ mutations' = Append(mutations, l)
              /\ UNCHANGED <<tasks, running, stalled>>
  /\ UNCHANGED <<posted, journal, control, callback, waiting, undo, out, analyzed, stopped, pending, disk, faults>>

(* The catch: a superseded task just ends; a terminal error makes a dead   *)
(* letter, any other one a delayed retry.                                  *)
Catch(l, phase) ==
  IF Current(turn[l].msg, turn[l].rev)
    THEN Mutates(l, phase) /\ UNCHANGED <<tasks, running, stalled>>
    ELSE EndsAt(l)

TurnFails(l) ==
  /\ turn[l].phase \in {"fetch", "brain", "confirm", "send"}
  /\ Faults
  /\ \E phase \in {"defer", "dead"} :
       /\ At(l, "brain") => phase = "defer"
       /\ IF turn[l].abort /\ At(l, "brain") THEN EndsAt(l) ELSE Catch(l, phase)
  /\ UNCHANGED <<posted, journal, control, callback, waiting, undo, effects, pending, disk>>

(* Mutant: the submitter does not recheck the revision. *)
MaySubmitStale(l) == TRUE

(* The guard the serialized submitter runs before it writes.               *)
MaySubmit(l) == Current(turn[l].msg, turn[l].rev)

(* A submit writes one statement; the priority clock saves the state.      *)
Publishes(l, part) ==
  /\ out' = out \cup {<<turn[l].msg, turn[l].ver, part>>}
  /\ pending' = Snapshot

SendPart(l) ==
  /\ At(l, "send")
  /\ Current(turn[l].msg, turn[l].rev) => entry[turn[l].msg].box.next <= Parts
  /\ IF MaySubmit(l)
       THEN /\ Publishes(l, entry[turn[l].msg].box.next)
            /\ Mutates(l, "part")
            /\ UNCHANGED <<tasks, running, stalled>>
       ELSE EndsAt(l) /\ UNCHANGED <<out, pending>>
  /\ UNCHANGED <<posted, journal, control, callback, waiting, undo, staged, analyzed, stopped, disk, faults>>

(* The confirmation of /stop.                                              *)
Confirm(l) ==
  /\ At(l, "confirm")
  /\ IF MaySubmit(l)
       THEN /\ Publishes(l, 1)
            /\ IF TurnCurrent(l) THEN Mutates(l, "complete") /\ UNCHANGED <<tasks, running, stalled>>
                                 ELSE EndsAt(l)
       ELSE EndsAt(l) /\ UNCHANGED <<out, pending>>
  /\ UNCHANGED <<posted, journal, control, callback, waiting, undo, staged, analyzed, stopped, disk, faults>>

PartsSent(l) ==
  At(l, "send") /\ Current(turn[l].msg, turn[l].rev) /\ entry[turn[l].msg].box.next > Parts
FileIs(l, state) == entry[turn[l].msg].box.file = state

(* The file goes to the HOP first, then its message to the conversation.   *)
Upload(l) ==
  /\ PartsSent(l) /\ FileIs(l, "staged")
  /\ Mutates(l, IF turn[l].msg \in staged THEN "uploaded" ELSE "dead")
  /\ UNCHANGED <<tasks, running, stalled>>
  /\ UNCHANGED <<posted, journal, control, callback, waiting, undo, effects, pending, disk, faults>>

SendFile(l) ==
  /\ PartsSent(l) /\ FileIs(l, "uploaded")
  /\ Publishes(l, FilePart)
  /\ Mutates(l, "sent")
  /\ UNCHANGED <<tasks, running, stalled>>
  /\ UNCHANGED <<posted, journal, control, callback, waiting, undo, staged, analyzed, stopped, disk, faults>>

Delivered(l) ==
  /\ PartsSent(l) /\ entry[turn[l].msg].box.file \in {"none", "sent"}
  /\ IF TurnCurrent(l) THEN Mutates(l, "complete") /\ UNCHANGED <<tasks, running, stalled>> ELSE EndsAt(l)
  /\ UNCHANGED <<posted, journal, control, callback, waiting, undo, effects, pending, disk, faults>>

-----------------------------------------------------------------------------
(* The mutations of a turn.                                                *)

TurnRuns(l) == Runs(l)
TurnRow(l)  == entry[turn[l].msg]
Changes(l, row) == entry' = [entry EXCEPT ![turn[l].msg] = row]

(* beginMediaAnalysisForIngress: the boundary before the files leave; the  *)
(* budget may refuse, and says so in the row.                              *)
BoundaryOf(l, budget) == [TurnRow(l) EXCEPT !.media = budget]

(* persistMediaAnalysisForIngress.                                         *)
AnalysisKept(l) == [TurnRow(l) EXCEPT !.media = "complete"]

(* The answer and the manifest of its file are one mutation.               *)
Prepared(l) == [TurnRow(l) EXCEPT !.box = Outbox(turn[l].file)]

(* markAgentReplyPart, markAgentArtifactUploaded, markAgentArtifactSent.   *)
PartMarked(l)   == [TurnRow(l) EXCEPT !.box.next = @ + 1]
UploadMarked(l) == [TurnRow(l) EXCEPT !.box.file = "uploaded"]
SentMarked(l)   == [TurnRow(l) EXCEPT !.box.file = "sent"]

(* deferIngressTurn: the retry has a time.                                 *)
Delayed(l) == [TurnRow(l) EXCEPT !.delayed = TRUE]

(* The row after the part of the mutation that needs no flush; budget is   *)
(* what the budget of the analyzer says.                                   *)
RowAfter(l, budget) ==
  CASE At(l, "begin")    -> BoundaryOf(l, budget)
    [] At(l, "result")   -> AnalysisKept(l)
    [] At(l, "prepare")  -> Prepared(l)
    [] At(l, "part")     -> PartMarked(l)
    [] At(l, "uploaded") -> UploadMarked(l)
    [] At(l, "sent")     -> SentMarked(l)
    [] At(l, "complete") -> [TurnRow(l) EXCEPT !.done = TRUE]
    [] At(l, "defer")    -> Delayed(l)
    [] At(l, "dead")     -> TurnRow(l)

(* The row has been edited or removed meanwhile: nothing is changed, files *)
(* just staged are removed, and the task ends.                             *)
MutationSuperseded(l) ==
  /\ TurnRuns(l)
  /\ ~Current(turn[l].msg, turn[l].rev)
  /\ staged' = IF turn[l].file = "staged" /\ At(l, "prepare") THEN staged \ {turn[l].msg} ELSE staged
  /\ mutations' = Tail(mutations)
  /\ TaskEnds(l, durable)
  /\ UNCHANGED <<posted, journal, control, callback, waiting, undo, out, analyzed, stopped, pending,
                 disk, faults>>

(* A row that was done when the task began is removed without marking it.  *)
MutationRuns(l) ==
  /\ TurnRuns(l)
  /\ Current(turn[l].msg, turn[l].rev)
  /\ waiting' = TRUE
  /\ LET m == turn[l].msg
         removes == At(l, "dead") \/ (At(l, "complete") /\ entry[m].done)
     IN /\ \E budget \in {"submitted", "budget"} :
             /\ At(l, "begin") \/ budget = "budget"
             /\ Changes(l, RowAfter(l, budget))
        /\ IF removes THEN Splices({m}) ELSE UNCHANGED ingress
        /\ undo' = IF removes THEN [clean |-> {}, ingress |-> ingress] ELSE NoUndo
        /\ dead' = IF At(l, "dead") THEN dead \cup {m} ELSE dead
        /\ turn' = IF At(l, "complete") /\ entry[m].done
                     THEN [turn EXCEPT ![l].phase = "remove"] ELSE turn
  /\ UNCHANGED <<posted, seen, life, control, callback, mutations, tasks, running, stalled, effects, disk, faults>>
  /\ Saved

TurnWaits(l) == Waits(l) /\ waiting' = FALSE /\ undo' = NoUndo

(* completeIngressTurn goes on to the removal in the same mutation.        *)
MarkFlushed(l) ==
  /\ Waits(l) /\ Flushed /\ At(l, "complete")
  /\ durable' = TRUE
  /\ Splices({turn[l].msg})
  /\ undo' = [clean |-> {}, ingress |-> ingress]
  /\ Goes(l, "remove")
  /\ UNCHANGED <<posted, entry, seen, life, dead, deferred, armed, callback, mutations, waiting,
                 tasks, running, stalled, effects, disk, faults>>
  /\ Saved

(* Mutant: the bytes go before the state file says that they may. *)
UnlinkedEarly(l) == At(l, "part") \/ turn[l].phase \in {"uploaded", "sent", "remove", "dead"}

(* The staged bytes are removed once the mark of the upload is durable.    *)
Unlinks(l) == turn[l].phase \in {"uploaded", "sent", "remove", "dead"}

After(l) ==
  IF At(l, "begin") /\ TurnRow(l).media = "submitted" THEN "analyze"
  ELSE IF turn[l].phase \in {"begin", "result"} THEN "brain" ELSE "send"

MutationFlushed(l) ==
  /\ TurnWaits(l) /\ Flushed /\ ~At(l, "complete")
  /\ durable' = TRUE
  /\ staged' = IF Unlinks(l) THEN staged \ {turn[l].msg} ELSE staged
  /\ mutations' = Tail(mutations)
  /\ IF \/ turn[l].phase \in {"remove", "dead", "defer"}
        \/ turn[l].phase \in {"begin", "result"} /\ ~TurnCurrent(l)
       THEN TaskEnds(l, TRUE) /\ UNCHANGED analyzed
       ELSE /\ Goes(l, After(l))
            /\ analyzed' = IF After(l) = "analyze"
                             THEN analyzed \cup {<<turn[l].msg, turn[l].rev>>} ELSE analyzed
            /\ UNCHANGED <<tasks, running, stalled>>
  /\ UNCHANGED <<posted, journal, deferred, armed, callback, out, stopped, pending, disk, faults>>

(* What a failed write takes back: the removal of a row and its dead letter.*)
TakeBack(l) ==
  /\ ingress' = IF turn[l].phase \in {"remove", "dead"} THEN undo.ingress ELSE ingress
  /\ dead' = IF At(l, "dead") THEN dead \ {turn[l].msg} ELSE dead

(* The write failed: the task ends in a delayed retry of its own mutation. *)
MutationUnsaved(l) ==
  /\ TurnWaits(l) /\ WriteFails
  /\ Frozen
  /\ TakeBack(l)
  /\ entry' = IF At(l, "begin") THEN [entry EXCEPT ![turn[l].msg].media = "none"] ELSE entry
  /\ IF \/ At(l, "defer")
        \/ turn[l].phase \in {"begin", "result"} /\ ~TurnCurrent(l)
       THEN mutations' = Tail(mutations) /\ TaskEnds(l, FALSE)
       ELSE /\ mutations' = Append(Tail(mutations), l)
            /\ Goes(l, "defer")
            /\ UNCHANGED <<tasks, running, stalled>>
  /\ UNCHANGED <<posted, seen, life, deferred, callback, effects, disk>>
  /\ IF turn[l].phase \in {"begin", "remove", "dead"} THEN Saved ELSE UNCHANGED pending

-----------------------------------------------------------------------------
(* Timers, crash and restart.                                              *)

(* The retry of a deferred turn is due; the pump timer fires.              *)
RetryDue(m) ==
  /\ Journaled(m) /\ entry[m].delayed
  /\ entry' = [entry EXCEPT ![m].delayed = FALSE]
  /\ Pump(durable, entry', tasks, running)
  /\ UNCHANGED <<posted, ingress, seen, life, dead, control, callback, mutations, waiting, undo,
                 turn, effects, pending, disk, faults>>

(* scheduleIngressDurabilityRetry: its timer, and its mutation.            *)
DurabilityRetry ==
  /\ armed /\ armed' = FALSE
  /\ mutations' = Append(mutations, Retry)
  /\ UNCHANGED <<posted, journal, durable, deferred, callback, waiting, undo, work, effects,
                 pending, disk, faults>>

RetryRuns ==
  /\ Runs(Retry) /\ waiting' = TRUE
  /\ UNCHANGED <<posted, journal, control, callback, mutations, undo, work, effects, disk,
                 faults>>
  /\ Saved

RetryFlushed ==
  /\ Waits(Retry) /\ Flushed /\ waiting' = FALSE
  /\ deferred = {}
  /\ durable' = TRUE
  /\ mutations' = Tail(mutations)
  /\ Pump(TRUE, entry, tasks, running)
  /\ UNCHANGED <<posted, journal, deferred, armed, callback, undo, turn, effects, pending, disk, faults>>

(* cleanupDeferredAgentArtifactOutboxes reads a name that is not declared: *)
(* the mutation rejects, the queue of mutations swallows it, and the thaw, *)
(* the flush of the placeholders, the wake-up and the pump are skipped. The*)
(* list is as long as before, and no retry is armed.                       *)
RetryThrows ==
  /\ Waits(Retry) /\ Flushed /\ waiting' = FALSE
  /\ deferred # {}
  /\ mutations' = Tail(mutations)
  /\ stalled' = TRUE
  /\ UNCHANGED <<posted, journal, control, callback, undo, tasks, running, turn, effects, pending,
                 disk, faults>>

RetryUnsaved ==
  /\ Waits(Retry) /\ WriteFails /\ waiting' = FALSE
  /\ armed' = TRUE
  /\ mutations' = Tail(mutations)
  /\ UNCHANGED <<posted, journal, durable, deferred, callback, undo, work, effects, pending, disk>>

(* The process starts from the state file: directories no row needs are    *)
(* swept, and the pump runs.                                               *)
NeedsBytes(m) == Contains(disk.ingress, m) /\ disk.entry[m].box.file = "staged"

Restored ==
  /\ ingress' = disk.ingress /\ entry' = disk.entry /\ seen' = disk.seen /\ life' = disk.life
  /\ dead' = disk.dead
  /\ durable' = TRUE /\ deferred' = {} /\ armed' = FALSE
  /\ callback' = Idle /\ mutations' = <<>> /\ waiting' = FALSE /\ undo' = NoUndo
  /\ turn' = [l \in Lanes |-> NoTurn]
  /\ staged' = {m \in staged : NeedsBytes(m)}
  /\ LET first(l) == Oldest(disk.ingress, l)
         ready == {l \in Lanes : first(l) # None /\ ~disk.entry[first(l)].delayed}
     IN /\ tasks' = [l \in Lanes |-> IF l \in ready
                       THEN << <<first(l), disk.entry[first(l)].rev>> >> ELSE <<>>]
        /\ running' = {first(l) : l \in ready}
  /\ stalled' = FALSE
  /\ pending' = None
  /\ UNCHANGED <<posted, out, analyzed, stopped, disk>>

Crash == Faults /\ Restored

-----------------------------------------------------------------------------
Init ==
  /\ posted = [m \in Messages |-> 0]
  /\ ingress = <<>>
  /\ entry = [m \in Messages |-> Row(0, 0)]
  /\ seen = {} /\ dead = {}
  /\ life = [m \in Messages |-> 0]
  /\ durable = TRUE /\ deferred = {} /\ armed = FALSE
  /\ callback = Idle /\ mutations = <<>> /\ waiting = FALSE /\ undo = NoUndo
  /\ tasks = [l \in Lanes |-> <<>>] /\ running = {} /\ stalled = FALSE /\ turn = [l \in Lanes |-> NoTurn]
  /\ staged = {} /\ out = {} /\ analyzed = {} /\ stopped = {}
  /\ pending = None
  /\ disk = Snapshot
  /\ faults = 0

(* Microtasks come before events.                                          *)
Microtask ==
  \/ CommitHistory \/ Admit \/ AdmitFull \/ Cancel \/ Reconcile \/ SaveLifecycle
  \/ RetryRuns
  \/ \E l \in Lanes : MutationSuperseded(l) \/ MutationRuns(l)

TurnStep(l) ==
  \/ TaskStarts(l) \/ Fetched(l) \/ Analyzed(l) \/ BrainAnswers(l)
  \/ SendPart(l) \/ Confirm(l) \/ Upload(l) \/ SendFile(l) \/ Delivered(l)
  \/ MarkFlushed(l) \/ MutationFlushed(l)

Fault ==
  \/ CallbackUnsaved \/ RetryUnsaved \/ Crash
  \/ \E l \in Lanes : TurnFails(l) \/ MutationUnsaved(l)

Event ==
  \/ Write \/ CallbackFlushed \/ DurabilityRetry \/ RetryFlushed \/ RetryThrows
  \/ \E m \in Messages : MessageArrives(m) \/ OperationArrives(m) \/ RetryDue(m)
  \/ \E l \in Lanes : TurnStep(l)

Next ==
  \/ Microtask
  \/ Quiet /\ (Event \/ Fault \/ \E m \in Messages : Revise(m))

(* Timers fire, requests settle, the store writes and T3ams replays what   *)
(* it retains; the user and the faults are free.                           *)
Fairness ==
  /\ WF_vars(Microtask)
  /\ WF_vars(Quiet /\ Write)
  /\ WF_vars(Quiet /\ (CallbackFlushed \/ RetryFlushed \/ RetryThrows))
  /\ WF_vars(Quiet /\ DurabilityRetry)
  /\ \A l \in Lanes : WF_vars(Quiet /\ TurnStep(l))
  /\ \A m \in Messages : WF_vars(Quiet /\ RetryDue(m)) /\ WF_vars(Quiet /\ OperationArrives(m))

Spec == Init /\ [][Next]_vars
FairSpec == Spec /\ Fairness

-----------------------------------------------------------------------------
TypeOK ==
  /\ posted \in [Messages -> 0 .. Deleted]
  /\ ToSet(ingress) \subseteq Messages /\ IsInjective(ingress)
  /\ Len(ingress) <= IngressCap
  /\ DOMAIN entry = Messages
  /\ seen \subseteq Messages /\ dead \subseteq Messages /\ running \subseteq Messages
  /\ life \in [Messages -> 0 .. Deleted]
  /\ durable \in BOOLEAN /\ armed \in BOOLEAN /\ waiting \in BOOLEAN
  /\ deferred \subseteq Messages /\ staged \subseteq Messages
  /\ ToSet(mutations) \subseteq Lanes \cup {Callback, Retry}
  /\ \A l \in Lanes : ToSet(tasks[l]) \subseteq Messages \X Nat

(* What a message may have come to without an answer: it was deleted or no *)
(* longer addressed the bot, its lane was stopped, or it is a dead letter. *)
Answered(m) == \E v \in 0 .. Deleted :
                 \A part \in 1 .. (IF IsStop(m) THEN 1 ELSE Parts) : <<m, v, part>> \in out
Withdrawn(m) == \E v \in Gone : posted[m] >= v
Stopped(m) == m \in stopped

(* A claim on disk is never lost: its message has a row on disk, or all of *)
(* its answer is on T3ams, or it was withdrawn, stopped or dead-lettered   *)
(* (the comments at index.mjs:474-478 and 2087-2091).                      *)
NothingClaimedIsLost ==
  \A m \in disk.seen :
    \/ Contains(disk.ingress, m)
    \/ Answered(m) \/ Withdrawn(m) \/ Stopped(m) \/ m \in disk.dead

(* Unless its prompt was edited, a manifest on disk whose file is neither  *)
(* uploaded nor sent finds the bytes in the outbox directory, whatever is  *)
(* removed when (index.mjs:505-507).                                       *)
UneditedManifestHasBytes ==
  \A m \in Messages : NeedsBytes(m) /\ disk.entry[m].rev = 0 => m \in staged

BrainStarts(l) == turn[l].phase # "brain" /\ turn'[l].phase = "brain"

(* Once the state file holds the answer of a revision, no crash and no     *)
(* retry makes the brain run for that revision again (index.mjs:3375-3378).*)
NoRerunAfterHandoff ==
  [][\A l \in Lanes : BrainStarts(l) =>
       ~ /\ Contains(disk.ingress, turn[l].msg)
         /\ disk.entry[turn[l].msg].rev = turn[l].rev
         /\ disk.entry[turn[l].msg].box # NoOutbox]_vars

(* The analyzer gets the files of one revision at most once, across        *)
(* retries and crashes (index.mjs:657-660).                                *)
AnalyzedOnce ==
  [][\A l \in Lanes : turn[l].phase = "begin" /\ turn'[l].phase = "analyze" =>
       <<turn[l].msg, turn[l].rev>> \notin analyzed]_vars

(* No part of an answer goes out after the edit or the delete of its       *)
(* prompt was reconciled with the journal (index.mjs:2310-2312).           *)
NoStaleAnswer ==
  [][\A x \in out' \ out : Journaled(x[1]) /\ entry[x[1]].ver = x[2]]_vars

(* No wake-up is lost: the oldest message of a lane has a task, or a task   *)
(* before it pumps when it ends, or a timer, a mutation or a flush that    *)
(* pumps is under way (index.mjs:825-845, 3513-3565). The one exception of *)
(* the code: the durability retry threw, and the pump has not run since.   *)
NoLaneForgotten ==
  \A l \in Lanes : NextOf(l) # None =>
    \/ tasks[l] # <<>>
    \/ durable /\ entry[NextOf(l)].delayed
    \/ armed \/ Contains(mutations, Retry)
    \/ Contains(mutations, Callback) /\ callback.phase # "lifecycle"
    \/ stalled

-----------------------------------------------------------------------------
(* Properties the code does not have.                                      *)

(* Every manifest on disk whose file is neither uploaded nor sent finds    *)
(* the bytes. The reconciliation of an edit removes the directory of the   *)
(* message when its write ends, although the next revision may have put    *)
(* its own file there by then.                                             *)
NoManifestWithoutBytes == \A m \in Messages : NeedsBytes(m) => m \in staged

(* In a lane neither the brain nor the confirmation of a /stop starts      *)
(* while an older message of the journal is unanswered                     *)
(* (index.mjs:3516-3530). With two lanes it may: while the removal of a    *)
(* dead letter waits for the disk, the pump of another lane schedules the  *)
(* message behind it; the write fails, the dead letter is put back and     *)
(* deferred, and the message behind it runs first.                         *)
LaneInOrder ==
  [][\A l \in Lanes : turn'[l].phase \in {"brain", "confirm"} /\ turn[l].phase # turn'[l].phase =>
       \A i, j \in 1 .. Len(ingress) :
         i < j /\ ingress[j] = turn'[l].msg /\ LaneOf(ingress[i]) = l =>
           entry[ingress[i]].done]_vars

(* A journaled message does not stay: its row is answered or removed. It   *)
(* may stay when a durability retry threw (FreezeEnds).                    *)
AdmittedIsFinished == \A m \in Messages : Journaled(m) ~> ~Journaled(m)

(* "Freeze dispatch until this changed queue is durable" and "let the      *)
(* durable retry commit it when storage recovers" (index.mjs:2354-2356,    *)
(* 3167-3169): when the state file holds the journal and no mutation is    *)
(* under way, dispatch is not frozen, unless a retry is still to come.     *)
FreezeEnds == disk = Snapshot /\ mutations = <<>> => durable \/ armed

(* "Persist that bounded tombstone/edit explicitly so a restart between    *)
(* the two retained subscriptions cannot resurrect the old prompt"         *)
(* (index.mjs:2390-2393): a tombstone in the state file holds; unless the  *)
(* delete is just being reconciled, the brain does not start on its prompt.*)
DeletedStaysDeleted ==
  [][\A l \in Lanes : BrainStarts(l) /\ disk.life[turn[l].msg] = Deleted =>
       callback = [phase |-> "reconcile", msg |-> turn[l].msg]]_vars

(* The brain starts only on prompts that the state file holds.             *)
RunsOnlyDurable ==
  [][\A l \in Lanes : BrainStarts(l) => Contains(disk.ingress, turn[l].msg)]_vars

=============================================================================
