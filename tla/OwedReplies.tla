----------------------------- MODULE OwedReplies -----------------------------
(***************************************************************************)
(* The crash-durable reply pipeline of bot-core with a direct brain        *)
(* (src/bot-core/index.mjs): how openers and session statements are        *)
(* admitted, journaled, acknowledged and answered, and what a crash leaves.*)
(*                                                                         *)
(* Asynchronous handlers run concurrently: one for openers, one for each   *)
(* peer's session, one work queue for each peer. Everything between two    *)
(* awaits is one step. The state file is written by one drain that all the *)
(* critical savers share (StateStore models it in detail).                 *)
(*                                                                         *)
(* Not modelled: attachments, placeholders, signals, /stop and call offers,*)
(* pruned sessions, and the caps of the dedup sets, which are not reached. *)
(***************************************************************************)
EXTENDS Naturals, Sequences, FiniteSets

CONSTANTS
  Peers,        \* the peers that write to the bot
  Follow,       \* bound: session messages of each peer, after its opener
  Parts,        \* messages one answer is split into
  WorkCap,      \* WORK_CAP, work queued for one peer
  MaxOwed,      \* MAX_OWED, entries of the journal
  MaxCrashes,   \* bound: crashes of the process
  MaxDisk,      \* bound: failed writes of the state file
  MaxFails      \* bound: submits that fail

ASSUME ConstantsAssumption ==
  /\ Follow \in Nat
  /\ Parts \in Nat \ {0}
  /\ WorkCap \in Nat \ {0}
  /\ MaxOwed \in Nat \ {0}
  /\ MaxCrashes \in Nat /\ MaxDisk \in Nat /\ MaxFails \in Nat

VARIABLES
  owed,       \* owedReplies: the messages whose answer is owed
  answer,     \* the parts journaled in each entry, as <<turn, part>>
  seen,       \* seenRequests
  ackDue,     \* pendingOpenerAcks
  queued,     \* queuedOwed
  admitting,  \* owedInAdmission
  opener,     \* the handler of the "openers" lane
  session,    \* the handler of each peer's session statements
  work,       \* peerWork: the owed messages queued for each peer
  turn,       \* what the head of each peer's work is doing
  turns,      \* how often the brain was started for each message
  pending,    \* the snapshot the store has still to write
  disk,       \* the state file
  posted,     \* the messages each peer put into its statements
  accepted,   \* the peers whose opener was accepted
  acked,      \* the session messages the bot acknowledged
  out,        \* the answer parts on the node, as <<message, turn, part>>
  risky,      \* messages answered although the journal was not written
  unsent,     \* messages a failed submit of whose answer was given up
  faults      \* crashes, failed writes and failed submits so far

memory  == <<owed, answer, seen, ackDue>>
network == <<posted, accepted, acked, out>>
vars == <<owed, answer, seen, ackDue, queued, admitting, opener, session, work, turn,
          turns, pending, disk, posted, accepted, acked, out, risky, unsent, faults>>

Msg        == Peers \X (0 .. Follow)
IsOpener(m) == m[2] = 0
OpenerOf(p) == <<p, 0>>
None       == <<>>
Handler    == [phase |-> "idle", msgs |-> {}, fresh |-> {}, io |-> "none"]
NoTurn     == [phase |-> "idle", part |-> 1, io |-> "none"]

-----------------------------------------------------------------------------
(* The state file: save keeps the newest snapshot, one drain writes it.    *)

Snapshot == [owed |-> owed, answer |-> answer, seen |-> seen, ackDue |-> ackDue]
Saved    == pending' = Snapshot'

Waiting(h) == h.io = "wait"
Settled(h, result) == IF Waiting(h) THEN [h EXCEPT !.io = result] ELSE h
AnyoneWaits == \/ Waiting(opener)
               \/ \E p \in Peers : Waiting(session[p]) \/ Waiting(turn[p])
Answered(result) ==
  /\ opener'  = Settled(opener, result)
  /\ session' = [p \in Peers |-> Settled(session[p], result)]
  /\ turn'    = [p \in Peers |-> Settled(turn[p], result)]

Write ==
  /\ pending # None
  /\ disk' = pending
  /\ pending' = None
  /\ UNCHANGED <<memory, network, queued, admitting, opener, session, work, turn, turns,
                 risky, unsent, faults>>

(* Mutant: flush resolves although a newer snapshot is still to be written. *)
DrainEndsEarly ==
  /\ AnyoneWaits
  /\ Answered("ok")
  /\ UNCHANGED <<memory, network, queued, admitting, work, turns, pending, disk, risky, unsent, faults>>

(* Nothing is left to write: every flush of the drain resolves true.       *)
DrainEnds ==
  /\ pending = None
  /\ AnyoneWaits
  /\ Answered("ok")
  /\ UNCHANGED <<memory, network, queued, admitting, work, turns, pending, disk, risky, unsent, faults>>

(* The write failed: every flush resolves false, the snapshot is kept.     *)
DrainFails ==
  /\ pending # None
  /\ AnyoneWaits
  /\ faults.disk < MaxDisk
  /\ faults' = [faults EXCEPT !.disk = @ + 1]
  /\ Answered("failed")
  /\ UNCHANGED <<memory, network, queued, admitting, work, turns, pending, disk, risky, unsent>>

-----------------------------------------------------------------------------
(* Admission and the work queues.                                          *)

(* The messages of S in the order their entries were journaled.            *)
InOrder(S) ==
  CHOOSE s \in [1 .. Cardinality(S) -> S] :
    \A i, j \in 1 .. Cardinality(S) : i < j => s[i][2] < s[j][2]

(* Mutant: a queue filled to the brim counts as over the cap. *)
BelowCap(p, count) == Len(work[p]) + count < WorkCap

(* canAdmit; work that is owed already needs no room in the journal.       *)
HasCapacity(p, count) == Len(work[p]) + count <= WorkCap
CanAdmit(p, count) == HasCapacity(p, count) /\ Cardinality(owed) + count <= MaxOwed

(* Mutant: the pump runs entries that a receive path is still admitting. *)
IdleUnlessQueued(p, o, q) == {m \in o : m[1] = p /\ m \notin q}

(* The entries the pump may enqueue for p.                                 *)
Idle(p, o, q) == {m \in o : m[1] = p /\ m \notin q \cup admitting}

(* The oldest of them, as far as the work cap allows.                      *)
Pumpable(p, o, q, w) ==
  LET ready == Idle(p, o, q)
  IN {m \in ready : Len(w[p]) + Cardinality({k \in ready : k[2] <= m[2]}) <= WorkCap}

PumpedQueued(o, q, w) == q \cup UNION {Pumpable(p, o, q, w) : p \in Peers}
PumpedWork(o, q, w) == [p \in Peers |-> w[p] \o InOrder(Pumpable(p, o, q, w))]

(* enqueueOwed for the messages of S, one after the other.                 *)
EnqueueOwed(p, S) ==
  /\ queued' = queued \cup S
  /\ work' = [work EXCEPT ![p] = @ \o InOrder(S \ queued)]

-----------------------------------------------------------------------------
(* handleOpener. An opener that was seen and whose acceptance went out is  *)
(* left alone.                                                             *)

OpenerArrives(p) ==
  LET m == OpenerOf(p) IN
  /\ opener.phase = "idle"
  /\ m \in posted
  /\ \/ /\ m \in ackDue
        /\ opener' = [phase |-> "accept", msgs |-> {m}, fresh |-> {}, io |-> "none"]
        /\ UNCHANGED <<memory, pending>>
     \/ /\ m \notin ackDue \cup seen
        /\ CanAdmit(p, 1)
        /\ owed' = owed \cup {m}
        /\ seen' = seen \cup {m}
        /\ opener' = [phase |-> "persist", msgs |-> {m}, fresh |-> {m}, io |-> "wait"]
        /\ UNCHANGED <<answer, ackDue>>
        /\ Saved
  /\ UNCHANGED <<network, queued, admitting, session, work, turn, turns, disk, risky, unsent, faults>>

(* The journal is durable: accept. Or it is not: forget the opener again.  *)
OpenerPersisted ==
  /\ opener.phase = "persist"
  /\ \/ /\ opener.io = "ok"
        /\ opener' = [opener EXCEPT !.phase = "accept", !.io = "none"]
        /\ UNCHANGED <<memory, pending>>
     \/ /\ opener.io = "failed"
        /\ opener' = Handler
        /\ seen' = seen \ opener.msgs
        /\ owed' = owed \ opener.msgs
        /\ answer' = [m \in Msg |-> IF m \in opener.msgs THEN {} ELSE answer[m]]
        /\ UNCHANGED ackDue
        /\ Saved
  /\ UNCHANGED <<network, queued, admitting, session, work, turn, turns, disk, risky, unsent, faults>>

(* The accept was submitted: the work starts, unless it was started.       *)
OpenerAccepted(p) ==
  LET m == OpenerOf(p) IN
  /\ opener.phase = "accept"
  /\ opener.msgs = {m}
  /\ accepted' = accepted \cup {p}
  /\ ackDue' = ackDue \ {m}
  /\ UNCHANGED <<owed, answer, seen>>
  /\ IF m \in ackDue THEN Saved ELSE UNCHANGED pending
  /\ IF m \in owed \ queued /\ (opener.fresh # {} \/ HasCapacity(p, 1))
       THEN EnqueueOwed(p, {m})
       ELSE UNCHANGED <<queued, work>>
  /\ opener' = Handler
  /\ UNCHANGED <<admitting, session, turn, turns, disk, posted, acked, out, risky, unsent, faults>>

(* The submit failed, whether or not it reached the node.                  *)
OpenerAcceptFails(p) ==
  LET m == OpenerOf(p) IN
  /\ opener.phase = "accept"
  /\ opener.msgs = {m}
  /\ faults.fails < MaxFails
  /\ faults' = [faults EXCEPT !.fails = @ + 1]
  /\ accepted' \in {accepted, accepted \cup {p}}
  /\ ackDue' = ackDue \cup {m}
  /\ UNCHANGED <<owed, answer, seen>>
  /\ Saved
  /\ opener' = [opener EXCEPT !.phase = "marker", !.io = "wait"]
  /\ UNCHANGED <<queued, admitting, session, work, turn, turns, disk, posted, acked, out, risky, unsent>>

(* The retry marker is on disk, or not: the opener is deferred either way. *)
OpenerDeferred ==
  /\ opener.phase = "marker"
  /\ opener.io \in {"ok", "failed"}
  /\ opener' = Handler
  /\ UNCHANGED <<memory, network, queued, admitting, session, work, turn, turns, pending, disk,
                 risky, unsent, faults>>

-----------------------------------------------------------------------------
(* handleSessionStatement. The statement holds everything the peer posted  *)
(* and was not acknowledged.                                               *)

Batch(p) == {m \in posted : m[1] = p /\ ~IsOpener(m)} \ acked

SessionArrives(p) ==
  LET fresh == Batch(p) \ seen IN
  /\ session[p].phase = "idle"
  /\ Batch(p) # {}
  /\ fresh = {} \/ CanAdmit(p, Cardinality(fresh))
  /\ owed' = owed \cup fresh
  /\ admitting' = admitting \cup fresh
  /\ seen' = seen \cup fresh
  /\ UNCHANGED <<answer, ackDue>>
  /\ IF fresh = {}
       THEN /\ session' = [session EXCEPT ![p] =
                             [phase |-> "ack", msgs |-> Batch(p), fresh |-> {}, io |-> "none"]]
            /\ UNCHANGED pending
       ELSE /\ session' = [session EXCEPT ![p] =
                             [phase |-> "persist", msgs |-> Batch(p), fresh |-> fresh, io |-> "wait"]]
            /\ Saved
  /\ UNCHANGED <<network, queued, opener, work, turn, turns, disk, risky, unsent, faults>>

(* Mutant: the admission of the batch is never ended. *)
SessionPersistedStillAdmitting(p) ==
  LET h == session[p] IN
  /\ h.phase = "persist"
  /\ h.io = "ok"
  /\ EnqueueOwed(p, h.fresh)
  /\ session' = [session EXCEPT ![p] = [@ EXCEPT !.phase = "ack", !.io = "none"]]
  /\ UNCHANGED <<memory, admitting, pending>>
  /\ UNCHANGED <<network, opener, turn, turns, disk, risky, unsent, faults>>

SessionPersisted(p) ==
  LET h == session[p] IN
  /\ h.phase = "persist"
  /\ admitting' = admitting \ h.fresh
  /\ UNCHANGED ackDue
  /\ \/ /\ h.io = "ok"
        /\ EnqueueOwed(p, h.fresh)
        /\ session' = [session EXCEPT ![p] = [@ EXCEPT !.phase = "ack", !.io = "none"]]
        /\ UNCHANGED <<owed, answer, seen, pending>>
     \/ /\ h.io = "failed"
        /\ seen' = seen \ h.fresh
        /\ owed' = owed \ h.fresh
        /\ answer' = [m \in Msg |-> IF m \in h.fresh THEN {} ELSE answer[m]]
        /\ session' = [session EXCEPT ![p] = Handler]
        /\ UNCHANGED <<queued, work>>
        /\ Saved
  /\ UNCHANGED <<network, opener, turn, turns, disk, risky, unsent, faults>>

(* sendSessionAck: a failed one that reached the node all the same makes no *)
(* difference to the handler, which ends.                                  *)
SessionAcks(p) ==
  LET h == session[p] IN
  /\ h.phase = "ack"
  /\ session' = [session EXCEPT ![p] = Handler]
  /\ \/ acked' = acked \cup h.msgs /\ UNCHANGED faults
     \/ /\ faults.fails < MaxFails
        /\ faults' = [faults EXCEPT !.fails = @ + 1]
        /\ UNCHANGED acked
  /\ UNCHANGED <<memory, queued, admitting, opener, work, turn, turns, pending, disk, posted,
                 accepted, out, risky, unsent>>

-----------------------------------------------------------------------------
(* The work of a peer, one owed message after the other.                   *)

Busy(p) == work[p] # <<>>
Running(p) == work[p][1]

(* Mutant: the settled entry stays in queuedOwed. *)
SettledStillQueued(p) ==
  LET m == Running(p) IN
  /\ owed' = owed \ {m}
  /\ answer' = [answer EXCEPT ![m] = {}]
  /\ UNCHANGED <<seen, ackDue, queued>>
  /\ Saved
  /\ work' = [work EXCEPT ![p] = Tail(@)]

(* settleOwed: the entry leaves the journal and the pump runs while the    *)
(* finished work still counts in the queue's depth.                        *)
SettleOwed(p) ==
  LET m == Running(p)
      o == owed \ {m}
      q == queued \ {m}
  IN
  /\ IF m \in owed
       THEN /\ owed' = o
            /\ answer' = [answer EXCEPT ![m] = {}]
            /\ UNCHANGED <<seen, ackDue>>
            /\ Saved
            /\ queued' = PumpedQueued(o, q, work)
            /\ work' = [PumpedWork(o, q, work) EXCEPT ![p] = Tail(@)]
       ELSE /\ queued' = q
            /\ work' = [work EXCEPT ![p] = Tail(@)]
            /\ UNCHANGED <<memory, pending>>

(* An entry with a journaled answer is sent again, any other runs the brain. *)
WorkStarts(p) ==
  LET m == Running(p) IN
  /\ Busy(p)
  /\ turn[p].phase = "idle"
  /\ IF m \in owed /\ answer[m] # {}
       THEN /\ turn' = [turn EXCEPT ![p] = [NoTurn EXCEPT !.phase = "resend"]]
            /\ UNCHANGED turns
       ELSE /\ turn' = [turn EXCEPT ![p] = [NoTurn EXCEPT !.phase = "brain"]]
            /\ turns' = [turns EXCEPT ![m] = @ + 1]
  /\ UNCHANGED <<memory, network, queued, admitting, opener, session, work, pending, disk,
                 risky, unsent, faults>>

(* Mutant: the part goes out while the journal is still being written. *)
SubmittedWhileJournaling(p) ==
  LET m == Running(p) IN
  /\ turn[p].phase = "brain"
  /\ IF m \in owed
       THEN /\ answer' = [answer EXCEPT ![m] = @ \cup {<<turns[m], turn[p].part>>}]
            /\ UNCHANGED <<owed, seen, ackDue>>
            /\ Saved
       ELSE UNCHANGED <<memory, pending>>
  /\ turn' = [turn EXCEPT ![p].phase = "submit"]
  /\ UNCHANGED <<network, queued, admitting, opener, session, work, turns, disk, risky, unsent, faults>>

(* The brain answered, or the part before was submitted: the next part is  *)
(* journaled, if the entry is still there, before the lane has it.         *)
JournalPart(p) ==
  LET m == Running(p) IN
  /\ turn[p].phase = "brain"
  /\ IF m \in owed
       THEN /\ answer' = [answer EXCEPT ![m] = @ \cup {<<turns[m], turn[p].part>>}]
            /\ UNCHANGED <<owed, seen, ackDue>>
            /\ Saved
            /\ turn' = [turn EXCEPT ![p] = [@ EXCEPT !.phase = "journal", !.io = "wait"]]
       ELSE /\ turn' = [turn EXCEPT ![p].phase = "submit"]
            /\ UNCHANGED <<memory, pending>>
  /\ UNCHANGED <<network, queued, admitting, opener, session, work, turns, disk, risky, unsent, faults>>

(* A journal that could not be written does not silence the bot.           *)
PartJournaled(p) ==
  /\ turn[p].phase = "journal"
  /\ turn[p].io \in {"ok", "failed"}
  /\ turn' = [turn EXCEPT ![p] = [@ EXCEPT !.phase = "submit", !.io = "none"]]
  /\ risky' = IF turn[p].io = "failed" THEN risky \cup {Running(p)} ELSE risky
  /\ UNCHANGED <<memory, network, queued, admitting, opener, session, work, turns, pending,
                 disk, unsent, faults>>

(* The store pushes a part to the peer before the submit returns.          *)
PartLands(p) ==
  LET part == <<Running(p), turns[Running(p)], turn[p].part>> IN
  /\ turn[p].phase = "submit"
  /\ part \notin out
  /\ out' = out \cup {part}
  /\ UNCHANGED <<memory, queued, admitting, opener, session, work, turn, turns, pending, disk,
                 posted, accepted, acked, risky, unsent, faults>>

(* The submit returned: the next part, or the end of the turn.             *)
PartSubmitted(p) ==
  /\ turn[p].phase = "submit"
  /\ <<Running(p), turns[Running(p)], turn[p].part>> \in out
  /\ IF turn[p].part < Parts
       THEN /\ turn' = [turn EXCEPT ![p].phase = "brain", ![p].part = @ + 1]
            /\ UNCHANGED <<memory, pending, queued, work>>
       ELSE /\ turn' = [turn EXCEPT ![p] = NoTurn]
            /\ SettleOwed(p)
  /\ UNCHANGED <<network, admitting, opener, session, turns, disk, risky, unsent, faults>>

(* The submit threw: the rest is not sent, and the turn ends all the same. *)
PartFails(p) ==
  /\ turn[p].phase = "submit"
  /\ faults.fails < MaxFails
  /\ faults' = [faults EXCEPT !.fails = @ + 1]
  /\ turn' = [turn EXCEPT ![p] = NoTurn]
  /\ unsent' = unsent \cup {Running(p)}
  /\ SettleOwed(p)
  /\ UNCHANGED <<network, admitting, opener, session, turns, disk, risky>>

(* resendAnswer succeeded: every journaled part is on the node.            *)
Resent(p) ==
  LET m == Running(p) IN
  /\ turn[p].phase = "resend"
  /\ out' = out \cup {<<m, a[1], a[2]>> : a \in answer[m]}
  /\ turn' = [turn EXCEPT ![p] = NoTurn]
  /\ SettleOwed(p)
  /\ UNCHANGED <<posted, accepted, acked, admitting, opener, session, turns, disk, risky, unsent, faults>>

(* It failed: the entry stays, for a later pump.                           *)
ResendFails(p) ==
  LET m == Running(p) IN
  /\ turn[p].phase = "resend"
  /\ faults.fails < MaxFails
  /\ faults' = [faults EXCEPT !.fails = @ + 1]
  /\ turn' = [turn EXCEPT ![p] = NoTurn]
  /\ queued' = queued \ {m}
  /\ work' = [work EXCEPT ![p] = Tail(@)]
  /\ unsent' = unsent \cup {m}
  /\ UNCHANGED <<memory, network, admitting, opener, session, turns, pending, disk, risky>>

-----------------------------------------------------------------------------
(* A peer posts its opener, and messages once it was accepted.             *)
PeerPosts(m) ==
  /\ m \notin posted
  /\ IsOpener(m) \/ (m[1] \in accepted /\ \A k \in 1 .. m[2] - 1 : <<m[1], k>> \in posted)
  /\ posted' = posted \cup {m}
  /\ UNCHANGED <<memory, queued, admitting, opener, session, work, turn, turns, pending, disk,
                 accepted, acked, out, risky, unsent, faults>>

(* Mutant: the start restores the journal and does not pump it. *)
RestoredOnly(p) == {}

(* pumpOwed at the start: the oldest entries, as far as the work cap allows. *)
Restarted(p) ==
  LET ready == {m \in disk.owed : m[1] = p}
  IN {m \in ready : Cardinality({k \in ready : k[2] <= m[2]}) <= WorkCap}

(* The process ends and is started again from the state file.              *)
Crash ==
  LET idle == [p \in Peers |-> <<>>] IN
  /\ faults.crashes < MaxCrashes
  /\ faults' = [faults EXCEPT !.crashes = @ + 1]
  /\ owed' = disk.owed
  /\ answer' = disk.answer
  /\ seen' = disk.seen
  /\ ackDue' = disk.ackDue
  /\ admitting' = {}
  /\ opener' = Handler
  /\ session' = [p \in Peers |-> Handler]
  /\ queued' = UNION {Restarted(p) : p \in Peers}
  /\ work' = [p \in Peers |-> InOrder(Restarted(p))]
  /\ turn' = [p \in Peers |-> NoTurn]
  /\ pending' = None
  /\ UNCHANGED <<network, turns, disk, risky, unsent>>

Init ==
  /\ owed = {} /\ seen = {} /\ ackDue = {} /\ queued = {} /\ admitting = {}
  /\ answer = [m \in Msg |-> {}]
  /\ opener = Handler
  /\ session = [p \in Peers |-> Handler]
  /\ work = [p \in Peers |-> <<>>]
  /\ turn = [p \in Peers |-> NoTurn]
  /\ turns = [m \in Msg |-> 0]
  /\ pending = None
  /\ disk = Snapshot
  /\ posted = {} /\ accepted = {} /\ acked = {} /\ out = {}
  /\ risky = {} /\ unsent = {}
  /\ faults = [crashes |-> 0, disk |-> 0, fails |-> 0]

PeerStep(p) ==
  \/ OpenerArrives(p) \/ OpenerAccepted(p) \/ OpenerAcceptFails(p)
  \/ SessionArrives(p) \/ SessionPersisted(p) \/ SessionAcks(p)
  \/ WorkStarts(p) \/ JournalPart(p) \/ PartJournaled(p) \/ PartLands(p)
  \/ PartSubmitted(p) \/ PartFails(p) \/ Resent(p) \/ ResendFails(p)

Next ==
  \/ Write \/ DrainEnds \/ DrainFails
  \/ OpenerPersisted \/ OpenerDeferred
  \/ \E p \in Peers : PeerStep(p)
  \/ \E m \in Msg : PeerPosts(m)
  \/ Crash

(***************************************************************************)
(* The dispatcher runs every handler, the store drains, a submit settles,  *)
(* and the sweep looks at an unacknowledged statement again. Peers and     *)
(* crashes promise nothing.                                                *)
(***************************************************************************)
StoreSteps == Write \/ DrainEnds \/ DrainFails
OpenerSteps ==
  \/ OpenerPersisted \/ OpenerDeferred
  \/ \E p \in Peers : OpenerArrives(p) \/ OpenerAccepted(p) \/ OpenerAcceptFails(p)
SessionSteps(p) == SessionArrives(p) \/ SessionPersisted(p) \/ SessionAcks(p)
WorkSteps(p) ==
  \/ WorkStarts(p) \/ JournalPart(p) \/ PartJournaled(p) \/ PartLands(p)
  \/ PartSubmitted(p) \/ PartFails(p) \/ Resent(p) \/ ResendFails(p)

Fairness ==
  /\ WF_vars(StoreSteps)
  /\ WF_vars(OpenerSteps)
  /\ \A p \in Peers : WF_vars(SessionSteps(p)) /\ WF_vars(WorkSteps(p))

Spec == Init /\ [][Next]_vars /\ Fairness

-----------------------------------------------------------------------------
HandlerType(phases) ==
  [phase : phases, msgs : SUBSET Msg, fresh : SUBSET Msg, io : {"none", "wait", "ok", "failed"}]
EntryParts == SUBSET (Nat \X (1 .. Parts))
SnapshotOK(s) ==
  /\ s.owed \subseteq Msg /\ s.seen \subseteq Msg /\ s.ackDue \subseteq Msg
  /\ s.answer \in [Msg -> EntryParts]

(***************************************************************************)
(* queuedOwed is what the work queues hold, and they hold nothing twice.   *)
(***************************************************************************)
QueuesAgree ==
  /\ queued = {m \in Msg : \E i \in 1 .. Len(work[m[1]]) : work[m[1]][i] = m}
  /\ \A p \in Peers : \A i, j \in 1 .. Len(work[p]) : work[p][i] = work[p][j] => i = j

TypeOK ==
  /\ SnapshotOK(Snapshot) /\ SnapshotOK(disk) /\ (pending = None \/ SnapshotOK(pending))
  /\ queued \subseteq Msg /\ admitting \subseteq owed
  /\ opener \in HandlerType({"idle", "persist", "accept", "marker"})
  /\ session \in [Peers -> HandlerType({"idle", "persist", "ack"})]
  /\ work \in [Peers -> Seq(Msg)]
  /\ turn \in [Peers -> [phase : {"idle", "brain", "journal", "submit", "resend"},
                         part : 1 .. Parts, io : {"none", "wait", "ok", "failed"}]]
  /\ turns \in [Msg -> Nat]
  /\ posted \subseteq Msg /\ acked \subseteq posted /\ accepted \subseteq Peers
  /\ out \subseteq Msg \X Nat \X (1 .. Parts)
  /\ risky \subseteq Msg /\ unsent \subseteq Msg
  /\ faults \in [crashes : 0 .. MaxCrashes, disk : 0 .. MaxDisk, fails : 0 .. MaxFails]
  /\ QueuesAgree

-----------------------------------------------------------------------------
(* Messages whose answer reached the node, or whose turn a failed submit ended. *)
Given == {x[1] : x \in out} \cup unsent

(* What a peer believes the bot has: acknowledged or accepted.             *)
Taken == acked \cup {OpenerOf(p) : p \in accepted}

(***************************************************************************)
(* Nothing is acknowledged and then dropped: at every moment a crash would *)
(* leave a state file that knows the message was taken, and still owes it  *)
(* unless its answer went out (protocol.md 66-70).                         *)
(***************************************************************************)
NothingTakenIsLost ==
  \A m \in Taken : m \in disk.seen /\ m \in disk.owed \cup Given

OneTurn(m) == \A x, y \in out : x[1] = m /\ y[1] = m => x[2] = y[2]

(***************************************************************************)
(* A session message is answered once: parts of two turns of the brain     *)
(* never both reach the peer, whatever crashes, is retried or fails to be  *)
(* written, unless the answer itself could not be journaled.               *)
(***************************************************************************)
SessionAnsweredOnce == \A m \in Msg \ risky : ~IsOpener(m) => OneTurn(m)

(* The same for every message (protocol.md 72-82).                         *)
AnsweredOnce == \A m \in Msg \ risky : OneTurn(m)

(***************************************************************************)
(* An entry leaves the journal once the whole answer is on the node        *)
(* (protocol.md 83-85).                                                    *)
(***************************************************************************)
InFull(m) == \E t \in 1 .. turns[m] : \A i \in 1 .. Parts : <<m, t, i>> \in out
LeavesAnswered == \A m \in Taken : m \in owed \/ InFull(m)

(***************************************************************************)
(* Backpressure defers and never starves: a message posted to an accepted  *)
(* session is acknowledged in the end (index.mjs 1714-1735). Its one way   *)
(* out is an entry whose re-send failed: nothing but a later turn of the   *)
(* same peer takes it up, and until then it holds its place in the journal. *)
(***************************************************************************)
Stranded == owed \cap unsent
PostedIsAcked ==
  \A m \in Msg : m \in posted /\ ~IsOpener(m) ~> m \in acked \/ Stranded # {}

(***************************************************************************)
(* What was taken is answered in the end, across crashes.                  *)
(***************************************************************************)
TakenIsAnswered == \A m \in Msg : m \in Taken ~> m \in Given

(***************************************************************************)
(* A posted opener is accepted in the end, so that no crash strands the    *)
(* chat (index.mjs 1671-1672).                                             *)
(***************************************************************************)
OpenerIsAccepted == \A p \in Peers : OpenerOf(p) \in posted ~> p \in accepted
=============================================================================
