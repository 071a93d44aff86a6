---------------------------- MODULE OutboundLanes ----------------------------
(***************************************************************************)
(* The per-peer outbound statement lanes of bot-core                       *)
(* (src/bot-core/lib/outbound-lanes.mjs) together with what they drive:    *)
(* submitBounded and submitAppStatement, the statement store that keeps    *)
(* ONE statement per (account, channel), and the peer that fetches the     *)
(* slot and acknowledges request ids.                                      *)
(*                                                                         *)
(* Messages and requests are numbered in the order in which they are made. *)
(* A lane's queue is only appended to and filtered, and a batch is its     *)
(* base followed by newer messages, so both are kept as SETS of numbers    *)
(* whose order is the numeric one.                                         *)
(*                                                                         *)
(* A pump is an async function: everything between two of its awaits is    *)
(* one step, and every other callback may run while it awaits.             *)
(***************************************************************************)
EXTENDS Naturals, FiniteSets

CONSTANTS
  Peers,          \* the peers the bot talks to
  HasDevices,     \* the peers with device sessions: two request channels
  MaxMsgs,        \* bound: the messages enqueued in one run
  MaxQueued,      \* maxQueued, the queue cap of one lane
  MaxExtensions,  \* maxExtensions, in-slot replacements before waiting
  BatchCap        \* messages that fit in maxPayloadBytes

ASSUME ConstantsAssumption ==
  /\ Peers # {}
  /\ HasDevices \subseteq Peers
  /\ MaxMsgs \in Nat \ {0}
  /\ MaxQueued \in Nat \ {0}
  /\ MaxExtensions \in Nat
  /\ BatchCap \in Nat \ {0}

VARIABLES
  lane,       \* lanes: the map from peer to its lane
  arrived,    \* how many messages were enqueued
  opts,       \* the options each message was enqueued with
  submitted,  \* each message's `submitted` promise
  delivered,  \* each message's `delivered` promise
  requests,   \* how many statements were encoded and handed to the node
  sent,       \* those statements
  slot,       \* the store: the request held by each channel, 0 when empty
  got,        \* the requests the peers fetched
  up          \* the process runs (no unhandled rejection ended it)

botVars == <<lane, arrived, opts, submitted, delivered, requests, up>>
vars    == <<lane, arrived, opts, submitted, delivered, requests, sent, slot, got, up>>

Msg     == 1 .. MaxMsgs
Request == 1 .. MaxMsgs   \* every statement carries a message no earlier one did
None    == 0

Channel == Peers \X BOOLEAN

(***************************************************************************)
(* The identity channel carries forceIdentity batches and everything for a *)
(* peer without devices; the device session has a request channel of its   *)
(* own.                                                                    *)
(***************************************************************************)
ChannelOf(p, identity) == <<p, identity \/ p \notin HasDevices>>

(* A lane is created by its first use. LANE_CAP is not reached: no lane is  *)
(* evicted from the map.                                                   *)
IdleLane == [queue |-> {}, current |-> None, extensions |-> 0,
             timer |-> FALSE, pump |-> "idle", flight |-> None]

Pumping(l) == l.pump # "idle"
Entries(r) == IF r = None THEN {} ELSE sent[r].entries
NewIn(r)   == Entries(r) \ Entries(sent[r].base)

(* Mutant: what an extension superseded is never settled. *)
DroppedUnsettled(r) == {}

DroppedIn(r) == Entries(sent[r].base) \ Entries(r)
Oldest(S) == CHOOSE m \in S : \A k \in S : m <= k

-----------------------------------------------------------------------------
(* A promise settles once: later calls of resolve and reject do nothing.   *)

Settle(promise, S, value) ==
  [m \in Msg |-> IF m \in S /\ promise[m] = "pending" THEN value ELSE promise[m]]

-----------------------------------------------------------------------------
(* packBatch: the longest acceptable prefix of the queue on top of base.   *)

(* Messages of the prefix that share the batch's forceIdentity flag.       *)
FlaggedPrefix(l) ==
  LET flag == IF l.current # None THEN sent[l.current].identity
              ELSE opts[Oldest(l.queue)].identity
  IN {m \in l.queue : \A k \in l.queue : k <= m => opts[k].identity = flag}

(* Mutant: an extension forgets what it extends. *)
BatchWithoutBase(base, S) == {m \in S : \A k \in S : m \notin opts[k].supersedes}

(* The candidate batch: base and S without what a newer member supersedes. *)
Batch(base, S) ==
  {m \in base \cup S : \A k \in S : m \notin opts[k].supersedes}

Fits(batch) ==
  Cardinality(batch) <= BatchCap /\ \A m \in batch : ~opts[m].oversize

(* The candidate when the loop comes to message m of the prefix.           *)
Before(prefix, m) == {k \in prefix : k < m /\ ~opts[k].oversize}
Candidate(base, prefix, m) == Batch(base, Before(prefix, m) \cup {m})

(* A message too large even alone, with nothing packed before it.          *)
NeverFits(base, prefix, m) ==
  /\ opts[m].oversize
  /\ Candidate(base, prefix, m) = {m}
  /\ Cardinality(Batch(base, Before(prefix, m))) <= Cardinality(base)

(* Mutant: a message that does not fit is skipped, not waited for. *)
ReachedBySkipping(base, prefix) == prefix

(* The loop ends at the first message that neither fits nor is rejected.   *)
Reached(base, prefix) ==
  {m \in prefix : \A k \in prefix :
     k < m => Fits(Candidate(base, prefix, k)) \/ NeverFits(base, prefix, k)}

(***************************************************************************)
(* What packBatch takes from the queue and what it rejects. Without a      *)
(* session every encodeBatch throws and rejects its message.               *)
(***************************************************************************)
Pack(l, noSession) ==
  LET base    == Entries(l.current)
      prefix  == FlaggedPrefix(l)
      reached == Reached(base, prefix)
      taken   == {m \in reached : Fits(Candidate(base, prefix, m))}
  IN IF noSession
     THEN [taken |-> {}, rejected |-> prefix, entries |-> base]
     ELSE [taken    |-> taken,
           rejected |-> {m \in reached : NeverFits(base, prefix, m)},
           entries  |-> Batch(base, taken)]

-----------------------------------------------------------------------------
(* Mutant: a blocked lane never arms its timer. *)
NeverArmed(l) == l

(***************************************************************************)
(* armGrace does nothing without a current statement or a queue.           *)
(***************************************************************************)
ArmGrace(l) ==
  [l EXCEPT !.timer = @ \/ (l.current # None /\ l.queue # {})]

(* pump() on a lane that is already pumping returns at once.               *)
CallPump(l) == [l EXCEPT !.pump = IF @ = "idle" THEN "tick" ELSE @]

(* Mutant: off by one in the extension budget. *)
BudgetOverspent(l) == l.current # None /\ l.extensions > MaxExtensions

(* The statement was replaced in its slot as often as allowed.             *)
BudgetSpent(l) == l.current # None /\ l.extensions >= MaxExtensions

Halt(l) == [l EXCEPT !.pump = "idle", !.flight = None]

(***************************************************************************)
(* The pump's loop from its while to the next await, for peer p, on lane   *)
(* record l and promises sub and del: it returns on an empty queue, blocks *)
(* (on the extension budget or on a batch nothing fits), or submits.       *)
(***************************************************************************)
PumpLoop(p, l, sub, del, noSession) ==
  LET batch == Pack(l, noSession)
      left  == [l EXCEPT !.queue = @ \ (batch.taken \cup batch.rejected)]
  IN
  \/ /\ l.queue = {}
     /\ lane' = [lane EXCEPT ![p] = Halt(l)]
     /\ submitted' = sub
     /\ delivered' = del
     /\ UNCHANGED <<requests, sent>>
  \/ /\ l.queue # {}
     /\ BudgetSpent(l)
     /\ lane' = [lane EXCEPT ![p] = Halt(ArmGrace(l))]
     /\ submitted' = sub
     /\ delivered' = del
     /\ UNCHANGED <<requests, sent>>
  \/ /\ l.queue # {}
     /\ ~BudgetSpent(l)
     /\ submitted' = Settle(sub, batch.rejected, "error")
     /\ delivered' = Settle(del, batch.rejected, "false")
     /\ \/ /\ batch.taken = {}
           /\ lane' = [lane EXCEPT ![p] = Halt(ArmGrace(left))]
           /\ UNCHANGED <<requests, sent>>
        \/ /\ batch.taken # {}
           /\ requests < MaxMsgs
           /\ requests' = requests + 1
           /\ sent' = [sent EXCEPT ![requests + 1] =
                         [peer |-> p, base |-> l.current,
                          identity |-> \A m \in batch.taken : opts[m].identity,
                          entries |-> batch.entries, node |-> "sent"]]
           /\ lane' = [lane EXCEPT ![p] =
                         [left EXCEPT !.pump = "submit", !.flight = requests + 1]]

-----------------------------------------------------------------------------
(***************************************************************************)
(* enqueue: what the new message supersedes leaves the queue even when the *)
(* queue then refuses the message itself. A live placeholder is the only   *)
(* message another one supersedes, so at most one is named.                *)
(***************************************************************************)
Enqueue(p, identity, oversize, supersedes) ==
  LET m       == arrived + 1
      l       == lane[p]
      dropped == l.queue \cap supersedes
      kept    == [l EXCEPT !.queue = @ \ dropped]
      full    == Cardinality(kept.queue) >= MaxQueued
  IN
  /\ up
  /\ arrived < MaxMsgs
  /\ arrived' = m
  /\ opts' = [opts EXCEPT ![m] = [peer |-> p, identity |-> identity,
                                  oversize |-> oversize, supersedes |-> supersedes]]
  /\ lane' = [lane EXCEPT ![p] =
                IF full THEN kept ELSE CallPump([kept EXCEPT !.queue = @ \cup {m}])]
  /\ submitted' = [Settle(submitted, dropped, "ok")
                     EXCEPT ![m] = IF full THEN "error" ELSE "pending"]
  /\ delivered' = [Settle(delivered, dropped, "false")
                     EXCEPT ![m] = IF full THEN "false" ELSE "pending"]
  /\ UNCHANGED <<requests, sent, slot, got, up>>

(* The setImmediate a pump starts with has run.                            *)
PumpTick(p, noSession) ==
  /\ up
  /\ lane[p].pump = "tick"
  /\ PumpLoop(p, lane[p], submitted, delivered, noSession)
  /\ UNCHANGED <<arrived, opts, slot, got, up>>

(***************************************************************************)
(* submitPayload resolved. An extension reads lane.current again, which an *)
(* ACK or the grace timer may have cleared during the await: the TypeError *)
(* leaves `void pump()` as an unhandled rejection, which ends the process. *)
(***************************************************************************)
SubmitReturns(p, noSession) ==
  LET l    == lane[p]
      r    == l.flight
      sub  == Settle(submitted, NewIn(r), "ok")
      del  == Settle(delivered, DroppedIn(r), "false")
      next == [l EXCEPT !.current = r, !.timer = FALSE, !.flight = None,
                        !.extensions = IF sent[r].base = None THEN 0 ELSE @ + 1]
  IN
  /\ up
  /\ l.pump = "submit"
  /\ sent[r].node = "stored"
  /\ \/ /\ sent[r].base = None \/ l.current # None
        /\ PumpLoop(p, next, sub, del, noSession)
        /\ UNCHANGED up
     \/ /\ sent[r].base # None /\ l.current = None
        /\ up' = FALSE
        /\ lane' = [lane EXCEPT ![p] = Halt([l EXCEPT !.timer = FALSE])]
        /\ submitted' = sub
        /\ delivered' = del
        /\ UNCHANGED <<requests, sent>>
  /\ UNCHANGED <<arrived, opts, slot, got>>

(* submitPayload threw: the new entries fail, the old statement stays.     *)
SubmitThrows(p) ==
  /\ submitted' = Settle(submitted, NewIn(lane[p].flight), "error")
  /\ delivered' = Settle(delivered, NewIn(lane[p].flight), "false")
  /\ lane' = [lane EXCEPT ![p] = Halt(@)]
  /\ UNCHANGED <<arrived, opts, requests, slot, got, up>>

(* The node refused the statement for good.                                *)
SubmitRefused(p) ==
  /\ up
  /\ lane[p].pump = "submit"
  /\ sent[lane[p].flight].node = "sent"
  /\ sent' = [sent EXCEPT ![lane[p].flight].node = "refused"]
  /\ SubmitThrows(p)

(***************************************************************************)
(* withTimeout gave up. The request itself goes on: it may have been       *)
(* stored already, and may still be.                                       *)
(***************************************************************************)
SubmitTimesOut(p) ==
  /\ up
  /\ lane[p].pump = "submit"
  /\ SubmitThrows(p)
  /\ UNCHANGED sent

(* Mutant: any ACK of the peer settles the current statement. *)
OnAnyAck(p, r) ==
  /\ up
  /\ r \in got
  /\ lane[p].current # None
  /\ delivered' = Settle(delivered, Entries(lane[p].current), "true")
  /\ lane' = [lane EXCEPT ![p] =
                CallPump([@ EXCEPT !.current = None, !.extensions = 0, !.timer = FALSE])]
  /\ UNCHANGED <<arrived, opts, submitted, requests, sent, slot, got, up>>

(* onAck: only the ACK of the current request id frees the slot.           *)
OnAck(p, r) ==
  /\ up
  /\ r \in got
  /\ lane[p].current = r
  /\ delivered' = Settle(delivered, Entries(r), "true")
  /\ lane' = [lane EXCEPT ![p] =
                CallPump([@ EXCEPT !.current = None, !.extensions = 0, !.timer = FALSE])]
  /\ UNCHANGED <<arrived, opts, submitted, requests, sent, slot, got, up>>

(***************************************************************************)
(* The grace timer: the current statement went un-ACKed for ackGraceMs     *)
(* with messages behind it, which take the slot over.                      *)
(***************************************************************************)
GraceFires(p) ==
  LET l == lane[p] IN
  /\ up
  /\ l.timer
  /\ \/ /\ l.current = None \/ l.queue = {}
        /\ lane' = [lane EXCEPT ![p].timer = FALSE]
        /\ UNCHANGED delivered
     \/ /\ l.current # None /\ l.queue # {}
        /\ delivered' = Settle(delivered, Entries(l.current), "false")
        /\ lane' = [lane EXCEPT ![p] =
                      CallPump([@ EXCEPT !.current = None, !.extensions = 0, !.timer = FALSE])]
  /\ UNCHANGED <<arrived, opts, submitted, requests, sent, slot, got, up>>

(* expire: session pruning retires an idle lane that still holds messages. *)
Expire(p) ==
  LET l == lane[p] IN
  /\ up
  /\ ~Pumping(l)
  /\ l.current # None \/ l.queue # {}
  /\ submitted' = Settle(submitted, l.queue, "error")
  /\ delivered' = Settle(delivered, l.queue \cup Entries(l.current), "false")
  /\ lane' = [lane EXCEPT ![p] = IdleLane]
  /\ UNCHANGED <<arrived, opts, requests, sent, slot, got, up>>

-----------------------------------------------------------------------------
(***************************************************************************)
(* The node stores a statement it was sent and replaces what the channel   *)
(* held. A statement nobody awaits any more lands as well: when the node   *)
(* answers channelPriorityTooLow, submitAppStatement signs the same        *)
(* payload again with a fresh, higher expiry.                              *)
(***************************************************************************)
Land(r) ==
  /\ r <= requests
  /\ sent[r].node = "sent"
  /\ sent' = [sent EXCEPT ![r].node = "stored"]
  /\ slot' = [slot EXCEPT ![ChannelOf(sent[r].peer, sent[r].identity)] = r]
  /\ UNCHANGED <<botVars, got>>

(* The peer fetches what the channel holds.                                *)
Fetch(c) ==
  /\ slot[c] # None
  /\ slot[c] \notin got
  /\ got' = got \cup {slot[c]}
  /\ UNCHANGED <<botVars, sent, slot>>

-----------------------------------------------------------------------------
NoOpts == [peer |-> CHOOSE p \in Peers : TRUE, identity |-> FALSE,
           oversize |-> FALSE, supersedes |-> {}]
NoStatement == [peer |-> CHOOSE p \in Peers : TRUE, base |-> None,
                identity |-> FALSE, entries |-> {}, node |-> "none"]

Init ==
  /\ lane = [p \in Peers |-> IdleLane]
  /\ arrived = 0
  /\ opts = [m \in Msg |-> NoOpts]
  /\ submitted = [m \in Msg |-> "none"]
  /\ delivered = [m \in Msg |-> "none"]
  /\ requests = 0
  /\ sent = [r \in Request |-> NoStatement]
  /\ slot = [c \in Channel |-> None]
  /\ got = {}
  /\ up = TRUE

(* What a message may supersede: nothing, or one earlier message.          *)
Superseded(p) ==
  {{}} \cup {{k} : k \in {m \in Msg : m <= arrived /\ opts[m].peer = p}}

Next ==
  \/ \E p \in Peers, identity, oversize \in BOOLEAN :
       \E s \in Superseded(p) : Enqueue(p, identity, oversize, s)
  \/ \E p \in Peers, noSession \in BOOLEAN : PumpTick(p, noSession)
  \/ \E p \in Peers, noSession \in BOOLEAN : SubmitReturns(p, noSession)
  \/ \E p \in Peers : SubmitRefused(p)
  \/ \E p \in Peers : SubmitTimesOut(p)
  \/ \E p \in Peers, r \in Request : OnAck(p, r)
  \/ \E p \in Peers : GraceFires(p)
  \/ \E p \in Peers : Expire(p)
  \/ \E r \in Request : Land(r)
  \/ \E c \in Channel : Fetch(c)

Settles(p) ==
  \/ SubmitTimesOut(p)
  \/ SubmitRefused(p)
  \/ \E noSession \in BOOLEAN : SubmitReturns(p, noSession)

(***************************************************************************)
(* The event loop runs every ready callback, withTimeout settles every     *)
(* submit, and an armed timer fires. The peer promises nothing.            *)
(***************************************************************************)
Fairness ==
  \A p \in Peers :
    /\ WF_vars(\E noSession \in BOOLEAN : PumpTick(p, noSession))
    /\ WF_vars(Settles(p))
    /\ WF_vars(GraceFires(p))

Spec == Init /\ [][Next]_vars /\ Fairness

-----------------------------------------------------------------------------
LaneType ==
  [queue : SUBSET Msg, current : {None} \cup Request,
   extensions : 0 .. MaxExtensions, timer : BOOLEAN, pump : {"idle", "tick", "submit"},
   flight : {None} \cup Request]

TypeOK ==
  /\ lane \in [Peers -> LaneType]
  /\ arrived \in 0 .. MaxMsgs
  /\ opts \in [Msg -> [peer : Peers, identity : BOOLEAN, oversize : BOOLEAN,
                       supersedes : SUBSET Msg]]
  /\ submitted \in [Msg -> {"none", "pending", "ok", "error"}]
  /\ delivered \in [Msg -> {"none", "pending", "true", "false"}]
  /\ requests \in 0 .. MaxMsgs
  /\ sent \in [Request -> [peer : Peers, base : {None} \cup Request,
                           identity : BOOLEAN, entries : SUBSET Msg,
                           node : {"none", "sent", "stored", "refused"}]]
  /\ slot \in [Channel -> {None} \cup Request]
  /\ got \subseteq Request
  /\ up \in BOOLEAN

-----------------------------------------------------------------------------
OnNode  == UNION {sent[r].entries : r \in {q \in Request : sent[q].node = "stored"}}
Fetched == UNION {sent[r].entries : r \in got}

(***************************************************************************)
(* Nothing the lane still has to settle is forgotten: a message whose      *)
(* `submitted` is open is queued or new in the statement being submitted,  *)
(* and one whose `delivered` is open is queued, in that statement or in    *)
(* the current one (outbound-lanes.mjs 197-199, what enqueue returns).     *)
(***************************************************************************)
PromiseHeld ==
  \A m \in 1 .. arrived :
    LET l == lane[opts[m].peer] IN
    /\ submitted[m] = "pending" =>
         m \in l.queue \/ (l.flight # None /\ m \in NewIn(l.flight))
    /\ delivered[m] = "pending" =>
         m \in l.queue \cup Entries(l.flight) \cup Entries(l.current)

(***************************************************************************)
(* PromiseHeld in a process that runs: the exception that ends the process *)
(* is the only way to lose a promise.                                      *)
(***************************************************************************)
PromiseHeldWhileUp == up => PromiseHeld

(***************************************************************************)
(* The queue is FIFO for the peer: of two messages to one channel, the     *)
(* later is on the node only if the earlier was before it or was reported  *)
(* undelivered (the chunks of an answer never overtake one another).       *)
(***************************************************************************)
OrderPreserved ==
  \A a, b \in 1 .. arrived :
    /\ a < b
    /\ opts[a].peer = opts[b].peer
    /\ opts[a].identity = opts[b].identity
    /\ b \in OnNode
    => a \in OnNode \/ delivered[a] = "false"

(* The statement a landing puts in the store was not given up by its pump. *)
Awaited(r) == \E p \in Peers : lane[p].flight = r

Kept(m, r) ==
  \/ m \in Entries(r)
  \/ m \in Fetched
  \/ delivered[m] # "pending"
  \/ \E k \in Entries(r) : m \in opts[k].supersedes

(***************************************************************************)
(* Slot replacement is lossless: a message the store held and the peer had *)
(* not fetched is in the replacing statement, superseded by a member of    *)
(* it, or already reported undelivered. It is claimed for the statements   *)
(* a pump still awaits; Land describes the others.                         *)
(***************************************************************************)
LosslessReplacement ==
  [][\A c \in Channel :
       slot'[c] # slot[c] /\ Awaited(slot'[c]) =>
         \A m \in Entries(slot[c]) : Kept(m, slot'[c])]_vars

(***************************************************************************)
(* The same for every statement that reaches the store.                    *)
(***************************************************************************)
EveryReplacementLossless ==
  [][\A c \in Channel :
       slot'[c] # slot[c] =>
         \A m \in Entries(slot[c]) : Kept(m, slot'[c])]_vars

(***************************************************************************)
(* While nothing is refused every accepted message reaches the node,       *)
(* whatever the peer does: a blocked lane wakes on the ACK or on the grace *)
(* timer (outbound-lanes.mjs 17-23 and 188-190).                           *)
(***************************************************************************)
AcceptedReachesNode ==
  \A m \in Msg :
    submitted[m] = "pending" ~>
      \/ submitted[m] # "pending"
      \/ ~up
      \/ \E k \in Msg : submitted[k] = "error"

(***************************************************************************)
(* Every `submitted` promise settles as long as the process runs.          *)
(***************************************************************************)
SubmittedSettles ==
  \A m \in Msg :
    submitted[m] = "pending" ~> (submitted[m] # "pending" \/ ~up)

-----------------------------------------------------------------------------
(***************************************************************************)
(* The lanes implement the promises they make for each message: promises   *)
(* settle once, `submitted` only with the message on the node, `delivered` *)
(* only with the peer having it, whatever is acknowledged, lost, late or   *)
(* replaced.                                                               *)
(***************************************************************************)
Promises == INSTANCE MessagePromises
              WITH Messages <- Msg, onNode <- OnNode, fetched <- Fetched

PromisesKept == Promises!Spec
=============================================================================
