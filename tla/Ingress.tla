------------------------------- MODULE Ingress -------------------------------
(***************************************************************************)
(* How statements reach the handlers of bot-core: subscriptions kept by    *)
(* the ingress supervisor (vendor/lib/statement-ingress-supervisor.mjs),   *)
(* the poll loop that sweeps the store, the keyed dispatcher               *)
(* (lib/keyed-dispatcher.mjs) both of them feed, and the watch set         *)
(* (index.mjs). All paths are under src/bot-core. Every peer opens a chat  *)
(* with an opener (number 0) and then posts numbered session statements;   *)
(* openers share one key of the dispatcher, sessions have one each.        *)
(*                                                                         *)
(* Not modelled: what a handler does with a statement (OwedReplies.tla),   *)
(* the cap on one batch's input, the expiry of statements and of idle      *)
(* sessions, days, the length of delays and backoffs, the counters shown   *)
(* by /health. A group holds all its topics: chunks of sixteen are one.    *)
(***************************************************************************)
EXTENDS Naturals, Sequences, FiniteSets, SequencesExt, Functions

CONSTANTS
  Peers,        \* peers that open a chat
  Openers,      \* the key and the subscription group of the openers
  Sessions,     \* the subscription group of the session topics
  Idle,         \* what a key without a running task runs
  MaxMessages,  \* bound: session statements of each peer
  Workers,      \* dispatchConcurrency
  QueueCap,     \* dispatchQueueCap
  MaxCuts,      \* bound: times subscriptions die
  MaxFaults     \* bound: queries, heartbeats and handlers that fail

ASSUME ConstantsAssumption ==
  /\ Workers \in Nat \ {0} /\ QueueCap \in Nat \ {0}
  /\ MaxMessages \in Nat /\ MaxCuts \in Nat /\ MaxFaults \in Nat
  /\ Openers \notin Peers /\ Sessions # Openers

VARIABLES
  published,  \* statements in the store
  watched,    \* watchedSessionPeers
  seen,       \* seenStatements
  handled,    \* how often a handler ran a statement to its end
  disp,       \* the dispatcher: queue and running task of each key, ready keys
  subs,       \* the subscription of each group: alive, its peers, pages on the way
  health,     \* the health subscription delivers
  beat,       \* currentHeartbeat is set
  sweep,      \* the poll loop: its place, the watch set it built, the answers
  cuts,       \* times subscriptions died so far
  faults      \* failures so far

vars == <<published, watched, seen, handled, disp, subs, health, beat, sweep, cuts, faults>>
supervisor == <<subs, health, beat>>

Stmts == [peer : Peers, n : 0 .. MaxMessages]
Groups == {Openers, Sessions}
Keys == Peers \cup {Openers}
KeyOf(s) == IF s.n = 0 THEN Openers ELSE s.peer

(* The topics of a group for a watch set, and what the store holds on them. *)
OnTopics(g, w) == {s \in Stmts : IF g = Openers THEN s.n = 0 ELSE s.n > 0 /\ s.peer \in w}
InStore(g, w) == published \cap OnTopics(g, w)

Fail == faults < MaxFaults /\ faults' = faults + 1

-----------------------------------------------------------------------------
(* The keyed dispatcher.                                                   *)

Busy(d) == {k \in Keys : d.running[k] # Idle}
QueuedCount(d) == FoldFunction(LAMBDA q, n : Len(q) + n, 0, d.queue)
Tasks(d) == {d.running[k] : k \in Busy(d)} \cup UNION {ToSet(d.queue[k]) : k \in Keys}

MakeReady(d, k) ==
  IF d.running[k] # Idle \/ k \in ToSet(d.ready) \/ d.queue[k] = <<>> THEN d
  ELSE [d EXCEPT !.ready = Append(@, k)]

(* One turn of drain's loop for ready key k; once every worker is busy the  *)
(* remaining keys stay ready.                                              *)
Served(d, k) ==
  IF Cardinality(Busy(d)) >= Workers THEN [d EXCEPT !.ready = Append(@, k)]
  ELSE IF d.running[k] # Idle \/ d.queue[k] = <<>> THEN d
  ELSE [d EXCEPT !.queue[k] = Tail(@), !.running[k] = Head(d.queue[k])]

Drained(d) == FoldLeft(Served, [d EXCEPT !.ready = <<>>], d.ready)

(* Mutant: a task is queued but nobody starts it when a worker is free.    *)
RunLater(d, t) ==
  LET k == KeyOf(t.s)
  IN  IF QueuedCount(d) >= QueueCap THEN d
      ELSE MakeReady([d EXCEPT !.queue[k] = Append(@, t)], k)

Run(d, t) ==
  LET k == KeyOf(t.s)
  IN  IF QueuedCount(d) >= QueueCap THEN d
      ELSE Drained(MakeReady([d EXCEPT !.queue[k] = Append(@, t)], k))

(* Mutant: the end of a task frees its key without looking at its queue.   *)
FreedOnly(d, k) == Drained([d EXCEPT !.running[k] = Idle])

Freed(d, k) == Drained(MakeReady([d EXCEPT !.running[k] = Idle], k))

(* queueStatements: what is on no watched topic has no target and is left.  *)
(* The sweep waits for its own tasks.                                      *)
Queued(page, w, forSweep) ==
  LET targets == SelectSeq(page, LAMBDA s : s.n = 0 \/ s.peer \in w)
  IN  FoldLeft(LAMBDA d, s : Run(d, [s |-> s, sweep |-> forSweep, at |-> "start"]), disp, targets)

-----------------------------------------------------------------------------
(* The subscriptions.                                                      *)

NoSub == [up |-> FALSE, peers |-> {}, page |-> {}]
GroupPeers(g, w) == IF g = Openers THEN {} ELSE w
NewSub(g, w) == [up |-> TRUE, peers |-> GroupPeers(g, w), page |-> InStore(g, w)]

(* Mutant: resubscribe drops the groups that have no topics left, and       *)
(* replaces groups by force only.                                          *)
ResubscribedByForce(w, force) ==
  [g \in Groups |-> IF g = Sessions /\ w = {} THEN NoSub
                    ELSE IF force THEN NewSub(g, w) ELSE subs[g]]

(* resubscribe: a group is replaced when its topics changed, or by force.  *)
Resubscribed(w, force) ==
  [g \in Groups |->
     IF g = Sessions /\ w = {} THEN NoSub
     ELSE IF ~force /\ subs[g].peers = GroupPeers(g, w) THEN subs[g]
     ELSE NewSub(g, w)]

(* Mutant: a recovery leaves the groups whose topics did not change.       *)
RecoverUnforced ==
  /\ subs' = Resubscribed(watched, FALSE)
  /\ beat' = FALSE

(* requestRecovery and recover: every group again, the health subscription *)
(* as it was.                                                              *)
Recover ==
  /\ subs' = Resubscribed(watched, TRUE)
  /\ beat' = FALSE

Init ==
  /\ published = {} /\ watched = {} /\ seen = {}
  /\ handled = [s \in Stmts |-> 0]
  /\ disp = [queue |-> [k \in Keys |-> <<>>], running |-> [k \in Keys |-> Idle], ready |-> <<>>]
  /\ subs = [g \in Groups |-> IF g = Openers THEN [NoSub EXCEPT !.up = TRUE] ELSE NoSub]
  /\ health = TRUE /\ beat = FALSE
  /\ sweep = [at |-> "idle", w |-> {}, got |-> [g \in Groups |-> {}], left |-> {}]
  /\ cuts = 0 /\ faults = 0

(* External: a peer publishes its next statement; live subscriptions to its *)
(* topic will deliver it.                                                  *)
Publish(s) ==
  /\ s \notin published
  /\ s.n > 0 => [s EXCEPT !.n = @ - 1] \in published
  /\ published' = published \cup {s}
  /\ subs' = [g \in Groups |->
                IF subs[g].up /\ s \in OnTopics(g, subs[g].peers)
                  THEN [subs[g] EXCEPT !.page = @ \cup {s}] ELSE subs[g]]
  /\ UNCHANGED <<watched, seen, handled, disp, health, beat, sweep, cuts, faults>>

(* handlePage: the statements of a page are queued in the node's order.    *)
Page(g) ==
  /\ subs[g].up /\ subs[g].page # {}
  /\ \E page \in SetToSeqs(subs[g].page) : disp' = Queued(page, watched, FALSE)
  /\ subs' = [subs EXCEPT ![g].page = {}]
  /\ UNCHANGED <<published, watched, seen, handled, health, beat, sweep, cuts, faults>>

(* External: some subscriptions die, with or without an error. An error     *)
(* requests a recovery at once, which succeeds or dies again.              *)
Cut(dead) ==
  /\ cuts < MaxCuts /\ cuts' = cuts + 1
  /\ dead # {}
  /\ health' = (health /\ "health" \notin dead)
  /\ \/ /\ subs' = [g \in Groups |-> IF g \in dead THEN [subs[g] EXCEPT !.up = FALSE, !.page = {}]
                                     ELSE subs[g]]
        /\ UNCHANGED beat
     \/ Recover
  /\ UNCHANGED <<published, watched, seen, handled, disp, sweep, faults>>

(* submitHeartbeatNow: one heartbeat at a time. The health subscription is  *)
(* still set after it died. A submit that fails requests a recovery.       *)
Heartbeat ==
  /\ ~beat
  /\ \/ beat' = TRUE /\ UNCHANGED <<subs, faults>>
     \/ Fail /\ Recover
  /\ UNCHANGED <<published, watched, seen, handled, disp, health, sweep, cuts>>

(* The heartbeat comes back through the health subscription.               *)
HeartbeatObserved ==
  /\ beat /\ health
  /\ beat' = FALSE
  /\ UNCHANGED <<published, watched, seen, handled, disp, subs, health, sweep, cuts, faults>>

(* The deadline of the heartbeat passes.                                   *)
HeartbeatMissed ==
  /\ beat
  /\ IF health THEN Fail ELSE UNCHANGED faults
  /\ Recover
  /\ UNCHANGED <<published, watched, seen, handled, disp, health, sweep, cuts>>

-----------------------------------------------------------------------------
(* The handlers, as tasks of the dispatcher.                               *)

(* Mutant: the dedup set is not looked up when a task's turn comes.         *)
NeverDuplicate(s) == FALSE

(* A copy of the statement was handled while this one waited.              *)
IsDuplicate(s) == s \in seen

(* dispatchStatement starts: a statement handled meanwhile ends it.        *)
Begin(k) ==
  /\ k \in Busy(disp) /\ disp.running[k].at = "start"
  /\ disp' = IF IsDuplicate(disp.running[k].s) THEN Freed(disp, k)
             ELSE [disp EXCEPT !.running[k].at = "work"]
  /\ UNCHANGED <<published, watched, seen, handled, supervisor, sweep, cuts, faults>>

(* handleOpener: the session exists and its topics are subscribed before    *)
(* the acceptance is posted.                                               *)
OpenSession ==
  /\ disp.running[Openers] # Idle /\ disp.running[Openers].at = "work"
  /\ watched' = watched \cup {disp.running[Openers].s.peer}
  /\ subs' = Resubscribed(watched', FALSE)
  /\ disp' = [disp EXCEPT !.running[Openers].at = "accept"]
  /\ UNCHANGED <<published, seen, handled, health, beat, sweep, cuts, faults>>

(* Mutant: a deferred statement is noted as seen.                          *)
NoteAlways(s, outcome) == seen \cup {s}

(* noteSeenStatement: a deferred statement is not deduplicated.            *)
NoteSeen(s, outcome) == IF outcome = "deferred" THEN seen ELSE seen \cup {s}

(* dispatchStatement ends: a statement deferred, or whose handler threw, is *)
(* not noted as seen.                                                      *)
Finish(k, outcome) ==
  /\ k \in Busy(disp) /\ disp.running[k].at \in {"work", "accept"}
  /\ outcome = "handled" => (k = Openers => disp.running[k].at = "accept")
  /\ LET s == disp.running[k].s
     IN  /\ seen' = NoteSeen(s, outcome)
         /\ IF outcome = "deferred" THEN Fail /\ UNCHANGED handled
            ELSE handled' = [handled EXCEPT ![s] = @ + 1] /\ UNCHANGED faults
  /\ disp' = Freed(disp, k)
  /\ UNCHANGED <<published, watched, supervisor, sweep, cuts>>

-----------------------------------------------------------------------------
(* The poll loop.                                                          *)

(* pollOnce: the watch set of the tick, and one query for each group of it. *)
StartSweep ==
  /\ sweep.at = "idle"
  /\ sweep' = [at |-> "ask", w |-> watched, got |-> [g \in Groups |-> {}], left |-> Groups]
  /\ UNCHANGED <<published, watched, seen, handled, disp, supervisor, cuts, faults>>

(* queryTopics answers with what the store holds then, or fails.           *)
Answer(g) ==
  /\ sweep.at = "ask" /\ g \in sweep.left
  /\ \/ sweep' = [sweep EXCEPT !.left = @ \ {g}, !.got[g] = InStore(g, sweep.w)] /\ UNCHANGED faults
     \/ Fail /\ sweep' = [sweep EXCEPT !.left = @ \ {g}]
  /\ UNCHANGED <<published, watched, seen, handled, disp, supervisor, cuts>>

QueueSweep ==
  /\ sweep.at = "ask" /\ sweep.left = {}
  /\ \E o \in SetToSeqs(sweep.got[Openers]), m \in SetToSeqs(sweep.got[Sessions]) :
       disp' = Queued(o \o m, sweep.w, TRUE)
  /\ sweep' = [sweep EXCEPT !.at = "wait", !.w = {}, !.got = [g \in Groups |-> {}]]
  /\ UNCHANGED <<published, watched, seen, handled, supervisor, cuts, faults>>

(* Its tasks have ended; the loop resubscribes what changed and sleeps.    *)
EndSweep ==
  /\ sweep.at = "wait" /\ \A t \in Tasks(disp) : ~t.sweep
  /\ sweep' = [sweep EXCEPT !.at = "idle"]
  /\ subs' = Resubscribed(watched, FALSE)
  /\ UNCHANGED <<published, watched, seen, handled, disp, health, beat, cuts, faults>>

Next ==
  \/ \E s \in Stmts : Publish(s)
  \/ \E g \in Groups : Page(g) \/ Answer(g)
  \/ \E dead \in SUBSET (Groups \cup {"health"}) : Cut(dead)
  \/ Heartbeat \/ HeartbeatObserved \/ HeartbeatMissed
  \/ \E k \in Keys : Begin(k) \/ (\E outcome \in {"handled", "deferred"} : Finish(k, outcome))
  \/ OpenSession
  \/ StartSweep \/ QueueSweep \/ EndSweep

Spec == Init /\ [][Next]_vars

(* A heartbeat is given ten seconds: the pages that a recovery brought and   *)
(* their tasks are done before the next deadline passes.                   *)
Quiet == /\ \A g \in Groups : subs[g].page = {}
         /\ \A t \in Tasks(disp) : t.sweep
TimelyNext == Next /\ (HeartbeatMissed => Quiet)

(* What the event loop, the timers and the deadlines of submits and queries *)
(* guarantee: whatever can go on does.                                     *)
FairSpec ==
  /\ Init /\ [][TimelyNext]_vars
  /\ \A g \in Groups : WF_vars(Page(g)) /\ WF_vars(Answer(g))
  /\ WF_vars(Heartbeat) /\ WF_vars(HeartbeatObserved \/ (HeartbeatMissed /\ Quiet))
  /\ \A k \in Keys : WF_vars(Begin(k)) /\ WF_vars(Finish(k, "handled"))
  /\ WF_vars(OpenSession)
  /\ WF_vars(StartSweep \/ QueueSweep \/ EndSweep)

-----------------------------------------------------------------------------
TaskType == [s : Stmts, sweep : BOOLEAN, at : {"start", "work", "accept"}]

(* No lost wake-up in the dispatcher: never more tasks than workers, and no *)
(* key waits while a worker is free and the key runs nothing                *)
(* (keyed-dispatcher.mjs:12-39).                                           *)
WorkersServe ==
  /\ Cardinality(Busy(disp)) <= Workers
  /\ Cardinality(Busy(disp)) < Workers =>
       \A k \in Keys : disp.queue[k] # <<>> => disp.running[k] # Idle

(* Types; the queue keeps its cap; a group of no peers has no subscription.  *)
TypeOK ==
  /\ published \subseteq Stmts /\ seen \subseteq published /\ watched \subseteq Peers
  /\ handled \in [Stmts -> Nat]
  /\ \A k \in Keys : /\ \A t \in ToSet(disp.queue[k]) : t \in TaskType /\ KeyOf(t.s) = k
                     /\ disp.running[k] # Idle =>
                          disp.running[k] \in TaskType /\ KeyOf(disp.running[k].s) = k
  /\ IsInjective(disp.ready) /\ ToSet(disp.ready) \subseteq Keys
  /\ QueuedCount(disp) <= QueueCap
  /\ subs \in [Groups -> [up : BOOLEAN, peers : SUBSET Peers, page : SUBSET published]]
  /\ subs[Sessions].peers = watched
  /\ health \in BOOLEAN /\ beat \in BOOLEAN
  /\ sweep \in [at : {"idle", "ask", "wait"}, w : SUBSET watched,
                got : [Groups -> SUBSET published], left : SUBSET Groups]
  /\ cuts \in 0 .. MaxCuts /\ faults \in 0 .. MaxFaults
  /\ WorkersServe

(* A statement arrives by a page, by every new subscription's first page    *)
(* and by every sweep, and its copies are queued side by side; a handler    *)
(* still runs it to its end once (index.mjs:2067-2089).                    *)
HandledOnce == \A s \in Stmts : handled[s] <= 1

(* Whatever subscriptions, queries, pages and full queues lose, a statement *)
(* in the store is handled in the end: the sweep examines it again          *)
(* (index.mjs:2091-2094, 2774-2776).                                       *)
PublishedIsHandled ==
  \A s \in Stmts : s \in published ~> handled[s] > 0

(* When the health subscription has died, a missed heartbeat brings back    *)
(* the subscriptions that died with it (index.mjs:2668-2674).              *)
DeathIsNoticed ==
  ~health ~> (subs[Openers].up /\ (watched = {} \/ subs[Sessions].up))

(* docs/explanation/protocol.md:141-143 says that the bot expects the       *)
(* heartbeat "back through its own subscription; a miss resubscribes": a    *)
(* dead health subscription would come back.                               *)
MissResubscribes == ~health ~> health
=============================================================================
