----------------------------- MODULE AgentRuntime -----------------------------
(***************************************************************************)
(* The direct-engine brain (src/bot-core/lib/agent-runtime.mjs with        *)
(* lib/commands.mjs and lib/workspaces.mjs): each peer's messages are      *)
(* handled one after the other, all turns share a budget of engine         *)
(* processes and a bounded queue; /stop, the idle timer, shutdown and a    *)
(* crash may meet a turn at any point. The settings of a peer (model,      *)
(* project, reasoning effort) and the resume token of its native session   *)
(* live in bounded maps and in the snapshot of src/bot-core/index.mjs.     *)
(*                                                                         *)
(* Not modelled: prompts, arguments and environment of the engine, what it *)
(* prints, the copying of attachments and artifacts, usage, the journal of *)
(* answers (OwedReplies) and how a reply reaches the peer (OutboundLanes). *)
(***************************************************************************)
EXTENDS Naturals, Sequences, FiniteSets, SequencesExt

CONSTANTS
  Peers,       \* the peers
  Models,      \* model names
  Projects,    \* projects a peer may choose, each a branch worktree
  Efforts,     \* reasoning levels
  None,        \* no value
  TurnLimit,   \* maxConcurrentTurns
  QueueLimits, \* maxQueuedTurns: the values to consider
  PeerCap,     \* peerCap: entries of each per-peer map
  Lingers,     \* whether an engine may leave a process behind on its pipes
  Crashes,     \* whether the bot may crash
  MaxSent,     \* bound: messages of each peer
  MaxCommands, \* bound: commands
  MaxStops,    \* bound: /stop messages
  MaxExits     \* bound: exits of the bot

ASSUME ConstantsAssumption ==
  /\ IsFiniteSet(Peers) /\ Models # {} /\ None \notin Models \cup Projects \cup Efforts
  /\ TurnLimit \in Nat \ {0} /\ QueueLimits \subseteq Nat /\ PeerCap \in Nat \ {0}
  /\ Lingers \in BOOLEAN /\ Crashes \in BOOLEAN
  /\ \A b \in {MaxSent, MaxCommands, MaxStops, MaxExits} : b \in Nat

VARIABLES
  call,      \* where handleMessage is for the message of each peer
  cwd,       \* turnCwd: the directory it was resolved to run in, None the workspace
  cancelled, \* job.cancelled
  queue,     \* queuedTurns
  child,     \* the engine process of each peer's turn
  override, project, effort, resume,   \* the per-peer maps
  intro,     \* introducedPeers
  config,    \* the operator's model, whether switching is locked, the queue's limit
  up,        \* the process: up, stopping, down
  waits,     \* the turns and handoffs shutdown waits for
  staging,   \* privateStagingRoot exists
  owed,      \* peers whose last message is journaled as owed
  disk,      \* the snapshot on disk
  sent,      \* messages each peer has sent
  answered,  \* messages a reply was attempted for
  stopped,   \* messages a /stop that reported success was about
  count      \* commands, stops and exits so far

settings == <<override, project, effort, resume, intro, config>>
turns    == <<call, cwd, cancelled, queue, child>>
host     == <<up, waits, staging>>
history  == <<sent, answered, stopped, count>>
vars == <<turns, settings, host, owed, disk, history>>

Calls == {"idle", "cwd", "queued", "turn", "reply", "handoff"}
NoChild == [st |-> "none", got |-> FALSE, resume |-> None, model |-> None, cwd |-> None]

(* The state the snapshot is made of. Every change of it below is followed *)
(* by a persist, if only when the message it belongs to is settled; the    *)
(* store writes it later.                                                  *)
Snapshot == [override |-> override, project |-> project, effort |-> effort,
             resume |-> resume, intro |-> intro, owed |-> owed, config |-> config]
Init ==
  /\ call = [p \in Peers |-> "idle"] /\ cwd = [p \in Peers |-> None]
  /\ cancelled = [p \in Peers |-> FALSE] /\ queue = <<>> /\ child = [p \in Peers |-> NoChild]
  /\ override = [p \in Peers |-> None] /\ project = [p \in Peers |-> None]
  /\ effort = [p \in Peers |-> None] /\ resume = [p \in Peers |-> None]
  /\ intro = {} /\ config \in [model : {CHOOSE m \in Models : TRUE}, locked : {FALSE}, slots : QueueLimits]
  /\ up = "up" /\ waits = {} /\ staging = TRUE
  /\ owed = {} /\ disk = Snapshot
  /\ sent = [p \in Peers |-> 0] /\ answered = {} /\ stopped = {}
  /\ count = [commands |-> 0, stops |-> 0, exits |-> 0]

Counts(what, limit) == count[what] < limit /\ count' = [count EXCEPT ![what] = @ + 1]
Message(p) == <<p, sent[p]>>

-----------------------------------------------------------------------------
(* The per-peer maps.                                                      *)

Keys(m) == {p \in Peers : m[p] # None}

(* trimMap after an insertion: the oldest entry goes, never the new one of *)
(* p; which one is the oldest is left open.                                *)
Trimmed(m, p) ==
  IF Cardinality(Keys(m)) <= PeerCap THEN {m}
  ELSE {[m EXCEPT ![q] = None] : q \in Keys(m) \ {p}}

With(m, p, v) == Trimmed([m EXCEPT ![p] = v], p)
Without(m, p) == [m EXCEPT ![p] = None]

Effective(p) == IF override[p] = None THEN config.model ELSE override[p]

-----------------------------------------------------------------------------
(* Commands: they run in the peer's lane, when none of its turns does, and *)
(* the settled command is saved with what it changed.                      *)

Commands(p) ==
  /\ up = "up" /\ call[p] = "idle" /\ p \notin owed
  /\ Counts("commands", MaxCommands)
  /\ UNCHANGED <<turns, intro, config, host, owed, disk, sent, answered, stopped>>

(* Mutant: the new model goes on with the native session. *)
KeptByModel(p) == resume

(* clearResume: a session is never resumed under another model.            *)
ResumeAfterModel(p) == Without(resume, p)

Reset(p) ==
  /\ Commands(p) /\ resume[p] # None
  /\ resume' = Without(resume, p)
  /\ UNCHANGED <<override, project, effort>>

(* The value None is "default".                                            *)
Chosen(m, p, v) == IF v = None THEN {Without(m, p)} ELSE With(m, p, v)

ModelChosen(p, m) ==
  /\ Commands(p) /\ override[p] # m /\ (m = None \/ ~config.locked)
  /\ resume' = ResumeAfterModel(p)
  /\ override' \in Chosen(override, p, m)
  /\ UNCHANGED <<project, effort>>

ProjectChosen(p, j) ==
  /\ Commands(p) /\ project[p] # j
  /\ resume' = Without(resume, p)
  /\ project' \in Chosen(project, p, j)
  /\ UNCHANGED <<override, effort>>

EffortChosen(p, e) ==
  /\ Commands(p) /\ effort[p] # e
  /\ effort' \in Chosen(effort, p, e)
  /\ UNCHANGED <<override, project, resume>>

-----------------------------------------------------------------------------
(* The turn queue.                                                         *)

Active == {p \in Peers : call[p] = "turn"}

(* drainTurnQueue: the jobs that start when busy peers hold a slot.        *)
Starting(q, busy) ==
  IF up # "up" \/ busy >= TurnLimit THEN <<>>
  ELSE SubSeq(q, 1, IF TurnLimit - busy < Len(q) THEN TurnLimit - busy ELSE Len(q))

Spawned(p, token) ==
  [st |-> "alive", got |-> FALSE, resume |-> token, model |-> Effective(p), cwd |-> cwd[p]]

(* The calls after p's became c and q is the queue, which is drained; a    *)
(* job that starts spawns its engine with the peer's token.                *)
Drain(p, c, q) ==
  LET starts == Starting(q, Cardinality(Active \ {p}))
      new    == ToSet(starts)
  IN /\ queue' = SubSeq(q, Len(starts) + 1, Len(q))
     /\ call' = [r \in Peers |-> IF r \in new THEN "turn" ELSE IF r = p THEN c ELSE call[r]]
     /\ child' = [r \in Peers |-> IF r \in new THEN Spawned(r, resume[r])
                                  ELSE IF r = p THEN NoChild ELSE child[r]]
     /\ cancelled' = [r \in Peers |-> IF r \in new \cup {p} THEN FALSE ELSE cancelled[r]]

(* A message of the peer is journaled before it is acknowledged.           *)
Receive(p) ==
  /\ up = "up" /\ p \notin owed /\ call[p] = "idle" /\ sent[p] < MaxSent
  /\ sent' = [sent EXCEPT ![p] = @ + 1]
  /\ owed' = owed \cup {p}
  /\ UNCHANGED <<turns, settings, host, answered, stopped, count>>
  /\ disk' = Snapshot'

(* handleMessage resolves the working directory; a worktree takes a while. *)
TurnBegins(p) ==
  /\ up = "up" /\ p \in owed /\ call[p] = "idle"
  /\ call' = [call EXCEPT ![p] = "cwd"]
  /\ cwd' = [cwd EXCEPT ![p] = project[p]]
  /\ UNCHANGED <<cancelled, queue, child, settings, host, owed, disk, history>>

CwdFails(p) ==
  /\ call[p] = "cwd" /\ cwd[p] # None /\ up # "down"
  /\ call' = [call EXCEPT ![p] = "reply"]
  /\ UNCHANGED <<cwd, cancelled, queue, child, settings, host, owed, disk, history>>

(* queueEngineTurn refuses once shutdown has begun, and is busy when every *)
(* slot and every place in the queue is taken.                             *)
Refused == up = "stopping"
Busy    == Cardinality(Active) >= TurnLimit /\ Len(queue) >= config.slots

(* queueEngineTurn: refused, busy, or queued and perhaps started.          *)
Enqueue(p) ==
  /\ call[p] = "cwd" /\ up # "down"
  /\ \/ ~Refused /\ ~Busy /\ Drain(p, "queued", Append(queue, p))
     \/ /\ Refused \/ Busy
        /\ call' = [call EXCEPT ![p] = IF Refused THEN "idle" ELSE "reply"]
        /\ UNCHANGED <<cancelled, queue, child>>
  /\ UNCHANGED <<cwd, settings, host, owed, disk, history>>

-----------------------------------------------------------------------------
(* The engine process.                                                     *)

(* "started": the session id of the native session.                        *)
EngineStarts(p) ==
  /\ child[p].st \in {"alive", "dying"} /\ ~child[p].got /\ up # "down"
  /\ child' = [child EXCEPT ![p].got = TRUE]
  /\ resume' \in With(resume, p, [model |-> child[p].model, cwd |-> child[p].cwd])
  /\ UNCHANGED <<call, cwd, cancelled, queue, override, project, effort, intro, config>>
  /\ UNCHANGED <<host, owed, disk, history>>

(* The engine has exited, and a process it left behind holds its pipes.    *)
LeaderExits(p) ==
  /\ Lingers /\ child[p].st = "alive" /\ up # "down"
  /\ child' = [child EXCEPT ![p].st = "lingers"]
  /\ UNCHANGED <<call, cwd, cancelled, queue, settings, host, owed, disk, history>>

(* killProcessGroup does nothing once the engine itself has exited.        *)
Killed(c) == IF c.st = "alive" THEN [c EXCEPT !.st = "dying"] ELSE c

(* The idle timer or the wall-clock cap.                                   *)
TimerKills(p) ==
  /\ child[p].st = "alive" /\ up # "down"
  /\ child' = [child EXCEPT ![p] = Killed(@)]
  /\ UNCHANGED <<call, cwd, cancelled, queue, settings, host, owed, disk, history>>

(* Mutant: shutdown settles the message as /stop does. *)
SettlesStopped == TRUE

(* A stopped turn is settled, unless shutdown stopped it.                  *)
Settles == up = "up"

(* The turn of p is over: what handleMessage does next with its result.    *)
AfterTurn(result) ==
  IF result = "stopped" \/ up = "stopping" THEN "idle"
  ELSE IF result = "answer" THEN "handoff" ELSE "reply"

EndTurn(p, result) ==
  /\ Drain(p, AfterTurn(result), queue)
  /\ waits' = waits \ {p}
  /\ owed' = IF result = "stopped" /\ Settles THEN owed \ {p} ELSE owed
  /\ IF AfterTurn(result) = "handoff" THEN intro' = intro \cup {p} ELSE UNCHANGED intro
  /\ UNCHANGED <<cwd, override, project, effort, config, up, staging, disk, history>>

(* Mutant: an answer that is complete wins over the cancellation. *)
ResultAlways(p, outcome) == outcome

(* The close handler looks at job.cancelled first.                         *)
ResultOf(p, outcome) == IF cancelled[p] THEN "stopped" ELSE outcome

(* close: the engine answered, or failed.                                  *)
EngineCloses(p, outcome) ==
  /\ child[p].st \in {"alive", "dying"} /\ up # "down"
  /\ EndTurn(p, ResultOf(p, outcome))
  /\ UNCHANGED resume

(* close: the session to resume is gone. Its token is dropped and the turn *)
(* runs once more in the same slot.                                        *)
SessionGone(p) ==
  /\ child[p].st = "alive" /\ up # "down" /\ ~child[p].got
  /\ ~cancelled[p] /\ child[p].resume # None /\ resume[p] = child[p].resume
  /\ resume' = Without(resume, p)
  /\ child' = [child EXCEPT ![p] = Spawned(p, None)]
  /\ UNCHANGED <<call, cwd, cancelled, queue, override, project, effort, intro, config>>
  /\ UNCHANGED <<host, owed, disk, history>>

(* A busy, failed or command reply, and the handoff of the answer, whether *)
(* its submit succeeds or not.                                             *)
Replied(p) ==
  /\ call[p] \in {"reply", "handoff"} /\ up # "down"
  /\ call' = [call EXCEPT ![p] = "idle"]
  /\ waits' = waits \ {p}
  /\ owed' = owed \ {p}
  /\ answered' = answered \cup {Message(p)}
  /\ UNCHANGED <<cwd, cancelled, queue, child, settings, up, staging, disk, sent, stopped, count>>

-----------------------------------------------------------------------------
(* /stop, shutdown, crash and restart.                                     *)

(* stop: a queued job is resolved at once, an active one is marked and its *)
(* process group killed; a turn in any other place is not noticed. The     *)
(* /stop message itself was journaled before.                              *)
StopCommand(p) ==
  /\ up = "up" /\ Counts("stops", MaxStops)
  /\ \/ /\ call[p] = "queued"
        /\ \E i \in DOMAIN queue : queue[i] = p /\ queue' = RemoveAt(queue, i)
        /\ call' = [call EXCEPT ![p] = "idle"]
        /\ owed' = owed \ {p}
        /\ UNCHANGED <<cancelled, child>>
        /\ stopped' = stopped \cup {Message(p)}
     \/ /\ call[p] = "turn"
        /\ cancelled' = [cancelled EXCEPT ![p] = TRUE]
        /\ child' = [child EXCEPT ![p] = Killed(@)]
        /\ stopped' = stopped \cup {Message(p)}
        /\ UNCHANGED <<queue, call, owed>>
  /\ UNCHANGED <<cwd, settings, host, sent, answered>>
  /\ disk' = Snapshot

WaitsFor == {p \in Peers : call[p] \in {"turn", "handoff"}}

(* shutdown: the queue is refused, every active turn is killed.            *)
Shutdown ==
  /\ up = "up" /\ count.exits < MaxExits
  /\ up' = "stopping"
  /\ waits' = WaitsFor
  /\ queue' = <<>>
  /\ call' = [p \in Peers |-> IF call[p] = "queued" THEN "idle" ELSE call[p]]
  /\ cancelled' = [p \in Peers |-> cancelled[p] \/ p \in Active]
  /\ child' = [p \in Peers |-> Killed(child[p])]
  /\ UNCHANGED <<cwd, settings, staging, owed, disk, history>>

StagingRemoved ==
  /\ up = "stopping" /\ waits = {} /\ staging
  /\ staging' = FALSE
  /\ UNCHANGED <<turns, settings, up, waits, owed, disk, history>>

(* The exit after the shutdown, or after five seconds of it, with a flush; *)
(* or a crash. Bound: by then the store has written nothing of what was    *)
(* saved since the last journaled message.                                 *)
Exit ==
  /\ up # "down" /\ Counts("exits", MaxExits)
  /\ \/ up = "stopping" /\ disk' = Snapshot
     \/ Crashes /\ UNCHANGED disk
  /\ up' = "down"
  /\ call' = [p \in Peers |-> "idle"] /\ cancelled' = [p \in Peers |-> FALSE]
  /\ queue' = <<>> /\ child' = [p \in Peers |-> NoChild]
  /\ waits' = {}
  /\ UNCHANGED <<cwd, settings, staging, owed, sent, answered, stopped>>

(* restorePeer: a token comes back if the operator's model and the peer's  *)
(* override are what they were.                                            *)
RestoredToken(p, cfg) ==
  IF cfg.model = disk.config.model /\ (disk.override[p] = None \/ ~cfg.locked)
  THEN disk.resume[p] ELSE None

RestoredOverride(p, cfg) == IF cfg.locked THEN None ELSE disk.override[p]

(* Restart, perhaps with another model or with switching locked. The       *)
(* effort is in the snapshot, and is not handed to restorePeer.            *)
Restart ==
  /\ up = "down"
  /\ up' = "up" /\ staging' = TRUE
  /\ \E cfg \in [model : Models, locked : BOOLEAN, slots : {config.slots}] :
       /\ config' = cfg
       /\ override' = [p \in Peers |-> RestoredOverride(p, cfg)]
       /\ resume' = [p \in Peers |-> RestoredToken(p, cfg)]
  /\ project' = disk.project
  /\ effort' = [p \in Peers |-> None]
  /\ intro' = disk.intro
  /\ owed' = disk.owed
  /\ UNCHANGED <<turns, waits, disk, history>>

-----------------------------------------------------------------------------
PeerCommand(p) ==
  \/ Reset(p)
  \/ \E m \in Models \cup {None} : ModelChosen(p, m)
  \/ \E j \in Projects \cup {None} : ProjectChosen(p, j)
  \/ \E e \in Efforts \cup {None} : EffortChosen(p, e)

TurnStep(p) ==
  \/ TurnBegins(p) \/ CwdFails(p) \/ Enqueue(p) \/ Replied(p)

EngineStep(p) ==
  \/ EngineStarts(p) \/ LeaderExits(p) \/ TimerKills(p) \/ SessionGone(p)
  \/ \E outcome \in {"answer", "failed"} : EngineCloses(p, outcome)

Next ==
  \/ \E p \in Peers : PeerCommand(p) \/ Receive(p) \/ TurnStep(p) \/ EngineStep(p) \/ StopCommand(p)
  \/ Shutdown \/ StagingRemoved \/ Exit \/ Restart

(* The engine closes at the latest when the timer has killed its group;    *)
(* what it left behind need not.                                           *)
Fairness ==
  \A p \in Peers :
    /\ WF_vars(TurnBegins(p)) /\ WF_vars(Enqueue(p)) /\ WF_vars(Replied(p))
    /\ WF_vars(TimerKills(p))
    /\ WF_vars(\E outcome \in {"answer", "failed"} : EngineCloses(p, outcome))

Spec == Init /\ [][Next]_vars
FairSpec == Spec /\ Fairness

-----------------------------------------------------------------------------
(* The budget: no more engine processes and queued turns than configured,  *)
(* whatever /stop, retries and rejections do; and while a turn waits every *)
(* slot is in use (agent-runtime.mjs:693-728).                             *)
BudgetKept ==
  /\ Cardinality({p \in Peers : child[p].st # "none"}) <= TurnLimit
  /\ Len(queue) <= config.slots
  /\ up = "up" /\ queue # <<>> => Cardinality(Active) = TurnLimit

TypeOK ==
  /\ call \in [Peers -> Calls] /\ cancelled \in [Peers -> BOOLEAN]
  /\ queue \in Seq(Peers) /\ DOMAIN child = Peers
  /\ cwd \in [Peers -> Projects \cup {None}]
  /\ override \in [Peers -> Models \cup {None}]
  /\ project \in [Peers -> Projects \cup {None}]
  /\ effort \in [Peers -> Efforts \cup {None}]
  /\ DOMAIN resume = Peers /\ intro \subseteq Peers
  /\ up \in {"up", "stopping", "down"} /\ waits \subseteq Peers
  /\ owed \subseteq Peers /\ staging \in BOOLEAN
  /\ \A p \in Peers : call[p] = "turn" <=> child[p].st # "none"
  /\ BudgetKept

(* The token of a peer was captured under the model and in the directory   *)
(* its next turn uses, through commands, restarts with other settings and  *)
(* an engine that reports its session late (agent-runtime.mjs:598-603,     *)
(* 1202-1209, 1233-1239).                                                  *)
TokenFits ==
  \A p \in Peers : resume[p] # None =>
    resume[p].model = Effective(p) /\ resume[p].cwd = project[p]

(* A turn /stop reported as stopped delivers nothing in the same life of   *)
(* the bot, even if its engine had completed the answer.                   *)
StopHolds == stopped \cap answered # {} => count.exits > 0

(* A message is owed until it was replied to or stopped by its peer; a     *)
(* shutdown settles none (index.mjs:1370-1378, agent-runtime.mjs:1084).    *)
AnsweredOrOwed ==
  \A p \in Peers : \A n \in 1 .. sent[p] :
    \/ <<p, n>> \in answered \cup stopped
    \/ n = sent[p] /\ (p \in owed \/ up = "down")

(* The staging directory outlives every engine and every handoff that      *)
(* reads from it (agent-runtime.mjs:315-318, 1158).                        *)
StagingHeld == ~staging => \A p \in Peers : call[p] \notin {"turn", "handoff"}

(* A restart from an up-to-date snapshot brings back the model and the     *)
(* project every peer chose, unless the operator locked the choice         *)
(* (agent-runtime.mjs:1182-1240, index.mjs:2611).                          *)
KeepsChoices ==
  [][up = "down" /\ up' = "up" /\ disk = Snapshot
       => project' = project /\ (~config'.locked => override' = override)]_vars

(* A completed /stop is final: the message is not answered after a restart *)
(* either (index.mjs:1370-1372).                                           *)
StopIsFinal == stopped \cap answered = {}

(* A restart from an up-to-date snapshot brings back the reasoning effort  *)
(* every peer chose (agent-runtime.mjs:1189-1191).                         *)
KeepsEffort == [][up = "down" /\ up' = "up" /\ disk = Snapshot => effort' = effort]_vars

(* The idle backstop ends every turn, so that the peer's next message is   *)
(* served (agent-runtime.mjs:742-748).                                     *)
BackstopUnblocks == \A p \in Peers : call[p] = "turn" ~> call[p] # "turn"

-----------------------------------------------------------------------------
(* For TLC: the peers may be exchanged for one another. The models may     *)
(* not, since the operator's first model is a chosen one.                  *)
PeersAreAlike == Permutations(Peers)

=============================================================================
