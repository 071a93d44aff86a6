------------------------- MODULE AgentRuntime_proofs -------------------------
(***************************************************************************)
(* What the agent runtime keeps for any peers, slots, queue limits, stops, *)
(* shutdowns, crashes and restarts. SlotsInv is inductive of the turn      *)
(* queue: the engines are the active turns, within the budget, and nobody  *)
(* waits while a slot is free. OwedInv and StopInv follow each message     *)
(* from its journal to its answer, or to the /stop that reported it as     *)
(* stopped. TokenInv follows the resume token of a peer from the engine    *)
(* that reported it, through the snapshot, to the next turn.               *)
(***************************************************************************)
EXTENDS AgentRuntime, SequenceTheorems, FiniteSetTheorems, TLAPS

Opt(S) == S \cup {None}
Token  == [model : Models, cwd : Opt(Projects)]
ChildType  == {c \in [st : {"none", "alive", "dying", "lingers"}, got : BOOLEAN, resume : Opt(Token),
                      model : Opt(Models), cwd : Opt(Projects)] : c.st # "none" => c.model \in Models}
ConfigType == [model : Models, locked : BOOLEAN, slots : Nat]
DiskType   == [override : [Peers -> Opt(Models)], project : [Peers -> Opt(Projects)],
               effort : [Peers -> Opt(Efforts)], resume : [Peers -> Opt(Token)],
               intro : SUBSET Peers, owed : SUBSET Peers, config : ConfigType]
CountType  == [commands : Nat, stops : Nat, exits : Nat]

TurnsType ==
  /\ call \in [Peers -> Calls] /\ cwd \in [Peers -> Opt(Projects)]
  /\ cancelled \in [Peers -> BOOLEAN] /\ queue \in Seq(Peers) /\ child \in [Peers -> ChildType]
SettingsType ==
  /\ override \in [Peers -> Opt(Models)] /\ project \in [Peers -> Opt(Projects)]
  /\ effort \in [Peers -> Opt(Efforts)] /\ resume \in [Peers -> Opt(Token)]
  /\ intro \subseteq Peers /\ config \in ConfigType
HostType ==
  /\ up \in {"up", "stopping", "down"} /\ waits \subseteq Peers /\ staging \in BOOLEAN
  /\ owed \subseteq Peers /\ disk \in DiskType
HistoryType ==
  /\ sent \in [Peers -> Nat] /\ answered \subseteq Peers \X Nat /\ stopped \subseteq Peers \X Nat
  /\ count \in CountType
RuntimeType == TurnsType /\ SettingsType /\ HostType /\ HistoryType

(* The budget: engines are active turns, and a turn waits only while every *)
(* slot is in use. A queued peer is in the queue once.                     *)
Once(q) == \A i, j \in 1 .. Len(q) : q[i] = q[j] => i = j
In(q, p) == \E i \in 1 .. Len(q) : q[i] = p
SlotsInv ==
  /\ Once(queue)
  /\ \A p \in Peers : call[p] = "queued" <=> In(queue, p)
  /\ \A p \in Peers : call[p] = "turn" <=> child[p].st # "none"
  /\ up # "up" => queue = <<>>
  /\ up = "down" => \A p \in Peers : call[p] = "idle"
  /\ Cardinality(Active) <= TurnLimit /\ Len(queue) <= config.slots
  /\ queue # <<>> => Cardinality(Active) = TurnLimit

(* A message is handled while it is owed, here and in the snapshot; until  *)
(* it is answered or stopped it is the last one of its peer and owed.      *)
OwedInv ==
  /\ \A p \in Peers : call[p] # "idle" => p \in owed
  /\ owed \subseteq disk.owed
  /\ \A p \in Peers : cancelled[p] => call[p] = "turn" /\ (up = "up" => Message(p) \in stopped)
  /\ \A p \in Peers : \A n \in 1 .. sent[p] :
       <<p, n>> \in answered \cup stopped \/ (n = sent[p] /\ p \in owed)
  /\ \A p \in Peers, n \in Nat : <<p, n>> \in answered \cup stopped => n <= sent[p]

(* In the first life of the bot what is owed is unanswered, and a stopped  *)
(* turn that still has its engine is marked.                               *)
StopInv ==
  count.exits = 0 =>
    /\ up # "down" /\ stopped \cap answered = {}
    /\ \A p \in Peers : p \in owed => Message(p) \notin answered
    /\ \A p \in Peers : Message(p) \in stopped =>
         \/ call[p] = "idle" /\ (p \notin owed \/ up # "up")
         \/ call[p] = "turn" /\ cancelled[p]

RuntimeInv == RuntimeType /\ SlotsInv /\ OwedInv /\ StopInv

-----------------------------------------------------------------------------
LEMMA LimitIs == TurnLimit \in Nat \ {0} /\ PeerCap \in Nat \ {0} /\ IsFiniteSet(Peers)
  BY ConstantsAssumption DEF ConstantsAssumption

LEMMA ActiveIs ==
  /\ IsFiniteSet(Active) /\ Cardinality(Active) \in Nat
  /\ \A S \in SUBSET Peers : IsFiniteSet(S) /\ Cardinality(S) \in Nat
<1>1. \A S \in SUBSET Peers : IsFiniteSet(S) /\ Cardinality(S) \in Nat
  BY LimitIs, FS_Subset, FS_CardinalityType
<1>2. Active \in SUBSET Peers
  BY DEF Active
<1>3. QED
  BY <1>1, <1>2

(* As many peers as there are places in a queue that holds each once.      *)
LEMMA QueueCounts ==
  ASSUME NEW q \in Seq(Peers), Once(q), NEW k \in 0 .. Len(q)
  PROVE  LET S == {q[i] : i \in 1 .. k} IN IsFiniteSet(S) /\ Cardinality(S) = k
<1> DEFINE S == {q[i] : i \in 1 .. k}
           f == [i \in 1 .. k |-> q[i]]
<1>1. IsFiniteSet(1 .. k) /\ Cardinality(1 .. k) = k
  BY FS_Interval
<1>2. k \in Nat /\ 1 .. k \subseteq 1 .. Len(q)
  OBVIOUS
<1>3. f \in [1 .. k -> S] /\ \A i, j \in 1 .. k : f[i] = f[j] => i = j
  BY <1>2 DEF Once
<1>4. \A x \in S : \E i \in 1 .. k : f[i] = x
  OBVIOUS
<1>5. f \in Bijection(1 .. k, S)
  BY <1>3, <1>4 DEF Bijection, Injection, Surjection, IsInjective
<1>6. ExistsBijection(1 .. k, S)
  BY <1>5 DEF ExistsBijection
<1>7. QED
  BY <1>1, <1>6, FS_Bijection

-----------------------------------------------------------------------------
(* The types.                                                              *)
LEMMA MapsType ==
  ASSUME NEW V, NEW m \in [Peers -> Opt(V)], NEW p \in Peers
  PROVE  /\ Without(m, p) \in [Peers -> Opt(V)]
         /\ \A v \in V : With(m, p, v) \subseteq [Peers -> Opt(V)]
         /\ \A v \in Opt(V) : Chosen(m, p, v) \subseteq [Peers -> Opt(V)]
<1>1. Without(m, p) \in [Peers -> Opt(V)]
  BY DEF Without, Opt
<1>2. ASSUME NEW v \in V
      PROVE  With(m, p, v) \subseteq [Peers -> Opt(V)]
  <2> DEFINE n == [m EXCEPT ![p] = v]
  <2>1. n \in [Peers -> Opt(V)]
    BY DEF Opt
  <2> HIDE DEF n
  <2>2. \A q \in Peers : [n EXCEPT ![q] = None] \in [Peers -> Opt(V)]
    BY <2>1 DEF Opt
  <2>3. Trimmed(n, p) \subseteq [Peers -> Opt(V)]
    BY <2>1, <2>2 DEF Trimmed, Keys
  <2>4. QED
    BY <2>3 DEF With, n
<1>3. ASSUME NEW v \in Opt(V)
      PROVE  Chosen(m, p, v) \subseteq [Peers -> Opt(V)]
  BY <1>1, <1>2 DEF Chosen, Opt
<1>4. QED
  BY <1>1, <1>2, <1>3

LEMMA EffectiveType ==
  ASSUME SettingsType, NEW p \in Peers
  PROVE  Effective(p) \in Models
<1>1. config.model \in Models /\ override[p] \in Opt(Models)
  BY DEF SettingsType, ConfigType
<1>2. QED
  BY <1>1 DEF Effective, Opt

LEMMA ChildIs ==
  /\ NoChild \in ChildType /\ NoChild.st = "none"
  /\ \A c \in ChildType : Killed(c) \in ChildType /\ (Killed(c).st = "none" <=> c.st = "none")
  /\ \A c \in ChildType : /\ Killed(c).model = c.model /\ Killed(c).cwd = c.cwd
<1>1. NoChild \in ChildType /\ NoChild.st = "none"
  BY DEF NoChild, ChildType, Opt
<1>2. ASSUME NEW c \in ChildType
      PROVE  /\ Killed(c) \in ChildType /\ (Killed(c).st = "none" <=> c.st = "none")
             /\ Killed(c).model = c.model /\ Killed(c).cwd = c.cwd
  <2>1. c.st = "alive" => [c EXCEPT !.st = "dying"] \in ChildType
    BY DEF ChildType
  <2>2. c.st = "alive" => [c EXCEPT !.st = "dying"].st = "dying"
    BY DEF ChildType
  <2>3. [c EXCEPT !.st = "dying"].model = c.model /\ [c EXCEPT !.st = "dying"].cwd = c.cwd
    BY DEF ChildType
  <2>4. QED
    BY <2>1, <2>2, <2>3 DEF Killed
<1>3. QED
  BY <1>1, <1>2

LEMMA SpawnedIs ==
  ASSUME TurnsType, SettingsType, NEW p \in Peers, NEW token \in Opt(Token)
  PROVE  /\ Spawned(p, token) \in ChildType /\ Spawned(p, token).st = "alive"
         /\ Spawned(p, token).model = Effective(p) /\ Spawned(p, token).cwd = cwd[p]
<1>1. Effective(p) \in Opt(Models) /\ cwd[p] \in Opt(Projects)
  BY EffectiveType DEF Opt, TurnsType
<1>2. QED
  BY <1>1, EffectiveType DEF Spawned, ChildType

(* The jobs that start: the first k of the queue.                          *)
Starts(q, busy) ==
  IF up # "up" \/ busy >= TurnLimit THEN 0
  ELSE IF TurnLimit - busy < Len(q) THEN TurnLimit - busy ELSE Len(q)

LEMMA StartingIs ==
  ASSUME NEW q \in Seq(Peers), NEW busy \in Nat
  PROVE  /\ Starts(q, busy) \in 0 .. Len(q)
         /\ Len(Starting(q, busy)) = Starts(q, busy)
         /\ ToSet(Starting(q, busy)) = {q[i] : i \in 1 .. Starts(q, busy)}
<1> DEFINE k == Starts(q, busy)
<1>1. Len(q) \in Nat /\ k \in 0 .. Len(q)
  BY LimitIs DEF Starts
<1>2. Starting(q, busy) = SubSeq(q, 1, k)
  <2>1. SubSeq(q, 1, 0) = <<>>
    OBVIOUS
  <2>2. QED
    BY <2>1 DEF Starting, Starts
<1> HIDE DEF k
<1>3. SubSeq(q, 1, k) = [i \in 1 .. k |-> q[i]]
  BY <1>1
<1>4. Len(SubSeq(q, 1, k)) = k
  BY <1>1
<1>5. QED
  BY <1>1, <1>2, <1>3, <1>4 DEF ToSet, k

(* The queue is drained: k jobs start, those of the peers in new.          *)
DrainedTo(p, c, q, k, new) ==
  /\ k = Starts(q, Cardinality(Active \ {p})) /\ new = {q[i] : i \in 1 .. k}
  /\ queue' = SubSeq(q, k + 1, Len(q))
  /\ call' = [r \in Peers |-> IF r \in new THEN "turn" ELSE IF r = p THEN c ELSE call[r]]
  /\ child' = [r \in Peers |-> IF r \in new THEN Spawned(r, resume[r])
                               ELSE IF r = p THEN NoChild ELSE child[r]]
  /\ cancelled' = [r \in Peers |-> IF r \in new \cup {p} THEN FALSE ELSE cancelled[r]]

LEMMA DrainIs ==
  ASSUME NEW p \in Peers, NEW c, NEW q \in Seq(Peers), Drain(p, c, q)
  PROVE  \E k \in 0 .. Len(q) : \E new \in SUBSET Peers : DrainedTo(p, c, q, k, new)
<1> DEFINE busy == Cardinality(Active \ {p})
           k == Starts(q, busy)
           new == {q[i] : i \in 1 .. k}
<1>1. busy \in Nat
  BY ActiveIs DEF Active
<1>2. k \in 0 .. Len(q) /\ Len(Starting(q, busy)) = k /\ ToSet(Starting(q, busy)) = new
  BY <1>1, StartingIs
<1>3. new \subseteq Peers
  BY <1>2
<1>4. DrainedTo(p, c, q, k, new)
  BY <1>2 DEF Drain, DrainedTo
<1>5. QED
  BY <1>2, <1>3, <1>4

LEMMA DrainType ==
  ASSUME TurnsType, SettingsType, NEW p \in Peers, NEW c \in Calls, NEW q \in Seq(Peers), Drain(p, c, q),
         cwd' \in [Peers -> Opt(Projects)]
  PROVE  TurnsType'
<1>1. PICK k \in 0 .. Len(q), new \in SUBSET Peers : DrainedTo(p, c, q, k, new)
  BY DrainIs
<1>2. queue' \in Seq(Peers)
  <2>1. queue' = SubSeq(q, k + 1, Len(q))
    BY <1>1 DEF DrainedTo
  <2>2. QED
    BY <2>1
<1>3. \A r \in Peers : Spawned(r, resume[r]) \in ChildType
  BY SpawnedIs DEF SettingsType
<1>4. child' \in [Peers -> ChildType]
  BY <1>1, <1>3, ChildIs DEF TurnsType, DrainedTo
<1>5. call' \in [Peers -> Calls] /\ cancelled' \in [Peers -> BOOLEAN]
  BY <1>1 DEF TurnsType, Calls, DrainedTo
<1>6. QED
  BY <1>2, <1>4, <1>5 DEF TurnsType


LEMMA SnapshotType == SettingsType /\ owed \subseteq Peers => Snapshot \in DiskType
  BY DEF SettingsType, Snapshot, DiskType

LEMMA CountsType ==
  ASSUME count \in CountType, NEW what \in {"commands", "stops", "exits"}, NEW limit, Counts(what, limit)
  PROVE  count' \in CountType /\ (what # "exits" => count'.exits = count.exits)
         /\ (what = "exits" => count'.exits > 0)
  BY DEF Counts, CountType

(* The commands of a peer change its settings only.                        *)
LEMMA CommandType ==
  ASSUME RuntimeType, NEW p \in Peers, PeerCommand(p)
  PROVE  RuntimeType' /\ UNCHANGED <<turns, host, owed, disk, sent, answered, stopped>>
         /\ config' = config /\ count'.exits = count.exits
<1>1. Commands(p)
  BY DEF PeerCommand, Reset, ModelChosen, ProjectChosen, EffortChosen
<1>2. count' \in CountType /\ count'.exits = count.exits
  BY <1>1, CountsType DEF RuntimeType, HistoryType, Commands
<1>3. UNCHANGED <<turns, intro, config, host, owed, disk, sent, answered, stopped>>
  BY <1>1 DEF Commands
<1>4. Without(resume, p) \in [Peers -> Opt(Token)]
  BY MapsType DEF RuntimeType, SettingsType
<1>6. SettingsType'
  <2> USE <1>3 DEF RuntimeType, SettingsType
  <2>1. CASE Reset(p)
    BY <1>4, <2>1 DEF Reset
  <2>2. ASSUME NEW m \in Models \cup {None}, ModelChosen(p, m)
        PROVE  SettingsType'
    <3>1. Chosen(override, p, m) \subseteq [Peers -> Opt(Models)]
      BY MapsType DEF Opt
    <3>2. QED
      BY <1>4, <2>2, <3>1 DEF ModelChosen, ResumeAfterModel
  <2>3. ASSUME NEW j \in Projects \cup {None}, ProjectChosen(p, j)
        PROVE  SettingsType'
    <3>1. Chosen(project, p, j) \subseteq [Peers -> Opt(Projects)]
      BY MapsType DEF Opt
    <3>2. QED
      BY <1>4, <2>3, <3>1 DEF ProjectChosen
  <2>4. ASSUME NEW e \in Efforts \cup {None}, EffortChosen(p, e)
        PROVE  SettingsType'
    <3>1. Chosen(effort, p, e) \subseteq [Peers -> Opt(Efforts)]
      BY MapsType DEF Opt
    <3>2. QED
      BY <2>4, <3>1 DEF EffortChosen
  <2>5. QED
    BY <2>1, <2>2, <2>3, <2>4 DEF PeerCommand
<1>7. QED
  BY <1>2, <1>3, <1>6 DEF RuntimeType, TurnsType, HostType, HistoryType, turns, host

LEMMA MessageType ==
  ASSUME RuntimeType, NEW p \in Peers
  PROVE  Message(p) \in Peers \X Nat
  BY DEF RuntimeType, HistoryType, Message

LEMMA ReceiveType ==
  ASSUME RuntimeType, NEW p \in Peers, Receive(p)
  PROVE  RuntimeType'
<1>1. sent' \in [Peers -> Nat] /\ owed' \subseteq Peers
  BY DEF RuntimeType, HistoryType, HostType, Receive
<1>2. TurnsType' /\ SettingsType'
  BY DEF RuntimeType, Receive, turns, settings, TurnsType, SettingsType
<1>3. Snapshot' \in DiskType
  BY <1>1, <1>2 DEF SettingsType, Snapshot, DiskType
<1>4. QED
  BY <1>1, <1>2, <1>3 DEF RuntimeType, Receive, HostType, HistoryType, host

LEMMA TurnStepType ==
  ASSUME RuntimeType, NEW p \in Peers, TurnStep(p)
  PROVE  RuntimeType'
<1>1. CASE TurnBegins(p)
  <2>1. call' \in [Peers -> Calls] /\ cwd' \in [Peers -> Opt(Projects)]
    BY <1>1 DEF TurnBegins, RuntimeType, TurnsType, SettingsType, Calls
  <2>2. QED
    BY <1>1, <2>1 DEF TurnBegins, RuntimeType, TurnsType, SettingsType, HostType, HistoryType,
                      settings, host, history
<1>2. CASE CwdFails(p)
  <2>1. call' \in [Peers -> Calls]
    BY <1>2 DEF CwdFails, RuntimeType, TurnsType, Calls
  <2>2. QED
    BY <1>2, <2>1 DEF CwdFails, RuntimeType, TurnsType, SettingsType, HostType, HistoryType,
                      settings, host, history
<1>3. CASE Enqueue(p)
  <2>1. UNCHANGED <<cwd, settings, host, owed, disk, history>>
    BY <1>3 DEF Enqueue
  <2>2. TurnsType'
    <3>1. CASE Drain(p, "queued", Append(queue, p))
      <4>1. Append(queue, p) \in Seq(Peers) /\ "queued" \in Calls
        BY DEF RuntimeType, TurnsType, Calls
      <4>2. QED
        BY <2>1, <3>1, <4>1, DrainType DEF RuntimeType, TurnsType
    <3>2. CASE UNCHANGED <<cancelled, queue, child>>
               /\ call' = [call EXCEPT ![p] = IF Refused THEN "idle" ELSE "reply"]
      BY <2>1, <3>2 DEF RuntimeType, TurnsType, Calls
    <3>3. QED
      BY <1>3, <3>1, <3>2 DEF Enqueue
  <2>3. QED
    BY <2>1, <2>2 DEF RuntimeType, SettingsType, HostType, HistoryType, settings, host, history
<1>4. CASE Replied(p)
  <2>1. call' \in [Peers -> Calls]
    BY <1>4 DEF Replied, RuntimeType, TurnsType, Calls
  <2>2. answered' \subseteq Peers \X Nat /\ owed' \subseteq Peers /\ waits' \subseteq Peers
    BY <1>4, MessageType DEF Replied, RuntimeType, HistoryType, HostType
  <2>3. QED
    BY <1>4, <2>1, <2>2 DEF Replied, RuntimeType, TurnsType, SettingsType, HostType, HistoryType, settings
<1>5. QED
  BY <1>1, <1>2, <1>3, <1>4 DEF TurnStep

LEMMA AfterTurnIs == \A result : AfterTurn(result) \in {"idle", "handoff", "reply"}
  BY DEF AfterTurn

LEMMA EndTurnType ==
  ASSUME RuntimeType, NEW p \in Peers, NEW result, EndTurn(p, result), resume' = resume
  PROVE  RuntimeType'
<1>1. Drain(p, AfterTurn(result), queue) /\ cwd' = cwd
  BY DEF EndTurn
<1>2. TurnsType'
  <2>1. AfterTurn(result) \in Calls
    BY AfterTurnIs DEF Calls
  <2>2. queue \in Seq(Peers) /\ cwd' \in [Peers -> Opt(Projects)] /\ TurnsType /\ SettingsType
    BY <1>1 DEF RuntimeType, TurnsType
  <2>3. QED
    BY <1>1, <2>1, <2>2, DrainType
<1>3. SettingsType' /\ HostType' /\ HistoryType'
  BY DEF EndTurn, RuntimeType, SettingsType, HostType, HistoryType, history
<1>4. QED
  BY <1>2, <1>3 DEF RuntimeType

LEMMA EngineStepType ==
  ASSUME RuntimeType, NEW p \in Peers, EngineStep(p)
  PROVE  RuntimeType'
<1>1. CASE EngineStarts(p)
  <2>1. child[p] \in ChildType /\ child' = [child EXCEPT ![p] = [child[p] EXCEPT !.got = TRUE]]
    BY <1>1 DEF EngineStarts, RuntimeType, TurnsType
  <2>2. [child[p] EXCEPT !.got = TRUE] \in ChildType
    BY <2>1 DEF ChildType
  <2>3. child' \in [Peers -> ChildType]
    BY <2>1, <2>2 DEF RuntimeType, TurnsType
  <2>4. PICK token : token = [model |-> child[p].model, cwd |-> child[p].cwd]
    OBVIOUS
  <2>5. resume' \in With(resume, p, token)
    BY <1>1, <2>4 DEF EngineStarts
  <2>6. resume' \in [Peers -> Opt(Token)]
    <3>1. token \in Token
      BY <1>1, <2>1, <2>4 DEF EngineStarts, ChildType, Token
    <3>2. QED
      BY <2>5, <3>1, MapsType DEF RuntimeType, SettingsType
  <2>7. QED
    BY <1>1, <2>3, <2>6 DEF EngineStarts, RuntimeType, TurnsType, SettingsType, HostType, HistoryType,
                            host, history
<1>2. CASE LeaderExits(p)
  <2>1. child[p] \in ChildType /\ child' = [child EXCEPT ![p] = [child[p] EXCEPT !.st = "lingers"]]
    BY <1>2 DEF LeaderExits, RuntimeType, TurnsType
  <2>2. [child[p] EXCEPT !.st = "lingers"] \in ChildType
    <3>1. child[p].st = "alive"
      BY <1>2 DEF LeaderExits
    <3>2. QED
      BY <2>1, <3>1 DEF ChildType
  <2>3. child' \in [Peers -> ChildType]
    BY <2>1, <2>2 DEF RuntimeType, TurnsType
  <2>4. QED
    BY <1>2, <2>3 DEF LeaderExits, RuntimeType, TurnsType, SettingsType, HostType, HistoryType,
                      settings, host, history
<1>3. CASE TimerKills(p)
  <2>1. child' \in [Peers -> ChildType]
    BY <1>3, ChildIs DEF TimerKills, RuntimeType, TurnsType
  <2>2. QED
    BY <1>3, <2>1 DEF TimerKills, RuntimeType, TurnsType, SettingsType, HostType, HistoryType,
                      settings, host, history
<1>4. CASE SessionGone(p)
  <2>1. Spawned(p, None) \in ChildType /\ Without(resume, p) \in [Peers -> Opt(Token)]
    BY SpawnedIs, MapsType DEF RuntimeType, SettingsType, Opt
  <2>2. child' \in [Peers -> ChildType] /\ resume' \in [Peers -> Opt(Token)]
    BY <1>4, <2>1 DEF SessionGone, RuntimeType, TurnsType
  <2>3. QED
    BY <1>4, <2>2 DEF SessionGone, RuntimeType, TurnsType, SettingsType, HostType, HistoryType,
                      host, history
<1>5. ASSUME NEW outcome \in {"answer", "failed"}, EngineCloses(p, outcome)
      PROVE  RuntimeType'
  BY <1>5, EndTurnType DEF EngineCloses
<1>6. QED
  BY <1>1, <1>2, <1>3, <1>4, <1>5 DEF EngineStep

LEMMA StopType ==
  ASSUME RuntimeType, NEW p \in Peers, StopCommand(p)
  PROVE  RuntimeType' /\ count'.exits = count.exits /\ disk' = Snapshot
         /\ UNCHANGED <<cwd, settings, host, sent, answered>>
<1>1. /\ UNCHANGED <<cwd, settings, host, sent, answered>> /\ disk' = Snapshot
      /\ Counts("stops", MaxStops)
  BY DEF StopCommand
<1>2. disk' \in DiskType
  BY <1>1, SnapshotType DEF RuntimeType, HostType
<1>3. count' \in CountType /\ count'.exits = count.exits
  BY <1>1, CountsType DEF RuntimeType, HistoryType
<1>4. stopped' \subseteq Peers \X Nat /\ owed' \subseteq Peers
  <2>1. stopped' = stopped \cup {Message(p)} /\ (owed' = owed \ {p} \/ owed' = owed)
    BY DEF StopCommand
  <2>2. QED
    BY <2>1, MessageType DEF RuntimeType, HistoryType, HostType
<1>5. call' \in [Peers -> Calls] /\ cancelled' \in [Peers -> BOOLEAN]
      /\ child' \in [Peers -> ChildType] /\ queue' \in Seq(Peers)
  <2>1. CASE call[p] = "queued"
    <3>1. call' = [call EXCEPT ![p] = "idle"] /\ UNCHANGED <<cancelled, child>>
          /\ \E i \in DOMAIN queue : queue' = RemoveAt(queue, i)
      BY <2>1 DEF StopCommand
    <3>2. \A i \in DOMAIN queue : RemoveAt(queue, i) \in Seq(Peers)
      BY DEF RemoveAt, RuntimeType, TurnsType
    <3>3. QED
      BY <3>1, <3>2 DEF RuntimeType, TurnsType, Calls
  <2>2. CASE call[p] = "turn"
    <3>1. /\ cancelled' = [cancelled EXCEPT ![p] = TRUE] /\ child' = [child EXCEPT ![p] = Killed(child[p])]
          /\ UNCHANGED <<queue, call>>
      BY <2>2 DEF StopCommand
    <3>2. Killed(child[p]) \in ChildType
      BY ChildIs DEF RuntimeType, TurnsType
    <3>3. QED
      BY <3>1, <3>2 DEF RuntimeType, TurnsType
  <2>3. QED
    BY <2>1, <2>2 DEF StopCommand
<1>6. QED
  BY <1>1, <1>2, <1>3, <1>4, <1>5 DEF RuntimeType, TurnsType, SettingsType, HostType, HistoryType,
                                     settings, host

LEMMA ShutdownType ==
  ASSUME RuntimeType, Shutdown
  PROVE  RuntimeType'
<1>1. call' \in [Peers -> Calls] /\ cancelled' \in [Peers -> BOOLEAN] /\ queue' \in Seq(Peers)
  BY DEF Shutdown, RuntimeType, TurnsType, Calls
<1>2. child' \in [Peers -> ChildType]
  BY ChildIs DEF Shutdown, RuntimeType, TurnsType
<1>3. waits' \subseteq Peers /\ up' \in {"up", "stopping", "down"}
  BY DEF Shutdown, WaitsFor
<1>4. QED
  BY <1>1, <1>2, <1>3 DEF Shutdown, RuntimeType, TurnsType, SettingsType, HostType, HistoryType,
                          settings, history

LEMMA ExitType ==
  ASSUME RuntimeType, Exit
  PROVE  RuntimeType' /\ count'.exits > 0
<1>1. count' \in CountType /\ count'.exits > 0
  BY CountsType DEF Exit, RuntimeType, HistoryType
<1>2. disk' \in DiskType
  BY SnapshotType DEF Exit, RuntimeType, HostType
<1>3. call' \in [Peers -> Calls] /\ cancelled' \in [Peers -> BOOLEAN] /\ queue' \in Seq(Peers)
  BY DEF Exit, Calls
<1>4. child' \in [Peers -> ChildType]
  BY ChildIs DEF Exit
<1>5. QED
  BY <1>1, <1>2, <1>3, <1>4 DEF Exit, RuntimeType, TurnsType, SettingsType, HostType, HistoryType, settings

LEMMA RestartType ==
  ASSUME RuntimeType, Restart
  PROVE  RuntimeType'
<1>1. PICK cfg \in [model : Models, locked : BOOLEAN, slots : {config.slots}] :
        /\ config' = cfg
        /\ override' = [p \in Peers |-> RestoredOverride(p, cfg)]
        /\ resume' = [p \in Peers |-> RestoredToken(p, cfg)]
  BY DEF Restart
<1>2. cfg \in ConfigType
  BY DEF ConfigType, RuntimeType, SettingsType
<1>3. override' \in [Peers -> Opt(Models)] /\ resume' \in [Peers -> Opt(Token)]
  BY <1>1 DEF RestoredOverride, RestoredToken, Opt, RuntimeType, HostType, DiskType
<1>4. project' \in [Peers -> Opt(Projects)] /\ intro' \subseteq Peers /\ owed' \subseteq Peers
  BY DEF Restart, RuntimeType, HostType, DiskType
<1>5. effort' \in [Peers -> Opt(Efforts)]
  BY DEF Restart, Opt
<1>6. SettingsType'
  BY <1>1, <1>2, <1>3, <1>4, <1>5 DEF SettingsType
<1>7. TurnsType' /\ HostType' /\ HistoryType'
  BY <1>4 DEF Restart, RuntimeType, TurnsType, HostType, HistoryType, turns, history
<1>8. QED
  BY <1>6, <1>7 DEF RuntimeType

LEMMA TypeNext == RuntimeType /\ [Next]_vars => RuntimeType'
<1> SUFFICES ASSUME RuntimeType, [Next]_vars PROVE RuntimeType'
  OBVIOUS
<1>1. CASE UNCHANGED vars
  BY <1>1 DEF vars, turns, settings, host, history, RuntimeType, TurnsType, SettingsType, HostType, HistoryType
<1>2. CASE StagingRemoved
  BY <1>2 DEF StagingRemoved, turns, settings, history, RuntimeType, TurnsType, SettingsType, HostType, HistoryType
<1>3. QED
  BY <1>1, <1>2, CommandType, ReceiveType, TurnStepType, EngineStepType, StopType, ShutdownType, ExitType,
     RestartType DEF Next

LEMMA TypeInit == Init => RuntimeType
<1> SUFFICES ASSUME Init PROVE RuntimeType
  OBVIOUS
<1>1. config \in ConfigType
  BY ConstantsAssumption DEF Init, ConfigType, ConstantsAssumption
<1>2. TurnsType
  BY ChildIs DEF Init, TurnsType, Calls, Opt
<1>3. SettingsType /\ owed \subseteq Peers
  BY <1>1 DEF Init, SettingsType, Opt
<1>4. HostType
  BY <1>3, SnapshotType DEF Init, HostType
<1>5. HistoryType
  BY DEF Init, HistoryType, CountType
<1>6. QED
  BY <1>2, <1>3, <1>4, <1>5 DEF RuntimeType

-----------------------------------------------------------------------------
(* The budget.                                                             *)

(* Steps that leave the queue and the set of active turns alone.           *)
LEMMA SlotsStay ==
  ASSUME RuntimeType, SlotsInv,
         queue' = queue, up' = up, config'.slots = config.slots,
         \A p \in Peers : /\ call'[p] = "queued" <=> call[p] = "queued"
                          /\ call'[p] = "turn" <=> call[p] = "turn"
                          /\ child'[p].st = "none" <=> child[p].st = "none"
                          /\ up = "down" => call'[p] = "idle"
  PROVE  SlotsInv' /\ Active' = Active
<1>1. Active' = Active
  BY DEF Active
<1>2. QED
  BY <1>1 DEF SlotsInv, Once, In

(* An engine step that is not the last of its engine.                      *)
LEMMA EngineGoesOn ==
  ASSUME RuntimeType, NEW p \in Peers,
         EngineStarts(p) \/ LeaderExits(p) \/ TimerKills(p) \/ SessionGone(p)
  PROVE  /\ UNCHANGED <<call, cwd, cancelled, queue, override, project, effort, intro, config>>
         /\ UNCHANGED <<host, owed, disk, history>> /\ child[p].st # "none" /\ child'[p].st # "none"
         /\ \A r \in Peers \ {p} : child'[r] = child[r]
<1>1. child[p] \in ChildType /\ child \in [Peers -> ChildType]
  BY DEF RuntimeType, TurnsType
<1>2. CASE EngineStarts(p)
  <2>1. child' = [child EXCEPT ![p] = [child[p] EXCEPT !.got = TRUE]] /\ child[p].st # "none"
    BY <1>1, <1>2 DEF EngineStarts
  <2>2. [child[p] EXCEPT !.got = TRUE].st = child[p].st
    BY <1>1 DEF ChildType
  <2>3. QED
    BY <1>1, <1>2, <2>1, <2>2 DEF EngineStarts, turns, settings
<1>3. CASE LeaderExits(p)
  <2>1. child' = [child EXCEPT ![p] = [child[p] EXCEPT !.st = "lingers"]] /\ child[p].st # "none"
    BY <1>1, <1>3 DEF LeaderExits
  <2>2. [child[p] EXCEPT !.st = "lingers"].st = "lingers"
    BY <1>1 DEF ChildType
  <2>3. QED
    BY <1>1, <1>3, <2>1, <2>2 DEF LeaderExits, settings
<1>4. CASE TimerKills(p)
  <2>1. child' = [child EXCEPT ![p] = Killed(child[p])] /\ child[p].st # "none"
    BY <1>1, <1>4 DEF TimerKills
  <2>2. Killed(child[p]).st # "none"
    BY <1>1, <2>1, ChildIs
  <2>3. QED
    BY <1>1, <1>4, <2>1, <2>2 DEF TimerKills, settings
<1>5. CASE SessionGone(p)
  <2>1. child' = [child EXCEPT ![p] = Spawned(p, None)] /\ child[p].st # "none"
    BY <1>1, <1>5 DEF SessionGone
  <2>2. Spawned(p, None).st = "alive"
    BY DEF Spawned
  <2>3. QED
    BY <1>1, <1>5, <2>1, <2>2 DEF SessionGone
<1>6. QED
  BY <1>2, <1>3, <1>4, <1>5

(* The budget after the queue q was drained, when p holds no slot.         *)
LEMMA DrainSlots ==
  ASSUME RuntimeType, SlotsInv, up \in {"up", "stopping"}, NEW p \in Peers, NEW c \in Calls \ {"turn"},
         NEW q \in Seq(Peers), Once(q), c = "queued" <=> In(q, p),
         \A r \in Peers \ {p} : call[r] = "queued" <=> In(q, r),
         up # "up" => q = <<>>,
         \/ Len(q) <= config.slots
         \/ Len(q) = Len(queue) + 1 /\ Cardinality(Active \ {p}) < TurnLimit,
         Drain(p, c, q), UNCHANGED <<up, config>>
  PROVE  SlotsInv'
<1> DEFINE busy == Cardinality(Active \ {p})
<1>1. PICK k \in 0 .. Len(q), new \in SUBSET Peers : DrainedTo(p, c, q, k, new)
  BY DrainIs
<1>2. /\ k = Starts(q, busy) /\ new = {q[i] : i \in 1 .. k}
      /\ queue' = SubSeq(q, k + 1, Len(q))
      /\ call' = [r \in Peers |-> IF r \in new THEN "turn" ELSE IF r = p THEN c ELSE call[r]]
      /\ child' = [r \in Peers |-> IF r \in new THEN Spawned(r, resume[r])
                                   ELSE IF r = p THEN NoChild ELSE child[r]]
  BY <1>1 DEF DrainedTo
<1>3. Len(q) \in Nat /\ Len(queue') = Len(q) - k /\ \A i \in 1 .. Len(queue') : queue'[i] = q[i + k]
  <2>1. queue' = SubSeq(q, k + 1, Len(q))
    BY <1>2
  <2>2. QED
    BY <2>1
<1>4. IsFiniteSet(new) /\ Cardinality(new) = k
  BY <1>2, QueueCounts
<1>5. IsFiniteSet(Active \ {p}) /\ busy \in Nat /\ busy <= TurnLimit
  <2>1. IsFiniteSet(Active \ {p}) /\ busy \in Nat
    BY ActiveIs DEF Active
  <2>2. busy <= Cardinality(Active)
    BY ActiveIs, FS_Subset
  <2>3. Cardinality(Active) <= TurnLimit
    BY DEF SlotsInv
  <2>4. QED
    BY <2>1, <2>2, <2>3, ActiveIs, LimitIs
<1>6. \A r \in Peers : r \in new => call[r] # "turn" \/ r = p
  <2>1. ASSUME NEW r \in new
        PROVE  In(q, r)
    <3>1. PICK i \in 1 .. k : q[i] = r
      BY <1>2
    <3>2. i \in 1 .. Len(q)
      BY <1>3
    <3>3. QED
      BY <3>1, <3>2 DEF In
  <2>2. QED
    BY <2>1
<1>7. Active' = (Active \ {p}) \cup new /\ (Active \ {p}) \cap new = {}
  BY <1>2, <1>6 DEF Active
<1>8. Cardinality(Active') = busy + k
  <2>1. Cardinality((Active \ {p}) \cup new) = busy + k - Cardinality((Active \ {p}) \cap new)
    BY <1>4, <1>5, FS_Union
  <2>2. Cardinality((Active \ {p}) \cap new) = 0
    BY <1>7, FS_EmptySet
  <2>3. QED
    BY <1>5, <1>7, <2>1, <2>2
<1> HIDE DEF busy
<1>9. /\ Cardinality(Active') <= TurnLimit
      /\ queue' # <<>> => Cardinality(Active') = TurnLimit
  <2>1. queue' # <<>> => k # Len(q)
    BY <1>2, <1>3
  <2>2. CASE Len(q) = 0
    BY <1>3, <1>5, <1>8, <2>1, <2>2
  <2>3. CASE up = "up" /\ busy >= TurnLimit
    BY <1>2, <1>5, <1>8, <2>3, LimitIs DEF Starts
  <2>4. CASE up = "up" /\ ~(busy >= TurnLimit)
    <3>1. k = IF TurnLimit - busy < Len(q) THEN TurnLimit - busy ELSE Len(q)
      BY <1>2, <2>4 DEF Starts
    <3>2. QED
      BY <1>3, <1>5, <1>8, <2>1, <3>1, <2>4, LimitIs
  <2>5. up = "up" \/ Len(q) = 0
    OBVIOUS
  <2>6. QED
    BY <2>2, <2>3, <2>4, <2>5
<1>10. Len(queue') <= config.slots
  <2>1. CASE Len(q) <= config.slots
    BY <1>3, <2>1 DEF RuntimeType, SettingsType, ConfigType
  <2>2. CASE Len(q) = Len(queue) + 1 /\ busy < TurnLimit
    <3>1. Len(queue) <= config.slots /\ Len(queue) \in Nat /\ config.slots \in Nat
      BY DEF SlotsInv, RuntimeType, TurnsType, SettingsType, ConfigType
    <3>2. up = "up"
      BY <2>2, <3>1
    <3>3. k >= 1
      BY <1>2, <1>3, <1>5, <2>2, <3>1, <3>2, LimitIs DEF Starts
    <3>4. QED
      BY <1>3, <2>2, <3>1, <3>3
  <2>3. QED
    BY <2>1, <2>2 DEF busy
<1>11. \A r \in Peers : call'[r] = "queued" <=> In(queue', r)
  <2>1. ASSUME NEW r \in Peers, call'[r] = "queued"
        PROVE  In(queue', r)
    <3>1. r \notin new /\ In(q, r)
      BY <1>2, <2>1
    <3>2. PICK i \in 1 .. Len(q) : q[i] = r
      BY <3>1 DEF In
    <3>3. i > k
      BY <1>2, <3>1, <3>2
    <3>4. i - k \in 1 .. Len(queue') /\ queue'[i - k] = r
      BY <1>3, <3>2, <3>3
    <3>5. QED
      BY <3>4 DEF In
  <2>2. ASSUME NEW r \in Peers, In(queue', r)
        PROVE  call'[r] = "queued"
    <3>1. PICK i \in 1 .. Len(queue') : queue'[i] = r
      BY <2>2 DEF In
    <3>2. i + k \in 1 .. Len(q) /\ q[i + k] = r /\ i + k > k
      BY <1>3, <3>1
    <3>3. \A n \in 1 .. k : q[n] # q[i + k]
      BY <1>3, <3>2 DEF Once
    <3>4. r \notin new
      BY <1>2, <3>2, <3>3
    <3>5. In(q, r)
      BY <3>2 DEF In
    <3>6. QED
      BY <1>2, <3>4, <3>5
  <2>3. QED
    BY <2>1, <2>2
<1>12. Once(queue')
  <2>1. ASSUME NEW i \in 1 .. Len(queue'), NEW j \in 1 .. Len(queue'), queue'[i] = queue'[j]
        PROVE  i = j
    <3>1. i + k \in 1 .. Len(q) /\ j + k \in 1 .. Len(q) /\ q[i + k] = q[j + k]
      BY <1>3, <2>1
    <3>2. i + k = j + k
      BY <3>1 DEF Once
    <3>3. QED
      BY <3>2
  <2>2. QED
    BY <2>1 DEF Once
<1>13. \A r \in Peers : call'[r] = "turn" <=> child'[r].st # "none"
  <2>1. \A r \in Peers : Spawned(r, resume[r]).st = "alive"
    BY DEF Spawned
  <2>2. QED
    BY <1>2, <2>1, ChildIs DEF SlotsInv
<1>14. up' # "up" => queue' = <<>>
  BY <1>2
<1>15. QED
  BY <1>9, <1>10, <1>11, <1>12, <1>13, <1>14 DEF SlotsInv

LEMMA EnqueueSlots ==
  ASSUME RuntimeType, SlotsInv, NEW p \in Peers, Enqueue(p)
  PROVE  SlotsInv'
<1>1. /\ call[p] = "cwd" /\ up # "down" /\ queue \in Seq(Peers) /\ call \in [Peers -> Calls]
      /\ up' = up /\ config' = config
  BY DEF Enqueue, settings, host, RuntimeType, TurnsType
<1>2. CASE ~Refused /\ ~Busy /\ Drain(p, "queued", Append(queue, p))
  <2> DEFINE q == Append(queue, p)
  <2>1. up = "up"
    BY <1>1, <1>2 DEF Refused, RuntimeType, HostType
  <2>2. /\ q \in Seq(Peers) /\ Len(q) = Len(queue) + 1 /\ q[Len(queue) + 1] = p
        /\ \A i \in 1 .. Len(queue) : q[i] = queue[i]
    BY <1>1
  <2> HIDE DEF q
  <2>3. Len(queue) \in Nat /\ 1 .. Len(q) = 1 .. Len(queue) \cup {Len(queue) + 1}
    BY <1>1, <2>2
  <2>4. \A r \in Peers \ {p} : In(q, r) <=> In(queue, r)
    BY <2>2, <2>3 DEF In
  <2>5. In(q, p) /\ ~In(queue, p)
    BY <1>1, <2>2, <2>3 DEF In, SlotsInv
  <2>6. \A i \in 1 .. Len(queue) : queue[i] # p
    BY <2>5 DEF In
  <2>7. Once(q)
    BY <2>2, <2>3, <2>6 DEF Once, SlotsInv
  <2>8. Active \ {p} = Active
    BY <1>1 DEF Active
  <2>9. Len(q) <= config.slots \/ Cardinality(Active \ {p}) < TurnLimit
    <3>1. ~(Cardinality(Active) >= TurnLimit /\ Len(queue) >= config.slots)
      BY <1>2 DEF Busy
    <3>2. config.slots \in Nat
      BY DEF RuntimeType, SettingsType, ConfigType
    <3>3. Cardinality(Active \ {p}) = Cardinality(Active) /\ Cardinality(Active) \in Nat /\ TurnLimit \in Nat
      BY <2>8, ActiveIs, LimitIs
    <3>4. QED
      BY <2>2, <2>3, <3>1, <3>2, <3>3
  <2>10. Drain(p, "queued", q)
    BY <1>2 DEF q
  <2>11. \A r \in Peers \ {p} : call[r] = "queued" <=> In(q, r)
    BY <2>4 DEF SlotsInv
  <2>12. "queued" \in Calls \ {"turn"}
    BY DEF Calls
  <2>13. QED
    BY <1>1, <2>1, <2>2, <2>5, <2>7, <2>9, <2>10, <2>11, <2>12, DrainSlots
<1>3. CASE UNCHANGED <<cancelled, queue, child>>
           /\ call' = [call EXCEPT ![p] = IF Refused THEN "idle" ELSE "reply"]
  BY <1>1, <1>3, SlotsStay
<1>4. QED
  BY <1>2, <1>3 DEF Enqueue

LEMMA EndTurnSlots ==
  ASSUME RuntimeType, SlotsInv, NEW p \in Peers, child[p].st # "none", up # "down", NEW result,
         EndTurn(p, result)
  PROVE  SlotsInv'
<1>1. /\ Drain(p, AfterTurn(result), queue) /\ up' = up /\ config' = config /\ queue \in Seq(Peers)
      /\ up \in {"up", "stopping"}
  BY DEF EndTurn, RuntimeType, TurnsType, HostType
<1>2. AfterTurn(result) \in Calls \ {"turn"} /\ AfterTurn(result) # "queued"
  BY AfterTurnIs DEF Calls
<1>3. call[p] = "turn" /\ ~In(queue, p)
  BY DEF SlotsInv
<1>4. Once(queue) /\ Len(queue) <= config.slots /\ (up # "up" => queue = <<>>)
      /\ \A r \in Peers \ {p} : call[r] = "queued" <=> In(queue, r)
  BY DEF SlotsInv
<1>5. QED
  BY <1>1, <1>2, <1>3, <1>4, DrainSlots

LEMMA StopSlots ==
  ASSUME RuntimeType, SlotsInv, NEW p \in Peers, StopCommand(p)
  PROVE  SlotsInv'
<1>1. up = "up" /\ up' = up /\ config' = config
  BY DEF StopCommand, settings, host
<1>2. CASE call[p] = "turn"
  <2>1. child' = [child EXCEPT ![p] = Killed(child[p])] /\ UNCHANGED <<queue, call>>
    BY <1>2 DEF StopCommand
  <2>2. \A r \in Peers : child'[r].st = "none" <=> child[r].st = "none"
    BY <2>1, ChildIs DEF RuntimeType, TurnsType
  <2>3. QED
    BY <1>1, <2>1, <2>2, SlotsStay
<1>3. CASE call[p] = "queued"
  <2>1. call' = [call EXCEPT ![p] = "idle"] /\ child' = child
    BY <1>3 DEF StopCommand
  <2>2. PICK i \in DOMAIN queue : queue[i] = p /\ queue' = RemoveAt(queue, i)
    BY <1>3 DEF StopCommand
  <2>3. queue \in Seq(Peers) /\ Len(queue) \in Nat /\ i \in 1 .. Len(queue)
    BY DEF RuntimeType, TurnsType
  <2>4. queue' = SubSeq(queue, 1, i - 1) \o SubSeq(queue, i + 1, Len(queue))
    BY <2>2 DEF RemoveAt
  <2>5. /\ Len(queue') = Len(queue) - 1
        /\ \A n \in 1 .. Len(queue') : queue'[n] = queue[IF n < i THEN n ELSE n + 1]
    <3> DEFINE s == SubSeq(queue, 1, i - 1)
               t == SubSeq(queue, i + 1, Len(queue))
    <3>1. s \in Seq(Peers) /\ Len(s) = i - 1 /\ \A n \in 1 .. i - 1 : s[n] = queue[n]
      BY <2>3
    <3>2. t \in Seq(Peers) /\ Len(t) = Len(queue) - i /\ \A n \in 1 .. Len(queue) - i : t[n] = queue[n + i]
      BY <2>3
    <3>3. queue' = s \o t
      BY <2>4
    <3> HIDE DEF s, t
    <3>4. /\ Len(queue') = Len(s) + Len(t)
          /\ \A n \in 1 .. Len(queue') : queue'[n] = IF n <= Len(s) THEN s[n] ELSE t[n - Len(s)]
      <4>1. s \in Seq(Peers) /\ t \in Seq(Peers)
        BY <3>1, <3>2
      <4>2. QED
        BY <3>3, <4>1, ConcatProperties
    <3>5. Len(queue') = Len(queue) - 1
      BY <2>3, <3>1, <3>2, <3>4
    <3>6. ASSUME NEW n \in 1 .. Len(queue')
          PROVE  queue'[n] = queue[IF n < i THEN n ELSE n + 1]
      <4>1. CASE n < i
        BY <2>3, <3>1, <3>4, <3>6, <4>1
      <4>2. CASE ~(n < i)
        <5>1. n - (i - 1) \in 1 .. Len(queue) - i /\ n - (i - 1) + i = n + 1
          BY <2>3, <3>5, <3>6, <4>2
        <5>2. queue'[n] = t[n - (i - 1)]
          BY <2>3, <3>1, <3>4, <3>6, <4>2
        <5>3. QED
          BY <3>2, <4>2, <5>1, <5>2
      <4>3. QED
        BY <4>1, <4>2
    <3>7. QED
      BY <3>5, <3>6
  <2>6. Once(queue')
    <3>1. ASSUME NEW n \in 1 .. Len(queue'), NEW m \in 1 .. Len(queue'), queue'[n] = queue'[m]
          PROVE  n = m
      <4> DEFINE At(x) == IF x < i THEN x ELSE x + 1
      <4>1. At(n) \in 1 .. Len(queue) /\ At(m) \in 1 .. Len(queue) /\ queue[At(n)] = queue[At(m)]
        BY <2>3, <2>5, <3>1
      <4>2. At(n) = At(m)
        BY <4>1 DEF SlotsInv, Once
      <4>3. QED
        BY <2>3, <4>2
    <3>2. QED
      BY <3>1 DEF Once
  <2>7. ASSUME NEW r \in Peers \ {p}
        PROVE  In(queue', r) <=> In(queue, r)
    <3>1. ASSUME In(queue', r) PROVE In(queue, r)
      <4>1. PICK n \in 1 .. Len(queue') : queue'[n] = r
        BY <3>1 DEF In
      <4>2. n \in 1 .. Len(queue) /\ n + 1 \in 1 .. Len(queue) /\ (queue[n] = r \/ queue[n + 1] = r)
        BY <2>3, <2>5, <4>1
      <4>3. QED
        BY <4>2 DEF In
    <3>2. ASSUME In(queue, r) PROVE In(queue', r)
      <4>1. PICK n \in 1 .. Len(queue) : queue[n] = r
        BY <3>2 DEF In
      <4>2. n # i
        BY <2>2, <4>1
      <4>3. CASE n < i
        <5>1. n \in 1 .. Len(queue') /\ queue'[n] = r
          BY <2>3, <2>5, <4>1, <4>3
        <5>2. QED
          BY <5>1 DEF In
      <4>4. CASE n > i
        <5>1. n - 1 \in 1 .. Len(queue') /\ queue'[n - 1] = r
          BY <2>3, <2>5, <4>1, <4>4
        <5>2. QED
          BY <5>1 DEF In
      <4>5. QED
        BY <2>3, <4>2, <4>3, <4>4
    <3>3. QED
      BY <3>1, <3>2
  <2>8. ~In(queue', p)
    <3>1. SUFFICES ASSUME NEW n \in 1 .. Len(queue'), queue'[n] = p PROVE FALSE
      BY DEF In
    <3> DEFINE At(x) == IF x < i THEN x ELSE x + 1
    <3>2. At(n) \in 1 .. Len(queue) /\ queue[At(n)] = queue[i]
      BY <2>2, <2>3, <2>5, <3>1
    <3>3. At(n) = i
      BY <2>3, <3>2 DEF SlotsInv, Once
    <3>4. QED
      BY <2>3, <3>1, <3>3
  <2>9. Active' = Active
    BY <1>3, <2>1 DEF Active, RuntimeType, TurnsType
  <2>10. \A r \in Peers : (call'[r] = "queued" <=> In(queue', r)) /\ (call'[r] = "turn" <=> child'[r].st # "none")
    BY <1>3, <2>1, <2>7, <2>8 DEF SlotsInv, RuntimeType, TurnsType
  <2>11. Len(queue') <= config'.slots
    BY <1>1, <2>3, <2>5 DEF SlotsInv, RuntimeType, SettingsType, ConfigType
  <2>12. queue # <<>>
    BY <2>3
  <2>13. QED
    BY <1>1, <2>6, <2>9, <2>10, <2>11, <2>12 DEF SlotsInv
<1>4. QED
  BY <1>2, <1>3 DEF StopCommand

LEMMA ShutdownSlots ==
  ASSUME RuntimeType, SlotsInv, Shutdown
  PROVE  SlotsInv'
<1>1. /\ up' = "stopping" /\ queue' = <<>> /\ config' = config
      /\ call' = [p \in Peers |-> IF call[p] = "queued" THEN "idle" ELSE call[p]]
      /\ child' = [p \in Peers |-> Killed(child[p])]
  BY DEF Shutdown, settings
<1>2. \A p \in Peers : call'[p] # "queued" /\ ~In(queue', p) /\ (call'[p] = "turn" <=> call[p] = "turn")
  BY <1>1 DEF In
<1>3. \A p \in Peers : child'[p].st = "none" <=> child[p].st = "none"
  BY <1>1, ChildIs DEF RuntimeType, TurnsType
<1>4. Active' = Active
  BY <1>2 DEF Active
<1>5. Once(queue') /\ Len(queue') <= config'.slots
  BY <1>1 DEF Once, RuntimeType, SettingsType, ConfigType
<1>6. QED
  BY <1>1, <1>2, <1>3, <1>4, <1>5 DEF SlotsInv

LEMMA IdleSlots ==
  ASSUME queue = <<>>, \A p \in Peers : call[p] = "idle" /\ child[p].st = "none", config \in ConfigType
  PROVE  SlotsInv
<1>1. Active = {} /\ Cardinality(Active) = 0
  BY FS_EmptySet DEF Active
<1>2. Once(queue) /\ Len(queue) <= config.slots /\ \A p \in Peers : ~In(queue, p)
  BY DEF Once, In, ConfigType
<1>3. QED
  BY <1>1, <1>2, LimitIs DEF SlotsInv

LEMMA IdleSlotsPrimed ==
  ASSUME queue' = <<>>, \A p \in Peers : call'[p] = "idle" /\ child'[p].st = "none", config' \in ConfigType
  PROVE  SlotsInv'
<1>1. Active' = {} /\ Cardinality(Active') = 0
  BY FS_EmptySet DEF Active
<1>2. Once(queue') /\ Len(queue') <= config'.slots /\ \A p \in Peers : ~In(queue', p)
  BY DEF Once, In, ConfigType
<1>3. QED
  BY <1>1, <1>2, LimitIs DEF SlotsInv

LEMMA SlotsNext == RuntimeType /\ SlotsInv /\ [Next]_vars => SlotsInv'
<1> SUFFICES ASSUME RuntimeType, SlotsInv, [Next]_vars PROVE SlotsInv'
  OBVIOUS
<1>1. CASE UNCHANGED vars
  BY <1>1, SlotsStay DEF vars, turns, settings, host, SlotsInv
<1>2. ASSUME NEW p \in Peers, PeerCommand(p) PROVE SlotsInv'
  BY <1>2, CommandType, SlotsStay DEF turns, host, SlotsInv
<1>3. ASSUME NEW p \in Peers, Receive(p) PROVE SlotsInv'
  BY <1>3, SlotsStay DEF Receive, turns, settings, host, SlotsInv
<1>4. ASSUME NEW p \in Peers, TurnStep(p) PROVE SlotsInv'
  <2>1. CASE TurnBegins(p)
    BY <2>1, SlotsStay DEF TurnBegins, settings, host, RuntimeType, TurnsType
  <2>2. CASE CwdFails(p)
    BY <2>2, SlotsStay DEF CwdFails, settings, host, RuntimeType, TurnsType
  <2>3. CASE Replied(p)
    BY <2>3, SlotsStay DEF Replied, settings, RuntimeType, TurnsType
  <2>4. QED
    BY <1>4, <2>1, <2>2, <2>3, EnqueueSlots DEF TurnStep
<1>5. ASSUME NEW p \in Peers, EngineStep(p) PROVE SlotsInv'
  <2>1. CASE EngineStarts(p) \/ LeaderExits(p) \/ TimerKills(p) \/ SessionGone(p)
    BY <2>1, EngineGoesOn, SlotsStay DEF host, SlotsInv
  <2>2. ASSUME NEW outcome \in {"answer", "failed"}, EngineCloses(p, outcome) PROVE SlotsInv'
    <3>1. child[p].st # "none" /\ up # "down"
      BY <2>2 DEF EngineCloses
    <3>2. QED
      BY <2>2, <3>1, EndTurnSlots DEF EngineCloses
  <2>3. QED
    BY <1>5, <2>1, <2>2 DEF EngineStep
<1>6. CASE StagingRemoved
  BY <1>6, SlotsStay DEF StagingRemoved, turns, settings, SlotsInv
<1>7. CASE Exit
  <2>1. queue' = <<>> /\ \A p \in Peers : call'[p] = "idle" /\ child'[p].st = "none"
    BY <1>7, ChildIs DEF Exit
  <2>2. config' \in ConfigType
    BY <1>7 DEF Exit, settings, RuntimeType, SettingsType
  <2>3. QED
    BY <2>1, <2>2, IdleSlotsPrimed
<1>8. CASE Restart
  <2>1. queue' = <<>> /\ \A p \in Peers : call'[p] = "idle" /\ child'[p].st = "none"
    BY <1>8 DEF Restart, turns, SlotsInv
  <2>2. config' \in ConfigType
    BY <1>8, RestartType DEF RuntimeType, SettingsType
  <2>3. QED
    BY <2>1, <2>2, IdleSlotsPrimed
<1>9. QED
  BY <1>1, <1>2, <1>3, <1>4, <1>5, <1>6, <1>7, <1>8, StopSlots, ShutdownSlots DEF Next

-----------------------------------------------------------------------------
(* Messages: from the journal to the answer, or to the stop.               *)

(* Steps that neither take, settle, answer nor stop a message.             *)
LEMMA LedgerStays ==
  ASSUME OwedInv, StopInv, UNCHANGED <<call, cancelled, sent, answered, stopped, owed, up>>,
         disk'.owed = disk.owed, count'.exits = count.exits
  PROVE  OwedInv' /\ StopInv'
<1>1. \A p \in Peers : Message(p)' = Message(p)
  BY DEF Message
<1>2. QED
  BY <1>1 DEF OwedInv, StopInv

LEMMA ReceiveLedger ==
  ASSUME RuntimeType, OwedInv, StopInv, NEW p \in Peers, Receive(p)
  PROVE  OwedInv' /\ StopInv'
<1>1. /\ up = "up" /\ p \notin owed /\ call[p] = "idle" /\ sent' = [sent EXCEPT ![p] = @ + 1]
      /\ owed' = owed \cup {p} /\ UNCHANGED <<call, cancelled, up, answered, stopped, count>>
      /\ disk' = Snapshot'
  BY DEF Receive, turns, host
<1>2. sent \in [Peers -> Nat] /\ disk'.owed = owed'
  BY <1>1 DEF RuntimeType, HistoryType, Snapshot
<1>3. \A r \in Peers \ {p} : Message(r)' = Message(r) /\ sent'[r] = sent[r]
  BY <1>1, <1>2 DEF Message
<1>4. sent'[p] = sent[p] + 1 /\ Message(p)' = <<p, sent[p] + 1>>
  BY <1>1, <1>2 DEF Message
<1>5. Message(p)' \notin answered \cup stopped
  <2>1. sent[p] + 1 \in Nat /\ ~(sent[p] + 1 <= sent[p])
    BY <1>2
  <2>2. QED
    BY <1>4, <2>1 DEF OwedInv
<1>6. OwedInv'
  <2>1. \A r \in Peers : \A n \in 1 .. sent'[r] :
          <<r, n>> \in answered' \cup stopped' \/ (n = sent'[r] /\ r \in owed')
    <3>1. ASSUME NEW n \in 1 .. sent'[p]
          PROVE  <<p, n>> \in answered' \cup stopped' \/ (n = sent'[p] /\ p \in owed')
      <4>1. n = sent'[p] \/ n \in 1 .. sent[p]
        BY <1>2, <1>4
      <4>2. QED
        BY <1>1, <4>1 DEF OwedInv
    <3>2. ASSUME NEW r \in Peers \ {p}, NEW n \in 1 .. sent'[r]
          PROVE  <<r, n>> \in answered' \cup stopped' \/ (n = sent'[r] /\ r \in owed')
      BY <1>1, <1>3 DEF OwedInv
    <3>3. QED
      BY <3>1, <3>2
  <2>2. \A r \in Peers, n \in Nat : <<r, n>> \in answered' \cup stopped' => n <= sent'[r]
    BY <1>1, <1>2, <1>3, <1>4 DEF OwedInv
  <2>3. \A r \in Peers : cancelled'[r] => call'[r] = "turn" /\ (up' = "up" => Message(r)' \in stopped')
    BY <1>1, <1>3 DEF OwedInv
  <2>4. \A r \in Peers : call'[r] # "idle" => r \in owed'
    BY <1>1 DEF OwedInv
  <2>5. QED
    BY <1>2, <2>1, <2>2, <2>3, <2>4 DEF OwedInv
<1>7. StopInv'
  BY <1>1, <1>3, <1>5 DEF StopInv
<1>8. QED
  BY <1>6, <1>7

(* The call of p goes on: to c, which is idle only when nothing begins.    *)
LEMMA CallLedger ==
  ASSUME RuntimeType, OwedInv, StopInv, NEW p \in Peers, NEW c \in Calls \ {"turn"},
         call' = [call EXCEPT ![p] = c], UNCHANGED <<cancelled, sent, answered, stopped, owed, up>>,
         disk'.owed = disk.owed, count'.exits = count.exits, p \in owed,
         call[p] # "turn", call[p] = "idle" => up = "up"
  PROVE  OwedInv' /\ StopInv'
<1>1. \A r \in Peers : Message(r)' = Message(r)
  BY DEF Message
<1>2. \A r \in Peers : call'[r] = IF r = p THEN c ELSE call[r]
  BY DEF RuntimeType, TurnsType
<1>3. ~cancelled[p] /\ (count.exits = 0 => Message(p) \notin stopped)
  BY DEF OwedInv, StopInv
<1>4. OwedInv'
  BY <1>1, <1>2, <1>3 DEF OwedInv
<1>5. StopInv'
  BY <1>1, <1>2, <1>3 DEF StopInv
<1>6. QED
  BY <1>4, <1>5

DrainedCalls(p, c, q, new) ==
  /\ \A r \in new : In(q, r)
  /\ \A r \in Peers :
       /\ call'[r] = IF r \in new THEN "turn" ELSE IF r = p THEN c ELSE call[r]
       /\ cancelled'[r] = IF r \in new \cup {p} THEN FALSE ELSE cancelled[r]
       /\ child'[r] = IF r \in new THEN Spawned(r, resume[r])
                      ELSE IF r = p THEN NoChild ELSE child[r]

LEMMA DrainTurns ==
  ASSUME NEW p \in Peers, NEW c, NEW q \in Seq(Peers), Drain(p, c, q)
  PROVE  \E new \in SUBSET Peers : DrainedCalls(p, c, q, new)
<1>1. PICK k \in 0 .. Len(q), new \in SUBSET Peers : DrainedTo(p, c, q, k, new)
  BY DrainIs
<1>2. \A r \in new : In(q, r)
  <2>1. new = {q[i] : i \in 1 .. k} /\ 1 .. k \subseteq 1 .. Len(q)
    BY <1>1 DEF DrainedTo
  <2>2. QED
    BY <2>1 DEF In
<1>3. DrainedCalls(p, c, q, new)
  BY <1>1, <1>2 DEF DrainedTo, DrainedCalls
<1>4. QED
  BY <1>3

LEMMA EnqueueLedger ==
  ASSUME RuntimeType, SlotsInv, OwedInv, StopInv, NEW p \in Peers, Enqueue(p)
  PROVE  OwedInv' /\ StopInv'
<1>1. /\ call[p] = "cwd" /\ UNCHANGED <<sent, answered, stopped, owed, up, disk, count>>
      /\ p \in owed /\ queue \in Seq(Peers)
  BY DEF Enqueue, host, history, OwedInv, RuntimeType, TurnsType
<1>2. CASE Drain(p, "queued", Append(queue, p))
  <2> DEFINE q == Append(queue, p)
  <2>1. q \in Seq(Peers)
    BY <1>1
  <2>2. PICK new \in SUBSET Peers : DrainedCalls(p, "queued", q, new)
    BY <1>2, <2>1, DrainTurns
  <2>3. \A r \in new : call[r] = "queued" \/ r = p
    <3>1. SUFFICES ASSUME NEW r \in new, r # p PROVE call[r] = "queued"
      OBVIOUS
    <3>2. PICK i \in 1 .. Len(q) : q[i] = r
      BY <2>2 DEF In, DrainedCalls
    <3>3. i \in 1 .. Len(queue) /\ queue[i] = r
      BY <1>1, <3>1, <3>2
    <3>4. QED
      BY <3>3 DEF SlotsInv, In
  <2>4. \A r \in Peers : Message(r)' = Message(r)
    BY <1>1 DEF Message
  <2>5. \A r \in new \cup {p} : r \in owed /\ (count.exits = 0 => Message(r) \notin stopped)
    BY <1>1, <2>3 DEF OwedInv, StopInv
  <2> HIDE DEF q
  <2>6. OwedInv'
    BY <1>1, <2>2, <2>4, <2>5 DEF OwedInv, DrainedCalls
  <2>7. StopInv'
    BY <1>1, <2>2, <2>4, <2>5 DEF StopInv, DrainedCalls
  <2>8. QED
    BY <2>6, <2>7
<1>3. CASE UNCHANGED <<cancelled, queue, child>>
           /\ call' = [call EXCEPT ![p] = IF Refused THEN "idle" ELSE "reply"]
  <2> DEFINE c == IF Refused THEN "idle" ELSE "reply"
  <2>1. c \in Calls \ {"turn"} /\ call' = [call EXCEPT ![p] = c]
    BY <1>3 DEF Calls
  <2>2. QED
    BY <1>1, <1>3, <2>1, CallLedger
<1>4. QED
  BY <1>2, <1>3 DEF Enqueue

LEMMA EndTurnLedger ==
  ASSUME RuntimeType, SlotsInv, OwedInv, StopInv, NEW p \in Peers, NEW outcome \in {"answer", "failed"},
         EngineCloses(p, outcome)
  PROVE  OwedInv' /\ StopInv'
<1> DEFINE result == ResultOf(p, outcome)
<1>1. /\ Drain(p, AfterTurn(result), queue) /\ UNCHANGED <<sent, answered, stopped, up, disk, count>>
      /\ owed' = IF result = "stopped" /\ Settles THEN owed \ {p} ELSE owed
      /\ queue \in Seq(Peers)
  BY DEF EngineCloses, EndTurn, history, RuntimeType, TurnsType
<1>2. result = "stopped" <=> cancelled[p]
  BY DEF ResultOf, RuntimeType, TurnsType
<1>3. call[p] = "turn" /\ p \in owed
  BY DEF EngineCloses, SlotsInv, OwedInv
<1>4. PICK new \in SUBSET Peers : DrainedCalls(p, AfterTurn(result), queue, new)
  BY <1>1, DrainTurns
<1>5. \A r \in new : call[r] = "queued" /\ r # p /\ r \in owed
  BY <1>3, <1>4 DEF SlotsInv, OwedInv, DrainedCalls
<1>6. call'[p] = AfterTurn(result) /\ (AfterTurn(result) = "idle" <=> result = "stopped" \/ up = "stopping")
  BY <1>4, <1>5 DEF AfterTurn, DrainedCalls
<1>7. \A r \in Peers : Message(r)' = Message(r)
  BY <1>1 DEF Message
<1>8. p \notin owed' => Message(p) \in stopped
  BY <1>1, <1>2, <1>3 DEF OwedInv, Settles
<1> HIDE DEF result
<1>9. OwedInv'
  <2>1. \A r \in Peers : call'[r] # "idle" => r \in owed'
    BY <1>1, <1>3, <1>4, <1>5, <1>6 DEF OwedInv, DrainedCalls
  <2>2. \A r \in Peers : cancelled'[r] => call'[r] = "turn" /\ (up' = "up" => Message(r)' \in stopped')
    BY <1>1, <1>4, <1>7 DEF OwedInv, DrainedCalls
  <2>3. \A r \in Peers : \A n \in 1 .. sent'[r] :
          <<r, n>> \in answered' \cup stopped' \/ (n = sent'[r] /\ r \in owed')
    BY <1>1, <1>8 DEF OwedInv, Message
  <2>4. QED
    BY <1>1, <2>1, <2>2, <2>3 DEF OwedInv
<1>10. StopInv'
  <2>1. ASSUME count.exits = 0, NEW r \in Peers, Message(r) \in stopped
        PROVE  \/ call'[r] = "idle" /\ (r \notin owed' \/ up' # "up")
               \/ call'[r] = "turn" /\ cancelled'[r]
    <3>1. r \notin new
      BY <1>5, <2>1 DEF StopInv
    <3>2. CASE r = p
      <4>1. cancelled[p] /\ result = "stopped" /\ call'[p] = "idle"
        BY <1>2, <1>3, <1>6, <2>1, <3>2 DEF StopInv
      <4>2. QED
        BY <1>1, <3>2, <4>1 DEF Settles
    <3>3. CASE r # p
      BY <1>1, <1>4, <2>1, <3>1, <3>3 DEF StopInv, DrainedCalls
    <3>4. QED
      BY <3>2, <3>3
  <2>2. QED
    BY <1>1, <1>7, <2>1 DEF StopInv
<1>11. QED
  BY <1>9, <1>10

LEMMA RepliedLedger ==
  ASSUME RuntimeType, OwedInv, StopInv, NEW p \in Peers, Replied(p)
  PROVE  OwedInv' /\ StopInv'
<1>1. /\ call[p] \in {"reply", "handoff"} /\ call' = [call EXCEPT ![p] = "idle"]
      /\ owed' = owed \ {p} /\ answered' = answered \cup {Message(p)}
      /\ UNCHANGED <<cancelled, up, disk, sent, stopped, count>>
  BY DEF Replied
<1>2. \A r \in Peers : Message(r)' = Message(r)
  BY <1>1 DEF Message
<1>3. \A r \in Peers : call'[r] = IF r = p THEN "idle" ELSE call[r]
  BY <1>1 DEF RuntimeType, TurnsType
<1>4. ~cancelled[p] /\ (count.exits = 0 => Message(p) \notin stopped)
  BY <1>1 DEF OwedInv, StopInv
<1>5. \A r \in Peers, n \in Nat : <<r, n>> = Message(p) => r = p /\ n = sent[p]
  BY DEF Message
<1>6. OwedInv'
  <2>1. \A r \in Peers : \A n \in 1 .. sent'[r] :
          <<r, n>> \in answered' \cup stopped' \/ (n = sent'[r] /\ r \in owed')
    BY <1>1 DEF OwedInv, Message
  <2>2. \A r \in Peers, n \in Nat : <<r, n>> \in answered' \cup stopped' => n <= sent'[r]
    BY <1>1, <1>5 DEF OwedInv, RuntimeType, HistoryType
  <2>3. QED
    BY <1>1, <1>2, <1>3, <1>4, <2>1, <2>2 DEF OwedInv
<1>7. StopInv'
  <2>1. \A r \in Peers \ {p} : Message(r) # Message(p)
    BY DEF Message
  <2>2. QED
    BY <1>1, <1>2, <1>3, <1>4, <2>1 DEF StopInv
<1>8. QED
  BY <1>6, <1>7

LEMMA StopLedger ==
  ASSUME RuntimeType, OwedInv, StopInv, NEW p \in Peers, StopCommand(p)
  PROVE  OwedInv' /\ StopInv'
<1>1. /\ UNCHANGED <<up, sent, answered>> /\ disk'.owed = owed /\ stopped' = stopped \cup {Message(p)}
      /\ count'.exits = count.exits /\ up = "up"
  BY StopType DEF StopCommand, host, Snapshot
<1>2. \A r \in Peers : Message(r)' = Message(r)
  BY <1>1 DEF Message
<1>3. \A r \in Peers \ {p} : Message(r) # Message(p)
  BY DEF Message
<1>4. \A r \in Peers, n \in Nat : <<r, n>> = Message(p) => r = p /\ n = sent[p]
  BY DEF Message
<1>5. \A r \in Peers, n \in Nat : <<r, n>> \in answered' \cup stopped' => n <= sent'[r]
  BY <1>1, <1>4 DEF OwedInv, RuntimeType, HistoryType
<1>6. CASE call[p] = "queued"
  <2>1. owed' = owed \ {p} /\ UNCHANGED cancelled
        /\ \A r \in Peers : call'[r] = IF r = p THEN "idle" ELSE call[r]
    BY <1>6 DEF StopCommand, RuntimeType, TurnsType
  <2>2. ~cancelled[p] /\ p \in owed
    BY <1>6 DEF OwedInv
  <2>3. \A r \in Peers : \A n \in 1 .. sent'[r] :
          <<r, n>> \in answered' \cup stopped' \/ (n = sent'[r] /\ r \in owed')
    BY <1>1, <2>1 DEF OwedInv, Message
  <2>4. OwedInv'
    BY <1>1, <1>2, <1>5, <2>1, <2>2, <2>3 DEF OwedInv
  <2>5. StopInv'
    BY <1>1, <1>2, <1>3, <2>1, <2>2 DEF StopInv
  <2>6. QED
    BY <2>4, <2>5
<1>7. CASE call[p] = "turn"
  <2>1. UNCHANGED <<owed, call>> /\ \A r \in Peers : cancelled'[r] = IF r = p THEN TRUE ELSE cancelled[r]
    BY <1>7 DEF StopCommand, RuntimeType, TurnsType
  <2>2. p \in owed
    BY <1>7 DEF OwedInv
  <2>3. OwedInv'
    BY <1>1, <1>2, <1>5, <1>7, <2>1 DEF OwedInv
  <2>4. StopInv'
    BY <1>1, <1>2, <1>3, <1>7, <2>1, <2>2 DEF StopInv
  <2>5. QED
    BY <2>3, <2>4
<1>8. QED
  BY <1>6, <1>7 DEF StopCommand

LEMMA LifeLedger ==
  ASSUME RuntimeType, SlotsInv, OwedInv, StopInv, Shutdown \/ Exit \/ Restart
  PROVE  OwedInv' /\ StopInv'
<1>1. UNCHANGED <<sent, answered, stopped>>
  BY DEF Shutdown, Exit, Restart, history
<1>2. \A r \in Peers : Message(r)' = Message(r)
  BY <1>1 DEF Message
<1>3. CASE Shutdown
  <2>1. /\ up' = "stopping" /\ UNCHANGED <<owed, disk, count>>
        /\ \A r \in Peers : call'[r] = IF call[r] = "queued" THEN "idle" ELSE call[r]
        /\ \A r \in Peers : cancelled'[r] <=> (cancelled[r] \/ call[r] = "turn")
    BY <1>3 DEF Shutdown, history, Active
  <2>2. OwedInv'
    BY <1>1, <1>2, <2>1 DEF OwedInv
  <2>3. StopInv'
    BY <1>1, <1>2, <2>1 DEF StopInv
  <2>4. QED
    BY <2>2, <2>3
<1>4. CASE Exit
  <2>1. /\ UNCHANGED owed /\ (disk' = disk \/ disk'.owed = owed)
        /\ \A r \in Peers : call'[r] = "idle" /\ ~cancelled'[r]
    BY <1>4 DEF Exit, Snapshot
  <2>2. OwedInv'
    BY <1>1, <1>2, <2>1 DEF OwedInv
  <2>3. count'.exits # 0
    BY <1>4, ExitType DEF RuntimeType, HistoryType, CountType
  <2>4. QED
    BY <2>2, <2>3 DEF StopInv
<1>5. CASE Restart
  <2>1. owed' = disk.owed /\ disk' = disk /\ UNCHANGED <<call, cancelled, count>> /\ up = "down" /\ up' = "up"
    BY <1>5 DEF Restart, turns, history
  <2>2. \A r \in Peers : call[r] = "idle" /\ ~cancelled[r]
    BY <2>1 DEF SlotsInv, OwedInv
  <2>3. OwedInv'
    BY <1>1, <1>2, <2>1, <2>2 DEF OwedInv
  <2>4. StopInv'
    BY <2>1 DEF StopInv
  <2>5. QED
    BY <2>3, <2>4
<1>6. QED
  BY <1>3, <1>4, <1>5

LEMMA LedgerNext ==
  RuntimeType /\ SlotsInv /\ OwedInv /\ StopInv /\ [Next]_vars => OwedInv' /\ StopInv'
<1> SUFFICES ASSUME RuntimeType, SlotsInv, OwedInv, StopInv, [Next]_vars
             PROVE  OwedInv' /\ StopInv'
  OBVIOUS
<1>1. CASE UNCHANGED vars
  BY <1>1, LedgerStays DEF vars, turns, host, history
<1>2. ASSUME NEW p \in Peers, PeerCommand(p) PROVE OwedInv' /\ StopInv'
  BY <1>2, CommandType, LedgerStays DEF turns, host
<1>3. ASSUME NEW p \in Peers, TurnStep(p) PROVE OwedInv' /\ StopInv'
  <2>1. CASE TurnBegins(p)
    <3>1. "cwd" \in Calls \ {"turn"} /\ call' = [call EXCEPT ![p] = "cwd"] /\ p \in owed
          /\ call[p] # "turn" /\ up = "up"
      BY <2>1 DEF TurnBegins, Calls
    <3>2. UNCHANGED <<cancelled, sent, answered, stopped, owed, up, disk, count>>
      BY <2>1 DEF TurnBegins, host, history
    <3>3. QED
      BY <3>1, <3>2, CallLedger
  <2>2. CASE CwdFails(p)
    <3>1. "reply" \in Calls \ {"turn"} /\ call' = [call EXCEPT ![p] = "reply"] /\ p \in owed /\ call[p] = "cwd"
      BY <2>2 DEF CwdFails, Calls, OwedInv
    <3>2. UNCHANGED <<cancelled, sent, answered, stopped, owed, up, disk, count>>
      BY <2>2 DEF CwdFails, host, history
    <3>3. QED
      BY <3>1, <3>2, CallLedger
  <2>3. QED
    BY <1>3, <2>1, <2>2, EnqueueLedger, RepliedLedger DEF TurnStep
<1>4. ASSUME NEW p \in Peers, EngineStep(p) PROVE OwedInv' /\ StopInv'
  <2>1. CASE EngineStarts(p) \/ LeaderExits(p) \/ TimerKills(p) \/ SessionGone(p)
    BY <2>1, EngineGoesOn, LedgerStays DEF host, history
  <2>2. QED
    BY <1>4, <2>1, EndTurnLedger DEF EngineStep
<1>5. CASE StagingRemoved
  BY <1>5, LedgerStays DEF StagingRemoved, turns, history
<1>6. QED
  BY <1>1, <1>2, <1>3, <1>4, <1>5, ReceiveLedger, StopLedger, LifeLedger DEF Next

LEMMA RuntimeStarts == Init => RuntimeInv
<1> SUFFICES ASSUME Init PROVE RuntimeInv
  OBVIOUS
<1>1. RuntimeType
  BY TypeInit
<1>2. queue = <<>> /\ \A p \in Peers : call[p] = "idle" /\ child[p].st = "none"
  BY ChildIs DEF Init
<1>3. SlotsInv
  BY <1>1, <1>2, IdleSlots DEF RuntimeType, SettingsType
<1>4. OwedInv
  BY DEF Init, OwedInv, Snapshot
<1>5. StopInv
  BY DEF Init, StopInv
<1>6. QED
  BY <1>1, <1>3, <1>4, <1>5 DEF RuntimeInv

LEMMA RuntimeSteps == RuntimeInv /\ [Next]_vars => RuntimeInv'
  BY TypeNext, SlotsNext, LedgerNext DEF RuntimeInv

LEMMA RuntimeHolds == Spec => []RuntimeInv
  BY RuntimeStarts, RuntimeSteps, PTL DEF Spec

(* The budget of engine processes and of waiting turns is never exceeded,  *)
(* and a turn waits only while every slot is in use, whatever stops,       *)
(* rejections and lost sessions do (agent-runtime.mjs:693-728).            *)
THEOREM TheBudgetIsKept == Spec => []BudgetKept
<1>1. RuntimeInv => BudgetKept
  <2> SUFFICES ASSUME RuntimeInv PROVE BudgetKept
    OBVIOUS
  <2>1. {p \in Peers : child[p].st # "none"} = Active
    BY DEF RuntimeInv, SlotsInv, Active
  <2>2. QED
    BY <2>1 DEF RuntimeInv, SlotsInv, BudgetKept
<1>2. QED
  BY <1>1, RuntimeHolds, PTL

(* A turn that /stop reported as stopped delivers nothing in the same life *)
(* of the bot, even if its engine had completed the answer                 *)
(* (agent-runtime.mjs:884-889, 1084).                                      *)
THEOREM StopsHold == Spec => []StopHolds
<1>1. RuntimeInv => StopHolds
  BY DEF RuntimeInv, StopInv, StopHolds, RuntimeType, HistoryType, CountType
<1>2. QED
  BY <1>1, RuntimeHolds, PTL

(* Every message was answered or stopped by its peer, or is the last one   *)
(* of its peer and owed: a shutdown or a crash settles none                *)
(* (index.mjs:1370-1378, agent-runtime.mjs:1084).                          *)
THEOREM MessagesAreAnsweredOrOwed == Spec => []AnsweredOrOwed
<1>1. RuntimeInv => AnsweredOrOwed
  BY DEF RuntimeInv, OwedInv, AnsweredOrOwed
<1>2. QED
  BY <1>1, RuntimeHolds, PTL

-----------------------------------------------------------------------------
(* The resume token of a peer. The maps are bounded one by one: what is    *)
(* said here holds while every peer has its place in them.                 *)
EveryPeerFits == Cardinality(Peers) <= PeerCap

FitsIn(ov, rs, pj, model) ==
  \A p \in Peers : rs[p] # None =>
    rs[p].model = (IF ov[p] = None THEN model ELSE ov[p]) /\ rs[p].cwd = pj[p]

(* The token fits, here and in the snapshot; a turn runs in the directory  *)
(* and under the model that its peer has chosen.                           *)
TokenInv ==
  /\ FitsIn(override, resume, project, config.model)
  /\ FitsIn(disk.override, disk.resume, disk.project, disk.config.model)
  /\ \A p \in Peers : call[p] \in {"cwd", "queued", "turn"} => cwd[p] = project[p]
  /\ \A p \in Peers : call[p] = "turn" => child[p].model = Effective(p) /\ child[p].cwd = project[p]

LEMMA NothingIsTrimmed ==
  ASSUME EveryPeerFits, NEW m, NEW p \in Peers, NEW v
  PROVE  /\ With(m, p, v) = {[m EXCEPT ![p] = v]}
         /\ Chosen(m, p, v) = {[m EXCEPT ![p] = v]}
<1> DEFINE n == [m EXCEPT ![p] = v]
<1>1. Keys(n) \subseteq Peers
  BY DEF Keys
<1>2. Cardinality(Keys(n)) <= PeerCap
  <2>1. Cardinality(Keys(n)) \in Nat /\ Cardinality(Peers) \in Nat
    BY <1>1, ActiveIs
  <2>2. Cardinality(Keys(n)) <= Cardinality(Peers)
    BY <1>1, LimitIs, FS_Subset
  <2>3. QED
    BY <2>1, <2>2, LimitIs DEF EveryPeerFits
<1> HIDE DEF n
<1>3. Trimmed(n, p) = {n}
  BY <1>2 DEF Trimmed
<1>4. With(m, p, v) = {n}
  BY <1>3 DEF With, n
<1>5. v = None => Without(m, p) = n
  BY DEF Without, n
<1>6. QED
  BY <1>4, <1>5 DEF Chosen, n

LEMMA CommandToken ==
  ASSUME EveryPeerFits, RuntimeType, TokenInv, NEW p \in Peers, PeerCommand(p)
  PROVE  TokenInv'
<1>1. /\ UNCHANGED <<call, cwd, child, disk, config>> /\ call[p] = "idle"
  BY CommandType DEF turns, PeerCommand, Reset, ModelChosen, ProjectChosen, EffortChosen, Commands
<1>2. \A r \in Peers \ {p} : override'[r] = override[r] /\ project'[r] = project[r] /\ resume'[r] = resume[r]
  <2> USE NothingIsTrimmed DEF RuntimeType, SettingsType
  <2>1. CASE Reset(p)
    BY <2>1 DEF Reset, Without
  <2>2. ASSUME NEW m \in Models \cup {None}, ModelChosen(p, m)
        PROVE  \A r \in Peers \ {p} : override'[r] = override[r] /\ project'[r] = project[r] /\ resume'[r] = resume[r]
    BY <2>2 DEF ModelChosen, ResumeAfterModel, Without
  <2>3. ASSUME NEW j \in Projects \cup {None}, ProjectChosen(p, j)
        PROVE  \A r \in Peers \ {p} : override'[r] = override[r] /\ project'[r] = project[r] /\ resume'[r] = resume[r]
    BY <2>3 DEF ProjectChosen, Without
  <2>4. ASSUME NEW e \in Efforts \cup {None}, EffortChosen(p, e)
        PROVE  \A r \in Peers \ {p} : override'[r] = override[r] /\ project'[r] = project[r] /\ resume'[r] = resume[r]
    BY <2>4 DEF EffortChosen
  <2>5. QED
    BY <2>1, <2>2, <2>3, <2>4 DEF PeerCommand
<1>3. resume'[p] = None \/ UNCHANGED <<override, project, resume>>
  BY DEF PeerCommand, Reset, ModelChosen, ProjectChosen, EffortChosen, ResumeAfterModel, Without,
         RuntimeType, SettingsType
<1>4. \A r \in Peers \ {p} : Effective(r)' = Effective(r)
  BY <1>1, <1>2 DEF Effective
<1>5. FitsIn(override', resume', project', config'.model)
  BY <1>1, <1>2, <1>3 DEF FitsIn, TokenInv
<1>6. QED
  BY <1>1, <1>2, <1>4, <1>5 DEF TokenInv

(* Steps that leave the settings of every peer alone.                      *)
LEMMA TokenStays ==
  ASSUME TokenInv, UNCHANGED <<override, project, resume, config>>,
         disk' = disk \/ disk' = Snapshot \/ disk' = Snapshot',
         \A p \in Peers : call'[p] \in {"cwd", "queued", "turn"} => cwd'[p] = project[p],
         \A p \in Peers : call'[p] = "turn" => child'[p].model = Effective(p) /\ child'[p].cwd = project[p]
  PROVE  TokenInv'
<1>1. \A p \in Peers : Effective(p)' = Effective(p)
  BY DEF Effective
<1>2. FitsIn(disk'.override, disk'.resume, disk'.project, disk'.config.model)
  BY DEF TokenInv, Snapshot
<1>3. QED
  BY <1>1, <1>2 DEF TokenInv

LEMMA DrainToken ==
  ASSUME RuntimeType, SlotsInv, TokenInv, NEW p \in Peers, NEW c, NEW q \in Seq(Peers), Drain(p, c, q),
         \A r \in Peers : In(q, r) => call[r] \in {"queued", "cwd"},
         c = "queued" => call[p] = "cwd", c \notin {"cwd", "turn"},
         UNCHANGED <<cwd, override, project, resume, config, disk>>
  PROVE  TokenInv'
<1>1. PICK new \in SUBSET Peers : DrainedCalls(p, c, q, new)
  BY DrainTurns
<1>2. \A r \in new : cwd[r] = project[r]
  BY <1>1 DEF DrainedCalls, TokenInv
<1>3. \A r \in Peers : call'[r] \in {"cwd", "queued", "turn"} => cwd'[r] = project[r]
  <2>1. ASSUME NEW r \in Peers, call'[r] \in {"cwd", "queued", "turn"}
        PROVE  cwd'[r] = project[r]
    <3>1. CASE r \in new
      BY <1>2, <3>1
    <3>2. CASE r \notin new /\ r = p
      <4>1. c = "queued"
        BY <1>1, <2>1, <3>2 DEF DrainedCalls
      <4>2. QED
        BY <3>2, <4>1 DEF TokenInv
    <3>3. CASE r \notin new /\ r # p
      BY <1>1, <2>1, <3>3 DEF DrainedCalls, TokenInv
    <3>4. QED
      BY <3>1, <3>2, <3>3
  <2>2. QED
    BY <2>1
<1>4. \A r \in Peers : call'[r] = "turn" => child'[r].model = Effective(r) /\ child'[r].cwd = project[r]
  <2>1. ASSUME NEW r \in Peers, call'[r] = "turn"
        PROVE  child'[r].model = Effective(r) /\ child'[r].cwd = project[r]
    <3>1. CASE r \in new
      <4>1. child'[r] = Spawned(r, resume[r])
        BY <1>1, <3>1 DEF DrainedCalls
      <4>2. Spawned(r, resume[r]).model = Effective(r) /\ Spawned(r, resume[r]).cwd = cwd[r]
        BY DEF Spawned
      <4>3. QED
        BY <1>2, <3>1, <4>1, <4>2
    <3>2. CASE r \notin new
      <4>1. r # p /\ call[r] = "turn" /\ child'[r] = child[r]
        BY <1>1, <2>1, <3>2 DEF DrainedCalls
      <4>2. QED
        BY <4>1 DEF TokenInv
    <3>3. QED
      BY <3>1, <3>2
  <2>2. QED
    BY <2>1
<1>5. QED
  BY <1>3, <1>4, TokenStays

LEMMA TurnToken ==
  ASSUME RuntimeType, SlotsInv, TokenInv, NEW p \in Peers, TurnStep(p)
  PROVE  TokenInv'
<1>1. CASE TurnBegins(p)
  <2>1. /\ UNCHANGED <<override, project, resume, config, disk, child>>
        /\ \A r \in Peers : /\ call'[r] = IF r = p THEN "cwd" ELSE call[r]
                            /\ cwd'[r] = IF r = p THEN project[p] ELSE cwd[r]
    BY <1>1 DEF TurnBegins, settings, RuntimeType, TurnsType
  <2>2. QED
    BY <2>1, TokenStays DEF TokenInv
<1>2. CASE CwdFails(p) \/ Replied(p)
  <2>1. /\ UNCHANGED <<override, project, resume, config, disk, child, cwd>>
        /\ \E c \in {"idle", "reply"} : \A r \in Peers : call'[r] = IF r = p THEN c ELSE call[r]
    BY <1>2 DEF CwdFails, Replied, settings, RuntimeType, TurnsType
  <2>2. QED
    BY <2>1, TokenStays DEF TokenInv
<1>3. CASE Enqueue(p)
  <2>1. UNCHANGED <<cwd, override, project, resume, config, disk>> /\ call[p] = "cwd" /\ queue \in Seq(Peers)
    BY <1>3 DEF Enqueue, settings, RuntimeType, TurnsType
  <2>2. CASE Drain(p, "queued", Append(queue, p))
    <3> DEFINE q == Append(queue, p)
    <3>1. q \in Seq(Peers) /\ \A i \in 1 .. Len(q) : q[i] = p \/ (i \in 1 .. Len(queue) /\ q[i] = queue[i])
      BY <2>1
    <3> HIDE DEF q
    <3>2. \A r \in Peers : In(q, r) => call[r] \in {"queued", "cwd"}
      BY <2>1, <3>1 DEF In, SlotsInv
    <3>3. Drain(p, "queued", q)
      BY <2>2 DEF q
    <3>4. QED
      BY <2>1, <3>1, <3>2, <3>3, DrainToken
  <2>3. CASE UNCHANGED <<cancelled, queue, child>>
             /\ call' = [call EXCEPT ![p] = IF Refused THEN "idle" ELSE "reply"]
    <3>1. \E c \in {"idle", "reply"} : \A r \in Peers : call'[r] = IF r = p THEN c ELSE call[r]
      BY <2>3 DEF RuntimeType, TurnsType
    <3>2. QED
      BY <2>1, <2>3, <3>1, TokenStays DEF TokenInv
  <2>4. QED
    BY <1>3, <2>2, <2>3 DEF Enqueue
<1>4. QED
  BY <1>1, <1>2, <1>3 DEF TurnStep

LEMMA EngineToken ==
  ASSUME EveryPeerFits, RuntimeType, SlotsInv, TokenInv, NEW p \in Peers, EngineStep(p)
  PROVE  TokenInv'
<1>1. child[p] \in ChildType /\ child \in [Peers -> ChildType] /\ resume \in [Peers -> Opt(Token)]
  BY DEF RuntimeType, TurnsType, SettingsType
<1>2. ASSUME EngineStarts(p) \/ LeaderExits(p) \/ TimerKills(p) \/ SessionGone(p)
      PROVE  /\ UNCHANGED <<call, cwd, override, project, config, disk>> /\ call[p] = "turn"
             /\ \A r \in Peers \ {p} : child'[r] = child[r] /\ Effective(r)' = Effective(r)
             /\ Effective(p)' = Effective(p)
  <2>1. /\ UNCHANGED <<call, cwd, cancelled, queue, override, project, effort, intro, config>>
        /\ UNCHANGED <<host, owed, disk, history>> /\ child[p].st # "none"
        /\ \A r \in Peers \ {p} : child'[r] = child[r]
    BY <1>2, EngineGoesOn
  <2>2. QED
    BY <2>1 DEF SlotsInv, Effective
<1>3. child[p].st # "none" => call[p] = "turn" /\ child[p].model = Effective(p) /\ child[p].cwd = project[p]
  BY DEF SlotsInv, TokenInv
<1>4. CASE EngineStarts(p)
  <2>1. child' = [child EXCEPT ![p] = [child[p] EXCEPT !.got = TRUE]] /\ child[p].st # "none"
    BY <1>4 DEF EngineStarts
  <2>2. child'[p].model = child[p].model /\ child'[p].cwd = child[p].cwd
    BY <1>1, <2>1 DEF ChildType
  <2>3. PICK token : token = [model |-> child[p].model, cwd |-> child[p].cwd]
    OBVIOUS
  <2>4. resume' = [resume EXCEPT ![p] = token]
    BY <1>4, <2>3, NothingIsTrimmed DEF EngineStarts
  <2>5. token.model = Effective(p) /\ token.cwd = project[p]
    BY <1>3, <2>1, <2>3
  <2>6. \A r \in Peers : resume'[r] = IF r = p THEN token ELSE resume[r]
    BY <1>1, <2>4
  <2>7. FitsIn(override', resume', project', config'.model)
    BY <1>2, <1>4, <2>5, <2>6 DEF FitsIn, TokenInv, Effective
  <2>8. QED
    BY <1>2, <1>3, <1>4, <2>1, <2>2, <2>7 DEF TokenInv
<1>5. CASE SessionGone(p)
  <2>1. child' = [child EXCEPT ![p] = Spawned(p, None)] /\ resume' = Without(resume, p)
    BY <1>5 DEF SessionGone
  <2>2. child'[p].model = Effective(p) /\ child'[p].cwd = cwd[p]
    BY <1>1, <2>1 DEF Spawned
  <2>3. \A r \in Peers : resume'[r] = IF r = p THEN None ELSE resume[r]
    BY <1>1, <2>1 DEF Without
  <2>4. FitsIn(override', resume', project', config'.model)
    BY <1>2, <1>5, <2>3 DEF FitsIn, TokenInv
  <2>5. cwd[p] = project[p]
    BY <1>2, <1>5 DEF TokenInv
  <2>6. QED
    BY <1>2, <1>5, <2>2, <2>4, <2>5 DEF TokenInv
<1>6. CASE LeaderExits(p) \/ TimerKills(p)
  <2>1. child'[p].model = child[p].model /\ child'[p].cwd = child[p].cwd
    <3>1. CASE LeaderExits(p)
      BY <1>1, <3>1 DEF LeaderExits, ChildType
    <3>2. CASE TimerKills(p)
      BY <1>1, <3>2, ChildIs DEF TimerKills
    <3>3. QED
      BY <1>6, <3>1, <3>2
  <2>2. resume' = resume
    BY <1>6 DEF LeaderExits, TimerKills, settings
  <2>3. QED
    BY <1>2, <1>6, <2>1, <2>2, TokenStays DEF TokenInv
<1>7. ASSUME NEW outcome \in {"answer", "failed"}, EngineCloses(p, outcome) PROVE TokenInv'
  <2> DEFINE c == AfterTurn(ResultOf(p, outcome))
  <2>1. Drain(p, c, queue) /\ UNCHANGED <<cwd, override, project, resume, config, disk>>
    BY <1>7 DEF EngineCloses, EndTurn
  <2>2. c \in {"idle", "handoff", "reply"} /\ queue \in Seq(Peers)
    BY AfterTurnIs DEF RuntimeType, TurnsType
  <2>3. \A r \in Peers : In(queue, r) => call[r] \in {"queued", "cwd"}
    BY DEF SlotsInv
  <2> HIDE DEF c
  <2>4. QED
    BY <2>1, <2>2, <2>3, DrainToken
<1>8. QED
  BY <1>4, <1>5, <1>6, <1>7 DEF EngineStep

LEMMA LifeToken ==
  ASSUME RuntimeType, SlotsInv, TokenInv, Shutdown \/ Exit \/ Restart
  PROVE  TokenInv'
<1>1. CASE Shutdown
  <2>1. /\ UNCHANGED <<cwd, override, project, resume, config, disk>>
        /\ \A r \in Peers : call'[r] = IF call[r] = "queued" THEN "idle" ELSE call[r]
        /\ child' = [r \in Peers |-> Killed(child[r])]
    BY <1>1 DEF Shutdown, settings
  <2>2. \A r \in Peers : child'[r].model = child[r].model /\ child'[r].cwd = child[r].cwd
    BY <2>1, ChildIs DEF RuntimeType, TurnsType
  <2>3. QED
    BY <2>1, <2>2, TokenStays DEF TokenInv
<1>2. CASE Exit
  <2>1. UNCHANGED <<override, project, resume, config>> /\ \A r \in Peers : call'[r] = "idle"
    BY <1>2 DEF Exit, settings
  <2>2. disk' = disk \/ disk' = Snapshot
    BY <1>2 DEF Exit
  <2>3. QED
    BY <2>1, <2>2, TokenStays
<1>3. CASE Restart
  <2>1. PICK cfg \in [model : Models, locked : BOOLEAN, slots : {config.slots}] :
          /\ config' = cfg
          /\ override' = [p \in Peers |-> RestoredOverride(p, cfg)]
          /\ resume' = [p \in Peers |-> RestoredToken(p, cfg)]
    BY <1>3 DEF Restart
  <2>2. project' = disk.project /\ disk' = disk /\ UNCHANGED call /\ \A p \in Peers : call[p] = "idle"
    BY <1>3 DEF Restart, turns, SlotsInv
  <2>3. ASSUME NEW p \in Peers, resume'[p] # None
        PROVE  /\ resume'[p].model = (IF override'[p] = None THEN config'.model ELSE override'[p])
               /\ resume'[p].cwd = project'[p]
    <3>1. /\ resume'[p] = disk.resume[p] /\ cfg.model = disk.config.model
          /\ disk.override[p] = None \/ ~cfg.locked
      BY <2>1, <2>3 DEF RestoredToken
    <3>2. override'[p] = disk.override[p]
      BY <2>1, <3>1 DEF RestoredOverride
    <3>3. QED
      BY <2>1, <2>2, <2>3, <3>1, <3>2 DEF TokenInv, FitsIn
  <2>4. FitsIn(override', resume', project', config'.model)
    BY <2>3 DEF FitsIn
  <2>5. QED
    BY <2>2, <2>4 DEF TokenInv
<1>4. QED
  BY <1>1, <1>2, <1>3

LEMMA TokenNext ==
  ASSUME EveryPeerFits, RuntimeType, SlotsInv, TokenInv, [Next]_vars
  PROVE  TokenInv'
<1>1. CASE UNCHANGED vars
  BY <1>1, TokenStays DEF vars, turns, settings, TokenInv
<1>2. ASSUME NEW p \in Peers, Receive(p) PROVE TokenInv'
  BY <1>2, TokenStays DEF Receive, turns, settings, TokenInv
<1>3. ASSUME NEW p \in Peers, StopCommand(p) PROVE TokenInv'
  <2>1. UNCHANGED <<cwd, settings>> /\ disk' = Snapshot
    BY <1>3, StopType
  <2>2. \A r \in Peers : call'[r] # "idle" => call'[r] = call[r]
    BY <1>3 DEF StopCommand, RuntimeType, TurnsType
  <2>3. \A r \in Peers : child'[r].model = child[r].model /\ child'[r].cwd = child[r].cwd
    BY <1>3, ChildIs DEF StopCommand, RuntimeType, TurnsType
  <2>4. QED
    BY <2>1, <2>2, <2>3, TokenStays DEF settings, TokenInv
<1>4. CASE StagingRemoved
  BY <1>4, TokenStays DEF StagingRemoved, turns, settings, TokenInv
<1>5. QED
  BY <1>1, <1>2, <1>3, <1>4, CommandToken, TurnToken, EngineToken, LifeToken DEF Next

(* While every peer has its place in the per-peer maps, the token of a     *)
(* peer was captured under the model and in the directory its next turn    *)
(* uses, through commands, restarts with other settings and an engine that *)
(* reports its session late (agent-runtime.mjs:598-603, 1202-1239).        *)
THEOREM TokensFit ==
  ASSUME EveryPeerFits
  PROVE  Spec => []TokenFits
<1>1. Init => TokenInv
  BY DEF Init, TokenInv, FitsIn, Snapshot
<1>2. RuntimeInv /\ TokenInv /\ [Next]_vars => TokenInv'
  BY TokenNext DEF RuntimeInv
<1>3. TokenInv => TokenFits
  BY DEF TokenInv, FitsIn, TokenFits, Effective
<1>4. QED
  BY <1>1, <1>2, <1>3, RuntimeHolds, PTL DEF Spec

-----------------------------------------------------------------------------
(* Shutdown: nothing that needs the staging directory is left out of what  *)
(* it waits for, and nothing new begins.                                   *)
WaitInv ==
  /\ up = "stopping" => WaitsFor \subseteq waits
  /\ ~staging => up # "up" /\ (up = "stopping" => waits = {})

(* In the shutdown calls only end, and S is waited for no longer.          *)
OnlyEnds(S) ==
  \A r \in Peers : call'[r] \in {"turn", "handoff"} => call'[r] = call[r] /\ r \notin S

LEMMA WaitStays ==
  ASSUME WaitInv, NEW S, UNCHANGED <<up, staging>>, waits' = waits \ S, up = "stopping" => OnlyEnds(S)
  PROVE  WaitInv'
  BY DEF WaitInv, WaitsFor, OnlyEnds

LEMMA WaitNext == RuntimeType /\ SlotsInv /\ WaitInv /\ [Next]_vars => WaitInv'
<1> SUFFICES ASSUME RuntimeType, SlotsInv, WaitInv, [Next]_vars PROVE WaitInv'
  OBVIOUS
<1>1. ASSUME UNCHANGED <<call, host>> PROVE WaitInv'
  BY <1>1 DEF host, WaitInv, WaitsFor
<1>2. CASE UNCHANGED vars
  BY <1>1, <1>2 DEF vars, turns
<1>3. ASSUME NEW p \in Peers, PeerCommand(p) \/ Receive(p) PROVE WaitInv'
  BY <1>1, <1>3, CommandType DEF Receive, turns
<1>4. ASSUME NEW p \in Peers, TurnStep(p) PROVE WaitInv'
  <2>1. CASE TurnBegins(p)
    BY <2>1 DEF TurnBegins, host, WaitInv
  <2>2. CASE CwdFails(p)
    <3>1. /\ UNCHANGED <<up, staging>> /\ waits' = waits \ {}
          /\ \A r \in Peers : call'[r] = IF r = p THEN "reply" ELSE call[r]
      BY <2>2 DEF CwdFails, host, RuntimeType, TurnsType
    <3>2. OnlyEnds({})
      BY <3>1 DEF OnlyEnds
    <3>3. QED
      BY <3>1, <3>2, WaitStays
  <2>3. CASE Enqueue(p)
    <3>1. UNCHANGED <<up, staging>> /\ waits' = waits \ {}
      BY <2>3 DEF Enqueue, host
    <3>2. CASE up = "stopping"
      <4>1. \A r \in Peers : call'[r] = IF r = p THEN "idle" ELSE call[r]
        BY <2>3, <3>2 DEF Enqueue, Refused, RuntimeType, TurnsType
      <4>2. OnlyEnds({})
        BY <4>1 DEF OnlyEnds
      <4>3. QED
        BY <3>1, <4>2, WaitStays
    <3>3. CASE up # "stopping"
      BY <3>1, <3>3, WaitStays
    <3>4. QED
      BY <3>2, <3>3
  <2>4. CASE Replied(p)
    <3>1. /\ UNCHANGED <<up, staging>> /\ waits' = waits \ {p}
          /\ \A r \in Peers : call'[r] = IF r = p THEN "idle" ELSE call[r]
      BY <2>4 DEF Replied, RuntimeType, TurnsType
    <3>2. OnlyEnds({p})
      BY <3>1 DEF OnlyEnds
    <3>3. QED
      BY <3>1, <3>2, WaitStays
  <2>5. QED
    BY <1>4, <2>1, <2>2, <2>3, <2>4 DEF TurnStep
<1>5. ASSUME NEW p \in Peers, EngineStep(p) PROVE WaitInv'
  <2>1. CASE EngineStarts(p) \/ LeaderExits(p) \/ TimerKills(p) \/ SessionGone(p)
    BY <1>1, <2>1, EngineGoesOn
  <2>2. ASSUME NEW outcome \in {"answer", "failed"}, EngineCloses(p, outcome) PROVE WaitInv'
    <3> DEFINE result == ResultOf(p, outcome)
    <3>1. /\ Drain(p, AfterTurn(result), queue) /\ UNCHANGED <<up, staging>> /\ waits' = waits \ {p}
          /\ queue \in Seq(Peers)
      BY <2>2 DEF EngineCloses, EndTurn, RuntimeType, TurnsType
    <3>2. PICK new \in SUBSET Peers : DrainedCalls(p, AfterTurn(result), queue, new)
      BY <3>1, DrainTurns
    <3>3. ASSUME up = "stopping" PROVE OnlyEnds({p})
      <4>1. queue = <<>>
        BY <3>3 DEF SlotsInv
      <4>2. new = {} /\ AfterTurn(result) = "idle"
        BY <3>2, <3>3, <4>1 DEF DrainedCalls, In, AfterTurn
      <4>3. \A r \in Peers : call'[r] = IF r = p THEN "idle" ELSE call[r]
        BY <3>2, <4>2 DEF DrainedCalls
      <4>4. QED
        BY <4>3 DEF OnlyEnds
    <3>4. QED
      BY <3>1, <3>3, WaitStays
  <2>3. QED
    BY <1>5, <2>1, <2>2 DEF EngineStep
<1>6. ASSUME NEW p \in Peers, StopCommand(p) PROVE WaitInv'
  BY <1>6, StopType DEF StopCommand, host, WaitInv
<1>7. CASE Shutdown
  <2>1. WaitsFor' = WaitsFor
    BY <1>7 DEF Shutdown, WaitsFor
  <2>2. QED
    BY <1>7, <2>1 DEF Shutdown, WaitInv
<1>8. CASE StagingRemoved \/ Exit \/ Restart
  BY <1>8 DEF StagingRemoved, Exit, Restart, turns, WaitInv, WaitsFor
<1>9. QED
  BY <1>2, <1>3, <1>4, <1>5, <1>6, <1>7, <1>8 DEF Next

(* The staging directory outlives every engine and every handoff that      *)
(* reads from it, although handoffs begin and end while the shutdown waits *)
(* (agent-runtime.mjs:315-318, 1158).                                      *)
THEOREM StagingOutlivesItsReaders == Spec => []StagingHeld
<1>1. Init => WaitInv
  BY DEF Init, WaitInv, WaitsFor
<1>2. RuntimeInv /\ WaitInv /\ [Next]_vars => WaitInv'
  BY WaitNext DEF RuntimeInv
<1>3. RuntimeInv /\ WaitInv => StagingHeld
  BY DEF RuntimeInv, SlotsInv, RuntimeType, HostType, WaitInv, WaitsFor, StagingHeld
<1>4. QED
  BY <1>1, <1>2, <1>3, RuntimeHolds, PTL DEF Spec
=============================================================================
