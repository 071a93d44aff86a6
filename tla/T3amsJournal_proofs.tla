------------------------ MODULE T3amsJournal_proofs -------------------------
(***************************************************************************)
(* What the T3ams journal keeps for any lanes, messages, edits, limits,    *)
(* failed writes and crashes. JournalInv is inductive: it follows a claim  *)
(* from the memory through the snapshot that is being written to the state *)
(* file (ClaimsInv), what a turn knows of its row while other mutations    *)
(* come between (TurnsInv), and who wakes a lane next (WakeInv).           *)
(***************************************************************************)
EXTENDS T3amsJournal, SequenceTheorems, FiniteSetTheorems, WellFoundedInduction, TLAPS

RowType == [rev : Nat, ver : 0 .. Deleted, done : BOOLEAN, delayed : BOOLEAN,
            media : {"none", "submitted", "budget", "complete"},
            box : [next : Nat, file : {"none", "staged", "uploaded", "sent"}]]
SnapshotType == [ingress : Seq(Messages), entry : [Messages -> RowType], seen : SUBSET Messages,
                 life : [Messages -> 0 .. Deleted], dead : SUBSET Messages]
Actors   == Lanes \cup {Callback, Retry}
Mutating == {"begin", "result", "prepare", "part", "uploaded", "sent", "complete", "remove",
             "defer", "dead"}
Waiting  == {"fetch", "analyze", "brain", "send", "confirm"}
TurnType == [phase : {"idle"} \cup Waiting \cup Mutating, msg : Messages \cup {None}, rev : Nat,
             ver : 0 .. Deleted, abort : BOOLEAN, file : {"none", "staged"}]
CallbackType == [phase : {"idle", "history", "admit", "cancel", "reconcile", "lifecycle"},
                 msg : Messages \cup {None}]

JournalType ==
  /\ posted \in [Messages -> 0 .. Deleted]
  /\ ingress \in Seq(Messages) /\ entry \in [Messages -> RowType] /\ seen \subseteq Messages
  /\ life \in [Messages -> 0 .. Deleted] /\ dead \subseteq Messages
  /\ pending \in SnapshotType \cup {None} /\ disk \in SnapshotType
  /\ Len(ingress) <= IngressCap /\ Len(disk.ingress) <= IngressCap
  /\ pending # None => Len(pending.ingress) <= IngressCap
QueueType ==
  /\ durable \in BOOLEAN /\ armed \in BOOLEAN /\ waiting \in BOOLEAN
  /\ callback \in CallbackType
  /\ callback.phase # "idle" => callback.msg \in Messages
  /\ mutations \in Seq(Actors)
  /\ undo \in [clean : SUBSET Messages, ingress : Seq(Messages)]
WorkType ==
  /\ tasks \in [Lanes -> Seq(Messages \X Nat)] /\ running \subseteq Messages
  /\ turn \in [Lanes -> TurnType]

(* The mutation queue: a turn and the callback are in it at most once, in  *)
(* a phase that mutates; a removal is one only while it waits.             *)
Once(s) == \A i, j \in 1 .. Len(s) : s[i] = s[j] => i = j \/ s[i] = Retry
MutationsInv ==
  /\ Once(mutations)
  /\ Contains(mutations, Callback) => callback.phase # "idle"
  /\ \A l \in Lanes : Contains(mutations, l) => turn[l].phase \in Mutating
  /\ waiting => mutations # <<>>
  /\ \A l \in Lanes : At(l, "remove") => Waits(l)

(* The dispatcher: each running message has one task, in its lane, and the *)
(* first task of a lane is the one that turns.                             *)
Dispatched(ts, r) ==
  /\ \A l \in Lanes : \A i \in 1 .. Len(ts[l]) :
       /\ LaneOf(ts[l][i][1]) = l /\ ts[l][i][1] \in r
       /\ \A j \in 1 .. Len(ts[l]) : ts[l][j][1] = ts[l][i][1] => i = j
  /\ \A m \in r : \E i \in 1 .. Len(ts[LaneOf(m)]) : ts[LaneOf(m)][i][1] = m
KnownRevisions(ts, e) ==
  \A l \in Lanes : \A i \in 1 .. Len(ts[l]) : ts[l][i][2] <= e[ts[l][i][1]].rev
TasksInv ==
  /\ Dispatched(tasks, running) /\ KnownRevisions(tasks, entry) /\ running \subseteq seen
  /\ \A l \in Lanes : ~At(l, "idle") => tasks[l] # <<>> /\ tasks[l][1] = <<turn[l].msg, turn[l].rev>>

(* A journal that does not dispatch has a retry ahead, unless that one      *)
(* threw and the pump has not run since; the oldest message of a lane has  *)
(* a task, a timer, a retry, or the callback that pumps.                   *)
Retries == armed \/ Contains(mutations, Retry) \/ stalled
Pumps ==
  \/ Waits(Callback) /\ callback.phase # "lifecycle"
  \/ Contains(mutations, Callback) /\ callback.phase = "admit" /\ HasRoom
Woken(l) == tasks[l] # <<>> \/ (durable /\ entry[NextOf(l)].delayed) \/ Retries \/ Pumps
WakeInv ==
  /\ ~durable => Retries
  /\ Waits(Callback) /\ callback.phase = "cancel" => HasRoom
  /\ \A l \in Lanes : NextOf(l) # None => Woken(l)

(* What a snapshot may say: a row that is done is answered, the parts a    *)
(* row has counted are out, and a claim without a row was answered,        *)
(* withdrawn, stopped or dead-lettered.                                    *)
AnsweredIn(m, o) ==
  \E v \in 0 .. Deleted : \A part \in 1 .. (IF IsStop(m) THEN 1 ELSE Parts) : <<m, v, part>> \in o
WithdrawnIn(m, p) == \E v \in Gone : p[m] >= v
HonestRow(m, row, o) ==
  /\ row.done => AnsweredIn(m, o)
  /\ row.box = NoOutbox \/ row.box.next >= 1
  /\ \A part \in 1 .. row.box.next - 1 : <<m, row.ver, part>> \in o
Honest(s, o, p, st) ==
  /\ \A i \in 1 .. Len(s.ingress) : s.ingress[i] \in s.seen
  /\ \A m \in Messages : s.life[m] <= p[m]
  /\ \A m \in Messages : HonestRow(m, s.entry[m], o)
  /\ \A m \in s.seen : \/ \E i \in 1 .. Len(s.ingress) : s.ingress[i] = m
                       \/ AnsweredIn(m, o) \/ WithdrawnIn(m, p) \/ m \in st \/ m \in s.dead
(* The memory is ahead of a snapshot that was taken of it.                 *)
AheadRow(old, new) ==
  /\ old.rev <= new.rev
  /\ old.rev = new.rev /\ old.box # NoOutbox => new.box # NoOutbox
Ahead(s, sn, e) == s.seen \subseteq sn /\ \A m \in s.seen : AheadRow(s.entry[m], e[m])
ClaimsInv ==
  /\ Honest(Snapshot, out, posted, stopped)
  /\ Honest(disk, out, posted, stopped) /\ Ahead(disk, seen, entry)
  /\ pending # None => Honest(pending, out, posted, stopped) /\ Ahead(pending, seen, entry)

(* What the callback and a turn know; a turn only as long as nobody edited *)
(* its message.                                                            *)
CallbackInv ==
  /\ callback.phase = "history" => life[callback.msg] \in Gone
  /\ callback.phase = "cancel" => callback.msg \notin seen
  /\ callback.phase = "admit" /\ ~Waits(Callback) => callback.msg \notin seen
Fresh == {"fetch", "begin", "analyze", "result", "brain", "prepare"}
RowOf(l) == entry[turn[l].msg]
TurnKnows(l) ==
  /\ RowOf(l).ver = turn[l].ver
  /\ turn[l].phase \in Fresh /\ ~(At(l, "prepare") /\ Waits(l)) => RowOf(l).box = NoOutbox
  /\ turn[l].phase \in {"send", "part", "uploaded", "sent"} => RowOf(l).box # NoOutbox
  /\ At(l, "prepare") /\ Waits(l) => RowOf(l).box # NoOutbox
  /\ At(l, "part") /\ ~Waits(l) => <<turn[l].msg, RowOf(l).ver, RowOf(l).box.next>> \in out
  /\ At(l, "complete") => AnsweredIn(turn[l].msg, out)
  /\ At(l, "confirm") => IsStop(turn[l].msg)
TurnsInv ==
  /\ \A l \in Lanes : ~At(l, "idle") /\ RowOf(l).rev = turn[l].rev => TurnKnows(l)
  /\ \A l \in Lanes : At(l, "complete") /\ Waits(l) => AnsweredIn(turn[l].msg, out)
(* What a failed removal puts back.                                        *)
UndoInv ==
  \A l \in Lanes : Waits(l) /\ turn[l].phase \in {"remove", "dead"} =>
    /\ \A i \in 1 .. Len(ingress) : \E j \in 1 .. Len(undo.ingress) : undo.ingress[j] = ingress[i]
    /\ At(l, "dead") => \E j \in 1 .. Len(undo.ingress) : undo.ingress[j] = turn[l].msg
    /\ \A j \in 1 .. Len(undo.ingress) : undo.ingress[j] \in seen
    /\ Len(undo.ingress) <= IngressCap

JournalInv ==
  /\ JournalType /\ QueueType /\ WorkType /\ MutationsInv /\ TasksInv /\ WakeInv /\ ClaimsInv
  /\ CallbackInv /\ TurnsInv /\ UndoInv

-----------------------------------------------------------------------------
(* Sequences, the oldest entry of a lane, and what a splice leaves.        *)

LEMMA LeastOf ==
  ASSUME NEW S \in SUBSET Nat, S # {}
  PROVE  Min(S) \in S /\ \A n \in S : Min(S) <= n
<1>1. PICK x \in S : \A y \in S : ~(<<y, x>> \in OpToRel(<, Nat))
  BY NatLessThanWellFounded, WFMin
<1>2. \A y \in S : ~(y < x)
  BY <1>1 DEF OpToRel
<1>3. \A y \in S : x <= y
  BY <1>2
<1>4. QED
  BY <1>3 DEF Min

LEMMA MessageIs == \A m \in Messages : m # None /\ LaneOf(m) \in Lanes
  BY DEF Messages, None, LaneOf

LEMMA OldestIs ==
  ASSUME NEW s \in Seq(Messages), NEW l \in Lanes
  PROVE  /\ Oldest(s, l) = None <=> \A i \in 1 .. Len(s) : LaneOf(s[i]) # l
         /\ Oldest(s, l) # None =>
              \E i \in 1 .. Len(s) : /\ Oldest(s, l) = s[i] /\ LaneOf(s[i]) = l
                                     /\ \A j \in 1 .. i - 1 : LaneOf(s[j]) # l
<1>1. DOMAIN s = 1 .. Len(s) /\ \A i \in 1 .. Len(s) : s[i] \in Messages
  OBVIOUS
<1>2. CASE Places(s, l) = {}
  BY <1>1, <1>2 DEF Oldest, Places
<1>3. CASE Places(s, l) # {}
  <2> DEFINE i == Min(Places(s, l))
  <2>1. Places(s, l) \subseteq Nat
    BY <1>1 DEF Places
  <2>2. i \in Places(s, l) /\ \A j \in Places(s, l) : i <= j
    BY <1>3, <2>1, LeastOf
  <2>3. Oldest(s, l) = s[i]
    BY <1>3 DEF Oldest
  <2> HIDE DEF i
  <2>4. i \in 1 .. Len(s) /\ LaneOf(s[i]) = l /\ \A j \in 1 .. i - 1 : LaneOf(s[j]) # l
    BY <1>1, <2>2 DEF Places
  <2>5. QED
    BY <1>1, <2>3, <2>4, MessageIs
<1>4. QED
  BY <1>2, <1>3

LEMMA SplicesKeep ==
  ASSUME ingress \in Seq(Messages), NEW M \in SUBSET Messages, Splices(M)
  PROVE  /\ ingress' \in Seq(Messages) /\ Len(ingress') <= Len(ingress)
         /\ \A i \in 1 .. Len(ingress') : \E j \in 1 .. Len(ingress) : ingress'[i] = ingress[j]
         /\ \A i \in 1 .. Len(ingress) :
              ingress[i] \in M \/ \E j \in 1 .. Len(ingress') : ingress'[j] = ingress[i]
         /\ (\E i \in 1 .. Len(ingress) : ingress[i] \in M) => Len(ingress') < Len(ingress)
         /\ \A l \in Lanes : (\A m \in M : LaneOf(m) # l) => Oldest(ingress', l) = NextOf(l)
<1> DEFINE kept == {i \in DOMAIN ingress : ingress[i] \notin M}
           n == Cardinality(kept)
<1>1. DOMAIN ingress = 1 .. Len(ingress) /\ Len(ingress) \in Nat
  OBVIOUS
<1>2. IsFiniteSet(kept) /\ n \in Nat /\ n <= Len(ingress)
      /\ ((\E i \in 1 .. Len(ingress) : ingress[i] \in M) => n < Len(ingress))
  <2>1. IsFiniteSet(1 .. Len(ingress)) /\ Cardinality(1 .. Len(ingress)) = Len(ingress)
    BY <1>1, FS_Interval
  <2>2. kept \subseteq 1 .. Len(ingress)
    BY <1>1
  <2>3. IsFiniteSet(kept) /\ n \in Nat /\ n <= Len(ingress)
    BY <2>1, <2>2, FS_Subset, FS_CardinalityType
  <2>4. ASSUME NEW i \in 1 .. Len(ingress), ingress[i] \in M PROVE n < Len(ingress)
    <3>1. kept # 1 .. Len(ingress)
      BY <1>1, <2>4
    <3>2. n # Len(ingress)
      BY <2>1, <2>2, <3>1, FS_Subset
    <3>3. QED
      BY <2>3, <3>2
  <2>5. QED
    BY <2>3, <2>4
<1>3. PICK f \in Surjection(1 .. n, kept) :
        /\ \A i, j \in DOMAIN f : i < j => f[i] < f[j]
        /\ ingress' = [i \in DOMAIN f |-> ingress[f[i]]]
  BY DEF Splices
<1> HIDE DEF n
<1>4. f \in [1 .. n -> kept] /\ \A i \in kept : \E k \in 1 .. n : f[k] = i
  BY <1>3 DEF Surjection
<1>5. \A k \in 1 .. n : f[k] \in 1 .. Len(ingress) /\ ingress[f[k]] \notin M /\ ingress[f[k]] \in Messages
  BY <1>1, <1>4
<1>6. ingress' \in Seq(Messages) /\ Len(ingress') = n /\ \A k \in 1 .. n : ingress'[k] = ingress[f[k]]
  <2>1. ingress' = [k \in 1 .. n |-> ingress[f[k]]]
    BY <1>3, <1>4
  <2>2. QED
    BY <1>2, <1>5, <2>1
<1>7. \A i \in 1 .. Len(ingress) : ingress[i] \in M \/ \E k \in 1 .. n : f[k] = i
  BY <1>1, <1>4
<1>8. ASSUME NEW l \in Lanes, \A m \in M : LaneOf(m) # l PROVE Oldest(ingress', l) = NextOf(l)
  <2>1. CASE NextOf(l) = None
    <3>1. \A i \in 1 .. Len(ingress) : LaneOf(ingress[i]) # l
      BY <2>1, OldestIs DEF NextOf
    <3>2. \A k \in 1 .. Len(ingress') : LaneOf(ingress'[k]) # l
      BY <1>5, <1>6, <3>1
    <3>3. QED
      BY <1>6, <2>1, <3>2, OldestIs
  <2>2. CASE NextOf(l) # None
    <3>1. PICK i \in 1 .. Len(ingress) : /\ NextOf(l) = ingress[i] /\ LaneOf(ingress[i]) = l
                                         /\ \A j \in 1 .. i - 1 : LaneOf(ingress[j]) # l
      BY <2>2, OldestIs DEF NextOf
    <3>2. PICK k \in 1 .. n : f[k] = i
      BY <1>7, <1>8, <3>1
    <3>3. LaneOf(ingress'[k]) = l /\ ingress'[k] = ingress[i]
      BY <1>6, <3>1, <3>2
    <3>4. ASSUME NEW h \in 1 .. k - 1 PROVE LaneOf(ingress'[h]) # l
      <4>1. h \in 1 .. n /\ h < k /\ k \in 1 .. n
        BY <1>2, <3>2
      <4>2. f[h] < f[k] /\ f[h] \in 1 .. Len(ingress)
        BY <1>3, <1>4, <1>5, <4>1
      <4>3. f[h] \in 1 .. i - 1
        BY <1>1, <3>1, <3>2, <4>2
      <4>4. QED
        BY <1>6, <3>1, <4>1, <4>3
    <3>5. Oldest(ingress', l) # None
      BY <1>6, <3>2, <3>3, OldestIs
    <3>6. PICK j \in 1 .. n : /\ Oldest(ingress', l) = ingress'[j] /\ LaneOf(ingress'[j]) = l
                              /\ \A h \in 1 .. j - 1 : LaneOf(ingress'[h]) # l
      BY <1>6, <3>5, OldestIs
    <3>7. j = k
      <4>1. ~(j < k) /\ ~(k < j)
        BY <1>2, <3>2, <3>3, <3>4, <3>6
      <4>2. QED
        BY <1>2, <4>1
    <3>8. QED
      BY <3>1, <3>3, <3>6, <3>7
  <2>3. QED
    BY <2>1, <2>2
<1>9. QED
  BY <1>2, <1>5, <1>6, <1>7, <1>8

(* What the pump adds.                                                     *)
PumpedLane(l, on, e, ts, r) ==
  \/ on /\ Ready(l, e, r) /\ tasks'[l] = Append(ts[l], <<NextOf(l), e[NextOf(l)].rev>>)
  \/ ~(on /\ Ready(l, e, r)) /\ tasks'[l] = ts[l]

LEMMA PumpIs ==
  ASSUME ingress \in Seq(Messages), NEW on \in BOOLEAN, NEW e \in [Messages -> RowType],
         NEW ts \in [Lanes -> Seq(Messages \X Nat)], NEW r \in SUBSET Messages, Pump(on, e, ts, r)
  PROVE  /\ tasks' \in [Lanes -> Seq(Messages \X Nat)] /\ running' \subseteq Messages /\ r \subseteq running'
         /\ \A l \in Lanes : PumpedLane(l, on, e, ts, r)
         /\ \A m \in running' : m \in r \/ (on /\ m = NextOf(LaneOf(m)) /\ Ready(LaneOf(m), e, r))
         /\ \A l \in Lanes : on /\ Ready(l, e, r) => NextOf(l) \in running'
         /\ on \/ (stalled => stalled')
         /\ \A l \in Lanes : NextOf(l) # None =>
              NextOf(l) \in Messages /\ LaneOf(NextOf(l)) = l /\ \E i \in 1 .. Len(ingress) : ingress[i] = NextOf(l)
<1> DEFINE ready == {l \in Lanes : on /\ Ready(l, e, r)}
<1>1. /\ tasks' = [l \in Lanes |-> IF l \in ready THEN Append(ts[l], <<NextOf(l), e[NextOf(l)].rev>>) ELSE ts[l]]
      /\ running' = r \cup {NextOf(l) : l \in ready}
  BY DEF Pump
<1>2. \A l \in Lanes : NextOf(l) # None =>
        NextOf(l) \in Messages /\ LaneOf(NextOf(l)) = l /\ \E i \in 1 .. Len(ingress) : ingress[i] = NextOf(l)
  <2> SUFFICES ASSUME NEW l \in Lanes, NextOf(l) # None
               PROVE  NextOf(l) \in Messages /\ LaneOf(NextOf(l)) = l /\ \E i \in 1 .. Len(ingress) : ingress[i] = NextOf(l)
    OBVIOUS
  <2>1. PICK i \in 1 .. Len(ingress) : NextOf(l) = ingress[i] /\ LaneOf(ingress[i]) = l
    BY OldestIs DEF NextOf
  <2>2. QED
    BY <2>1
<1>3. \A l \in ready : NextOf(l) \in Messages /\ LaneOf(NextOf(l)) = l /\ e[NextOf(l)].rev \in Nat
  BY <1>2 DEF Ready, RowType
<1>4. ASSUME NEW l \in Lanes
      PROVE  /\ tasks'[l] \in Seq(Messages \X Nat) /\ PumpedLane(l, on, e, ts, r)
             /\ on /\ Ready(l, e, r) => NextOf(l) \in running'
  <2>1. CASE l \in ready
    <3>1. tasks'[l] = Append(ts[l], <<NextOf(l), e[NextOf(l)].rev>>)
      BY <1>1, <2>1
    <3>2. <<NextOf(l), e[NextOf(l)].rev>> \in Messages \X Nat /\ ts[l] \in Seq(Messages \X Nat)
      BY <1>3, <2>1
    <3>3. Append(ts[l], <<NextOf(l), e[NextOf(l)].rev>>) \in Seq(Messages \X Nat)
      BY <3>2, AppendProperties
    <3>4. on /\ Ready(l, e, r) /\ NextOf(l) \in running'
      BY <1>1, <2>1
    <3>5. QED
      BY <3>1, <3>3, <3>4 DEF PumpedLane
  <2>2. CASE l \notin ready
    BY <1>1, <2>2 DEF PumpedLane
  <2>3. QED
    BY <2>1, <2>2
<1>5. tasks' \in [Lanes -> Seq(Messages \X Nat)]
  <2>1. tasks' = [l \in Lanes |-> tasks'[l]]
    BY <1>1
  <2>2. QED
    BY <1>4, <2>1
<1>6. running' \subseteq Messages /\ r \subseteq running'
  BY <1>1, <1>3
<1>7. \A m \in running' : m \in r \/ (on /\ m = NextOf(LaneOf(m)) /\ Ready(LaneOf(m), e, r))
  BY <1>1, <1>3
<1>8. on \/ (stalled => stalled')
  BY DEF Pump
<1>9. QED
  BY <1>2, <1>4, <1>5, <1>6, <1>7, <1>8

(* The pump keeps the tasks of the dispatcher apart and starts every lane  *)
(* whose oldest message is neither running nor delayed.                    *)
PumpedTasks(on, e, ts) ==
  /\ tasks' \in [Lanes -> Seq(Messages \X Nat)] /\ running' \subseteq Messages
  /\ Dispatched(tasks', running') /\ KnownRevisions(tasks', e)
  /\ \A l \in Lanes : ts[l] # <<>> => tasks'[l] # <<>> /\ tasks'[l][1] = ts[l][1]
  /\ \A l \in Lanes : on /\ NextOf(l) # None => tasks'[l] # <<>> \/ e[NextOf(l)].delayed
  /\ on \/ (stalled => stalled')

LEMMA PumpDispatches ==
  ASSUME ingress \in Seq(Messages), NEW on \in BOOLEAN, NEW e \in [Messages -> RowType],
         NEW ts \in [Lanes -> Seq(Messages \X Nat)], NEW r \in SUBSET Messages, Pump(on, e, ts, r),
         Dispatched(ts, r), KnownRevisions(ts, e)
  PROVE  /\ PumpedTasks(on, e, ts)
         /\ \A m \in running' : m \in r \/ \E i \in 1 .. Len(ingress) : ingress[i] = m
<1>1. /\ tasks' \in [Lanes -> Seq(Messages \X Nat)] /\ running' \subseteq Messages /\ r \subseteq running'
      /\ \A l \in Lanes : PumpedLane(l, on, e, ts, r)
      /\ \A m \in running' : m \in r \/ (on /\ m = NextOf(LaneOf(m)) /\ Ready(LaneOf(m), e, r))
      /\ \A l \in Lanes : on /\ Ready(l, e, r) => NextOf(l) \in running'
      /\ \A l \in Lanes : NextOf(l) # None =>
           NextOf(l) \in Messages /\ LaneOf(NextOf(l)) = l /\ \E i \in 1 .. Len(ingress) : ingress[i] = NextOf(l)
  BY PumpIs
<1>2. \A l \in Lanes : ts[l] \in Seq(Messages \X Nat) /\ Len(ts[l]) \in Nat /\ (ts[l] # <<>> <=> Len(ts[l]) >= 1)
  OBVIOUS
<1>3. ASSUME NEW l \in Lanes
      PROVE  \/ tasks'[l] = ts[l] /\ ~(on /\ Ready(l, e, r))
             \/ /\ on /\ Ready(l, e, r) /\ Len(tasks'[l]) = Len(ts[l]) + 1
                /\ \A i \in 1 .. Len(ts[l]) : tasks'[l][i] = ts[l][i]
                /\ tasks'[l][Len(ts[l]) + 1] = <<NextOf(l), e[NextOf(l)].rev>>
  <2>1. CASE on /\ Ready(l, e, r)
    <3>1. tasks'[l] = Append(ts[l], <<NextOf(l), e[NextOf(l)].rev>>)
      BY <1>1, <2>1 DEF PumpedLane
    <3>2. <<NextOf(l), e[NextOf(l)].rev>> \in Messages \X Nat
      BY <1>1, <2>1 DEF Ready, RowType
    <3>3. QED
      BY <1>2, <2>1, <3>1, <3>2, AppendProperties
  <2>2. CASE ~(on /\ Ready(l, e, r))
    BY <1>1, <2>2 DEF PumpedLane
  <2>3. QED
    BY <2>1, <2>2
<1>4. Dispatched(tasks', running')
  <2>1. ASSUME NEW l \in Lanes, NEW i \in 1 .. Len(tasks'[l])
        PROVE  /\ LaneOf(tasks'[l][i][1]) = l /\ tasks'[l][i][1] \in running'
               /\ \A j \in 1 .. Len(tasks'[l]) : tasks'[l][j][1] = tasks'[l][i][1] => i = j
    <3>1. CASE tasks'[l] = ts[l]
      BY <1>1, <2>1, <3>1 DEF Dispatched
    <3>2. CASE /\ on /\ Ready(l, e, r) /\ Len(tasks'[l]) = Len(ts[l]) + 1
               /\ \A k \in 1 .. Len(ts[l]) : tasks'[l][k] = ts[l][k]
               /\ tasks'[l][Len(ts[l]) + 1] = <<NextOf(l), e[NextOf(l)].rev>>
      <4>1. LaneOf(NextOf(l)) = l /\ NextOf(l) \in running' /\ NextOf(l) \notin r
        BY <1>1, <3>2 DEF Ready
      <4>2. \A k \in 1 .. Len(ts[l]) : /\ tasks'[l][k] = ts[l][k] /\ LaneOf(ts[l][k][1]) = l
                                       /\ ts[l][k][1] \in r /\ ts[l][k][1] \in running' /\ ts[l][k][1] # NextOf(l)
        BY <1>1, <3>2, <4>1 DEF Dispatched
      <4>3. \A k \in 1 .. Len(ts[l]), j \in 1 .. Len(ts[l]) : ts[l][j][1] = ts[l][k][1] => k = j
        BY DEF Dispatched
      <4>4. tasks'[l][Len(ts[l]) + 1][1] = NextOf(l)
        BY <3>2
      <4>5. \A k \in 1 .. Len(tasks'[l]) : k \in 1 .. Len(ts[l]) \/ k = Len(ts[l]) + 1
        BY <1>2, <3>2
      <4>6. QED
        BY <4>1, <4>2, <4>3, <4>4, <4>5
    <3>3. QED
      BY <1>3, <3>1, <3>2
  <2>2. ASSUME NEW m \in running'
        PROVE  \E i \in 1 .. Len(tasks'[LaneOf(m)]) : tasks'[LaneOf(m)][i][1] = m
    <3>1. LaneOf(m) \in Lanes
      BY <1>1, MessageIs
    <3>2. CASE m \in r
      <4>1. PICK i \in 1 .. Len(ts[LaneOf(m)]) : ts[LaneOf(m)][i][1] = m
        BY <3>2 DEF Dispatched
      <4>2. PICK k \in Lanes : k = LaneOf(m)
        BY <3>1
      <4>3. Len(ts[k]) \in Nat /\ i \in 1 .. Len(ts[k])
        BY <1>2, <4>1, <4>2
      <4>4. i \in 1 .. Len(tasks'[k]) /\ tasks'[k][i] = ts[k][i]
        <5>1. CASE tasks'[k] = ts[k]
          BY <4>3, <5>1
        <5>2. CASE Len(tasks'[k]) = Len(ts[k]) + 1 /\ \A j \in 1 .. Len(ts[k]) : tasks'[k][j] = ts[k][j]
          BY <4>3, <5>2
        <5>3. QED
          BY <1>3, <5>1, <5>2
      <4>5. QED
        BY <4>1, <4>2, <4>4
    <3>3. CASE on /\ m = NextOf(LaneOf(m)) /\ Ready(LaneOf(m), e, r)
      <4> DEFINE last == Len(ts[LaneOf(m)]) + 1
      <4>1. last \in 1 .. Len(tasks'[LaneOf(m)]) /\ tasks'[LaneOf(m)][last][1] = m
        BY <1>2, <1>3, <3>1, <3>3
      <4>2. QED
        BY <4>1
    <3>4. QED
      BY <1>1, <3>2, <3>3
  <2>3. QED
    BY <2>1, <2>2 DEF Dispatched
<1>5. KnownRevisions(tasks', e)
  <2>1. ASSUME NEW l \in Lanes, NEW i \in 1 .. Len(tasks'[l]) PROVE tasks'[l][i][2] <= e[tasks'[l][i][1]].rev
    <3>1. CASE i \in 1 .. Len(ts[l])
      BY <1>3, <2>1, <3>1 DEF KnownRevisions
    <3>2. CASE i \notin 1 .. Len(ts[l])
      <4>1. on /\ Ready(l, e, r) /\ tasks'[l][i] = <<NextOf(l), e[NextOf(l)].rev>>
        BY <1>2, <1>3, <2>1, <3>2
      <4>2. e[NextOf(l)].rev \in Nat
        BY <1>1, <4>1 DEF Ready, RowType
      <4>3. QED
        BY <4>1, <4>2
    <3>3. QED
      BY <3>1, <3>2
  <2>2. QED
    BY <2>1 DEF KnownRevisions
<1>6. ASSUME NEW l \in Lanes, ts[l] # <<>> PROVE tasks'[l] # <<>> /\ tasks'[l][1] = ts[l][1]
  <2>1. CASE tasks'[l] = ts[l]
    BY <1>6, <2>1
  <2>2. CASE Len(tasks'[l]) = Len(ts[l]) + 1 /\ \A j \in 1 .. Len(ts[l]) : tasks'[l][j] = ts[l][j]
    <3>1. Len(ts[l]) \in Nat /\ Len(ts[l]) >= 1 /\ tasks'[l] \in Seq(Messages \X Nat)
      BY <1>1, <1>2, <1>6
    <3>2. tasks'[l] # <<>> /\ 1 \in 1 .. Len(ts[l])
      BY <2>2, <3>1
    <3>3. QED
      BY <2>2, <3>2
  <2>3. QED
    BY <1>3, <2>1, <2>2
<1>7. ASSUME NEW l \in Lanes, on, NextOf(l) # None PROVE tasks'[l] # <<>> \/ e[NextOf(l)].delayed
  <2>1. CASE Ready(l, e, r)
    BY <1>1, <1>2, <1>3, <1>7, <2>1
  <2>2. CASE NextOf(l) \in r
    <3>1. ts[l] # <<>>
      BY <1>1, <1>2, <1>7, <2>2 DEF Dispatched
    <3>2. QED
      BY <1>6, <3>1
  <2>3. QED
    BY <1>7, <2>1, <2>2 DEF Ready
<1>8. PumpedTasks(on, e, ts)
  <2>1. tasks' \in [Lanes -> Seq(Messages \X Nat)] /\ running' \subseteq Messages
    BY <1>1
  <2>2. \A l \in Lanes : ts[l] # <<>> => tasks'[l] # <<>> /\ tasks'[l][1] = ts[l][1]
    BY <1>6
  <2>3. \A l \in Lanes : on /\ NextOf(l) # None => tasks'[l] # <<>> \/ e[NextOf(l)].delayed
    BY <1>7
  <2>4. on \/ (stalled => stalled')
    BY DEF Pump
  <2>5. QED
    BY <1>4, <1>5, <2>1, <2>2, <2>3, <2>4 DEF PumpedTasks
<1>9. \A m \in running' : m \in r \/ \E i \in 1 .. Len(ingress) : ingress[i] = m
  BY <1>1, MessageIs
<1>10. QED
  BY <1>8, <1>9

(* The first task of a lane settles.                                       *)
TailAt(ts, l, j) == ts[l][j] = tasks[l][j + 1] /\ j + 1 \in 1 .. Len(tasks[l]) /\ j + 1 # 1
LEMMA TaskDropped ==
  ASSUME JournalType, WorkType, TasksInv, NEW l \in Lanes, tasks[l] # <<>>, NEW on \in BOOLEAN,
         Pump(on, entry, [tasks EXCEPT ![l] = Tail(@)], running \ {tasks[l][1][1]})
  PROVE  /\ PumpedTasks(on, entry, [tasks EXCEPT ![l] = Tail(@)])
         /\ \A m \in running' : m \in running \/ \E i \in 1 .. Len(ingress) : ingress[i] = m
<1> DEFINE ts == [tasks EXCEPT ![l] = Tail(tasks[l])]
           r == running \ {tasks[l][1][1]}
<1>1. /\ \A k \in Lanes : tasks[k] \in Seq(Messages \X Nat) /\ Len(tasks[k]) \in Nat
      /\ ts[l] = Tail(tasks[l]) /\ \A k \in Lanes \ {l} : ts[k] = tasks[k]
  BY DEF WorkType
<1>2. /\ Tail(tasks[l]) \in Seq(Messages \X Nat) /\ Len(Tail(tasks[l])) = Len(tasks[l]) - 1
      /\ \A i \in 1 .. Len(Tail(tasks[l])) : Tail(tasks[l])[i] = tasks[l][i + 1]
  BY <1>1, HeadTailProperties
<1>3. ts \in [Lanes -> Seq(Messages \X Nat)] /\ r \in SUBSET Messages
  BY <1>1, <1>2 DEF WorkType
<1>7. 1 \in 1 .. Len(tasks[l])
  <2>1. Len(tasks[l]) \in Nat /\ Len(tasks[l]) # 0
    BY <1>1
  <2>2. QED
    BY <2>1
<1>8. \A j \in 1 .. Len(ts[l]) : TailAt(ts, l, j)
  <2> TAKE j \in 1 .. Len(ts[l])
  <2>1. j \in 1 .. Len(Tail(tasks[l])) /\ Len(tasks[l]) \in Nat
    BY <1>1
  <2>2. Tail(tasks[l])[j] = tasks[l][j + 1]
    BY <1>2, <2>1
  <2>3. j + 1 \in 1 .. Len(tasks[l]) /\ j + 1 # 1
    BY <1>2, <2>1
  <2>4. QED
    BY <1>1, <2>2, <2>3 DEF TailAt
<1>4. Dispatched(ts, r)
  <2>1. ASSUME NEW k \in Lanes, NEW i \in 1 .. Len(ts[k])
        PROVE  /\ LaneOf(ts[k][i][1]) = k /\ ts[k][i][1] \in r
               /\ \A j \in 1 .. Len(ts[k]) : ts[k][j][1] = ts[k][i][1] => i = j
    <3>1. CASE k = l
      <4>1. 1 \in 1 .. Len(tasks[l]) /\ \A j \in 1 .. Len(ts[l]) : TailAt(ts, l, j)
        BY <1>7, <1>8
      <4>2. \A j \in 1 .. Len(ts[l]) : ts[l][j][1] # tasks[l][1][1]
        <5> TAKE j \in 1 .. Len(ts[l])
        <5>1. ts[l][j] = tasks[l][j + 1] /\ j + 1 \in 1 .. Len(tasks[l]) /\ j + 1 # 1
          BY <4>1 DEF TailAt
        <5>2. \A a, b \in 1 .. Len(tasks[l]) : tasks[l][a][1] = tasks[l][b][1] => a = b
          BY DEF TasksInv, Dispatched
        <5>3. tasks[l][j + 1][1] # tasks[l][1][1]
          BY <4>1, <5>1, <5>2
        <5>4. QED
          BY <5>1, <5>3
      <4>3. \A a, b \in 1 .. Len(tasks[l]) : tasks[l][a][1] = tasks[l][b][1] => a = b
        BY DEF TasksInv, Dispatched
      <4>4. \A j \in 1 .. Len(ts[l]) : ts[l][j][1] = ts[l][i][1] => i = j
        <5> TAKE j \in 1 .. Len(ts[l])
        <5> HAVE ts[l][j][1] = ts[l][i][1]
        <5>4. TailAt(ts, l, i) /\ TailAt(ts, l, j)
          BY <2>1, <3>1, <4>1
        <5>5. tasks[l][i + 1][1] = tasks[l][j + 1][1]
          BY <3>1, <5>4 DEF TailAt
        <5>1. i + 1 = j + 1
          BY <4>3, <5>4, <5>5 DEF TailAt
        <5>2. i \in Nat /\ j \in Nat
          BY <1>1, <1>2, <2>1, <3>1
        <5>3. QED
          BY <5>1, <5>2
      <4>5. LaneOf(ts[l][i][1]) = l /\ ts[l][i][1] \in running
        BY <2>1, <3>1, <4>1 DEF TasksInv, Dispatched, TailAt
      <4>6. QED
        BY <2>1, <3>1, <4>2, <4>4, <4>5
    <3>2. CASE k # l
      <4>1. ts[k] = tasks[k]
        BY <1>1, <3>2
      <4>2. LaneOf(tasks[l][1][1]) = l
        BY <1>7 DEF TasksInv, Dispatched
      <4>3. QED
        BY <2>1, <3>2, <4>1, <4>2 DEF TasksInv, Dispatched
    <3>3. QED
      BY <3>1, <3>2
  <2>2. ASSUME NEW m \in r PROVE \E i \in 1 .. Len(ts[LaneOf(m)]) : ts[LaneOf(m)][i][1] = m
    <3>1. PICK i \in 1 .. Len(tasks[LaneOf(m)]) : tasks[LaneOf(m)][i][1] = m
      BY DEF TasksInv, Dispatched
    <3>2. LaneOf(m) \in Lanes
      BY <1>3, MessageIs
    <3>3. CASE LaneOf(m) = l
      <4>1. i # 1
        BY <2>2, <3>1, <3>3
      <4>2. i \in 1 .. Len(tasks[l]) /\ i # 1 /\ Len(tasks[l]) \in Nat /\ Len(ts[l]) = Len(tasks[l]) - 1
        BY <1>1, <1>2, <3>1, <3>3, <4>1
      <4>3. PICK j \in 1 .. Len(ts[l]) : j + 1 = i
        <5>1. i - 1 \in 1 .. Len(ts[l]) /\ (i - 1) + 1 = i
          BY <4>2
        <5>2. QED
          BY <5>1
      <4>4. ts[l][j] = tasks[l][i]
        BY <1>8, <4>3 DEF TailAt
      <4>5. QED
        BY <3>1, <3>3, <4>3, <4>4
    <3>4. CASE LaneOf(m) # l
      BY <1>1, <3>1, <3>2, <3>4
    <3>5. QED
      BY <3>3, <3>4
  <2>3. QED
    BY <2>1, <2>2 DEF Dispatched
<1>5. KnownRevisions(ts, entry)
  <2>1. ASSUME NEW k \in Lanes, NEW i \in 1 .. Len(ts[k]) PROVE ts[k][i][2] <= entry[ts[k][i][1]].rev
    <3>1. CASE k = l
      <4>1. ts[l][i] = tasks[l][i + 1] /\ i + 1 \in 1 .. Len(tasks[l])
        BY <1>8, <2>1, <3>1 DEF TailAt
      <4>2. QED
        BY <3>1, <4>1 DEF TasksInv, KnownRevisions
    <3>2. CASE k # l
      BY <1>1, <2>1, <3>2 DEF TasksInv, KnownRevisions
    <3>3. QED
      BY <3>1, <3>2
  <2>2. QED
    BY <2>1 DEF KnownRevisions
<1>6. Pump(on, entry, ts, r)
  OBVIOUS
<1> HIDE DEF ts, r
<1>9. /\ PumpedTasks(on, entry, ts)
      /\ \A m \in running' : m \in r \/ \E i \in 1 .. Len(ingress) : ingress[i] = m
  BY <1>3, <1>4, <1>5, <1>6, PumpDispatches DEF JournalType
<1>10. QED
  BY <1>9 DEF ts, r

-----------------------------------------------------------------------------
(* The mutation queue.                                                     *)
LEMMA Appended ==
  ASSUME NEW s \in Seq(Actors), Once(s), NEW a \in Actors, ~Contains(s, a) \/ a = Retry
  PROVE  /\ Append(s, a) \in Seq(Actors) /\ Once(Append(s, a)) /\ Append(s, a) # <<>>
         /\ s # <<>> => Head(Append(s, a)) = Head(s)
         /\ s = <<>> => Head(Append(s, a)) = a
         /\ \A b \in Actors : Contains(Append(s, a), b) <=> Contains(s, b) \/ b = a
<1> DEFINE t == Append(s, a)
<1>1. /\ t \in Seq(Actors) /\ Len(t) = Len(s) + 1 /\ Len(s) \in Nat /\ t[Len(s) + 1] = a
      /\ \A i \in 1 .. Len(s) : t[i] = s[i]
  BY AppendProperties
<1>2. \A i \in 1 .. Len(t) : i \in 1 .. Len(s) \/ i = Len(s) + 1
  BY <1>1
<1>3. \A i \in 1 .. Len(s) : s[i] # a \/ a = Retry
  BY DEF Contains
<1> HIDE DEF t
<1>4. Once(t)
  BY <1>1, <1>2, <1>3 DEF Once
<1>5. ASSUME NEW b \in Actors PROVE Contains(t, b) <=> Contains(s, b) \/ b = a
  <2>1. Contains(s, b) => Contains(t, b)
    BY <1>1 DEF Contains
  <2>2. b = a => Contains(t, b)
    <3>1. Len(s) + 1 \in 1 .. Len(t)
      BY <1>1
    <3>2. QED
      BY <1>1, <3>1 DEF Contains
  <2>3. Contains(t, b) => Contains(s, b) \/ b = a
    BY <1>1, <1>2 DEF Contains
  <2>4. QED
    BY <2>1, <2>2, <2>3
<1>6. t # <<>> /\ (s # <<>> => Head(t) = Head(s)) /\ (s = <<>> => Head(t) = a)
  <2>1. Len(t) # 0 /\ Head(t) = t[1]
    BY <1>1
  <2>2. s # <<>> => 1 \in 1 .. Len(s) /\ Head(s) = s[1]
    BY <1>1
  <2>3. s = <<>> => Len(s) = 0
    OBVIOUS
  <2>4. QED
    BY <1>1, <2>1, <2>2, <2>3
<1>7. QED
  BY <1>1, <1>4, <1>5, <1>6 DEF t

LEMMA Popped ==
  ASSUME NEW s \in Seq(Actors), Once(s), s # <<>>
  PROVE  /\ Tail(s) \in Seq(Actors) /\ Once(Tail(s)) /\ Head(s) \in Actors
         /\ \A b \in Actors : Contains(Tail(s), b) => Contains(s, b)
         /\ \A b \in Actors : Contains(s, b) => Contains(Tail(s), b) \/ b = Head(s)
         /\ Head(s) # Retry => ~Contains(Tail(s), Head(s))
         /\ Contains(s, Head(s))
<1> DEFINE t == Tail(s)
<1>1. /\ t \in Seq(Actors) /\ Len(t) = Len(s) - 1 /\ Len(s) \in Nat /\ Len(s) >= 1 /\ Head(s) = s[1]
      /\ \A i \in 1 .. Len(t) : t[i] = s[i + 1]
  BY HeadTailProperties
<1> HIDE DEF t
<1>2. \A i \in 1 .. Len(t) : t[i] = s[i + 1] /\ i + 1 \in 1 .. Len(s) /\ i + 1 # 1 /\ i \in Nat
  BY <1>1
<1>3. Once(t)
  <2>1. ASSUME NEW i \in 1 .. Len(t), NEW j \in 1 .. Len(t), t[i] = t[j], t[i] # Retry PROVE i = j
    <3>1. i + 1 = j + 1
      BY <1>2, <2>1 DEF Once
    <3>2. QED
      BY <1>2, <3>1
  <2>2. QED
    BY <2>1 DEF Once
<1>4. 1 \in 1 .. Len(s) /\ Head(s) \in Actors /\ Contains(s, Head(s))
  BY <1>1 DEF Contains
<1>5. ASSUME NEW b \in Actors, Contains(t, b) PROVE Contains(s, b)
  <2>1. PICK i \in 1 .. Len(t) : t[i] = b
    BY <1>5 DEF Contains
  <2>2. QED
    BY <1>2, <2>1 DEF Contains
<1>6. ASSUME NEW b \in Actors, Contains(s, b), b # Head(s) PROVE Contains(t, b)
  <2>1. PICK i \in 1 .. Len(s) : s[i] = b
    BY <1>6 DEF Contains
  <2>2. i # 1
    BY <1>1, <1>6, <2>1
  <2>3. PICK j \in 1 .. Len(t) : j + 1 = i
    <3>1. i - 1 \in 1 .. Len(t) /\ (i - 1) + 1 = i
      BY <1>1, <2>2
    <3>2. QED
      BY <3>1
  <2>4. QED
    BY <1>2, <2>1, <2>3 DEF Contains
<1>7. ASSUME Head(s) # Retry, Contains(t, Head(s)) PROVE FALSE
  <2>1. PICK i \in 1 .. Len(t) : t[i] = Head(s)
    BY <1>7 DEF Contains
  <2>2. i + 1 = 1
    BY <1>1, <1>2, <1>4, <1>7, <2>1 DEF Once
  <2>3. QED
    BY <1>2, <2>2
<1>8. QED
  BY <1>1, <1>3, <1>4, <1>5, <1>6, <1>7 DEF t

LEMMA Requeued ==
  ASSUME NEW s \in Seq(Actors), Once(s), s # <<>>, Head(s) # Retry
  PROVE  /\ Append(Tail(s), Head(s)) \in Seq(Actors) /\ Once(Append(Tail(s), Head(s)))
         /\ Append(Tail(s), Head(s)) # <<>>
         /\ \A b \in Actors : Contains(Append(Tail(s), Head(s)), b) <=> Contains(s, b)
  BY Appended, Popped

-----------------------------------------------------------------------------
(* The steps of a turn between its mutations, in two forms: the task ends, *)
(* or the turn goes on, to a wait or into the queue of mutations.          *)
TurnFrame(l) ==
  /\ UNCHANGED <<posted, journal, control, callback, waiting, undo, stopped, disk>>
  /\ out \subseteq out' /\ pending' \in {pending, Snapshot}
  /\ tasks[l] # <<>> /\ turn[l].phase \notin Mutating
  /\ turn' \in [Lanes -> TurnType] /\ \A k \in Lanes \ {l} : turn'[k] = turn[k]
Ended(l) ==
  /\ UNCHANGED mutations /\ turn'[l].phase = "idle"
  /\ Pump(durable, entry, [tasks EXCEPT ![l] = Tail(@)], running \ {tasks[l][1][1]})
Knows(t, o) ==
  LET row == entry[t.msg] IN row.rev = t.rev =>
  /\ row.ver = t.ver
  /\ t.phase \in Fresh => row.box = NoOutbox
  /\ t.phase \in {"send", "part", "uploaded", "sent"} => row.box # NoOutbox
  /\ t.phase = "part" => <<t.msg, row.ver, row.box.next>> \in o
  /\ t.phase = "complete" => AnsweredIn(t.msg, o)
  /\ t.phase = "confirm" => IsStop(t.msg)
Went(l) ==
  /\ UNCHANGED <<tasks, running, stalled>>
  /\ turn'[l].phase \notin {"idle", "remove"}
  /\ turn'[l].msg = tasks[l][1][1] /\ turn'[l].rev = tasks[l][1][2]
  /\ Knows(turn'[l], out')
  /\ IF turn'[l].phase \in Mutating THEN mutations' = Append(mutations, l) ELSE UNCHANGED mutations
Moves(l) == TurnFrame(l) /\ (Ended(l) \/ Went(l))

TurnTypes == JournalType /\ WorkType /\ TasksInv /\ TurnsInv /\ ClaimsInv

(* What the first task of a turn that is not idle is.                      *)
LEMMA TurnIs ==
  ASSUME TurnTypes, NEW l \in Lanes, ~At(l, "idle")
  PROVE  /\ tasks[l] # <<>> /\ turn[l].msg = tasks[l][1][1] /\ turn[l].rev = tasks[l][1][2]
         /\ turn[l].msg \in Messages /\ turn[l].msg \in running /\ turn[l].msg \in seen
         /\ LaneOf(turn[l].msg) = l
         /\ turn[l].rev <= RowOf(l).rev /\ RowOf(l) \in RowType /\ turn[l] \in TurnType
<1>1. tasks[l] # <<>> /\ tasks[l][1] = <<turn[l].msg, turn[l].rev>>
  BY DEF TurnTypes, TasksInv
<1>2. turn[l].msg = tasks[l][1][1] /\ turn[l].rev = tasks[l][1][2]
  BY <1>1
<1>3. 1 \in 1 .. Len(tasks[l]) /\ tasks[l] \in Seq(Messages \X Nat)
  BY <1>1 DEF TurnTypes, WorkType
<1>4. tasks[l][1][1] \in running /\ LaneOf(tasks[l][1][1]) = l /\ tasks[l][1][2] <= entry[tasks[l][1][1]].rev
  BY <1>3 DEF TurnTypes, TasksInv, Dispatched, KnownRevisions
<1>5. running \subseteq seen /\ running \subseteq Messages /\ entry \in [Messages -> RowType]
      /\ turn \in [Lanes -> TurnType]
  BY DEF TurnTypes, TasksInv, WorkType, JournalType
<1>6. QED
  BY <1>1, <1>2, <1>4, <1>5 DEF RowOf

(* A turn that only changes its phase, its file or its abort.              *)
LEMMA EndsMoves ==
  ASSUME TurnTypes, NEW l \in Lanes, turn[l].phase \in Waiting, EndsAt(l),
         UNCHANGED <<posted, journal, control, callback, waiting, undo, out, stopped, pending, disk>>
  PROVE  Moves(l)
<1>1. tasks[l] # <<>> /\ turn[l].msg = tasks[l][1][1] /\ turn[l].phase \notin Mutating
  BY TurnIs DEF At, Waiting, Mutating
<1>2. turn' = [turn EXCEPT ![l] = NoTurn] /\ UNCHANGED mutations
      /\ Pump(durable, entry, [tasks EXCEPT ![l] = Tail(@)], running \ {turn[l].msg})
  BY DEF EndsAt, TaskEnds
<1>3. NoTurn \in TurnType /\ NoTurn.phase = "idle"
  BY ConstantsAssumption DEF NoTurn, TurnType, Deleted
<1>4. turn' \in [Lanes -> TurnType] /\ turn'[l] = NoTurn /\ \A k \in Lanes \ {l} : turn'[k] = turn[k]
  BY <1>2, <1>3 DEF TurnTypes, WorkType
<1>5. TurnFrame(l)
  BY <1>1, <1>4 DEF TurnFrame
<1>6. Ended(l)
  BY <1>1, <1>2, <1>3, <1>4 DEF Ended
<1>7. QED
  BY <1>5, <1>6 DEF Moves

(* The turn of l keeps its message, revision and version.                  *)
Becomes(l, phase) ==
  /\ turn' \in [Lanes -> TurnType] /\ \A k \in Lanes \ {l} : turn'[k] = turn[k]
  /\ turn'[l].phase = phase /\ turn'[l].msg = turn[l].msg /\ turn'[l].rev = turn[l].rev
  /\ turn'[l].ver = turn[l].ver

LEMMA GoesIs ==
  ASSUME WorkType, NEW l \in Lanes, NEW phase \in Waiting \cup Mutating, Goes(l, phase)
  PROVE  Becomes(l, phase)
<1>1. turn' = [turn EXCEPT ![l] = [turn[l] EXCEPT !.phase = phase]]
  BY DEF Goes
<1>2. turn[l] \in TurnType /\ turn \in [Lanes -> TurnType]
  BY DEF WorkType
<1>3. [turn[l] EXCEPT !.phase = phase] \in TurnType
  BY <1>2 DEF TurnType
<1>4. QED
  BY <1>1, <1>2, <1>3 DEF Becomes, TurnType

LEMMA GoesMoves ==
  ASSUME TurnTypes, NEW l \in Lanes, turn[l].phase \in Waiting,
         NEW phase \in (Waiting \cup Mutating) \ {"remove"}, Becomes(l, phase),
         IF phase \in Mutating THEN mutations' = Append(mutations, l) ELSE UNCHANGED mutations,
         UNCHANGED <<tasks, running, stalled>>, Knows(turn'[l], out'),
         UNCHANGED <<posted, journal, control, callback, waiting, undo, stopped, disk>>,
         out \subseteq out', pending' \in {pending, Snapshot}
  PROVE  Moves(l)
<1>1. /\ tasks[l] # <<>> /\ turn[l].msg = tasks[l][1][1] /\ turn[l].rev = tasks[l][1][2]
      /\ turn[l].phase \notin Mutating
  BY TurnIs DEF At, Waiting, Mutating
<1>2. TurnFrame(l)
  BY <1>1 DEF TurnFrame, Becomes
<1>3. Went(l)
  BY <1>1 DEF Went, Becomes, Waiting, Mutating
<1>4. QED
  BY <1>2, <1>3 DEF Moves

LEMMA AnsweredByParts ==
  ASSUME NEW m \in Messages, NEW v \in 0 .. Deleted, NEW o, \A part \in 1 .. Parts : <<m, v, part>> \in o
  PROVE  AnsweredIn(m, o)
  BY ConstantsAssumption DEF AnsweredIn

(* The first step of a task.                                               *)
LEMMA TaskStartsMoves ==
  ASSUME TurnTypes, NEW l \in Lanes, TaskStarts(l)
  PROVE  Moves(l)
<1> DEFINE m == tasks[l][1][1]
           rev == tasks[l][1][2]
           starts == [NoTurn EXCEPT !.msg = m, !.rev = rev, !.ver = entry[m].ver]
<1>1. /\ tasks[l] # <<>> /\ turn[l].phase = "idle" /\ turn \in [Lanes -> TurnType]
      /\ UNCHANGED <<posted, journal, control, callback, waiting, undo, out, stopped, pending, disk>>
  BY DEF TaskStarts, At, effects, TurnTypes, WorkType
<1>2. m \in Messages /\ rev \in Nat /\ Head(tasks[l]) = tasks[l][1] /\ entry[m] \in RowType
  <2>1. tasks[l] \in Seq(Messages \X Nat) /\ 1 \in 1 .. Len(tasks[l])
    BY <1>1 DEF TurnTypes, WorkType
  <2>2. tasks[l][1] \in Messages \X Nat /\ Head(tasks[l]) = tasks[l][1]
    BY <2>1
  <2>3. QED
    BY <2>2 DEF TurnTypes, JournalType
<1>3. /\ \A phase : [starts EXCEPT !.phase = phase].msg = m
      /\ \A phase : [starts EXCEPT !.phase = phase].rev = rev
      /\ \A phase : [starts EXCEPT !.phase = phase].ver = entry[m].ver
      /\ \A phase : [starts EXCEPT !.phase = phase].phase = phase
  BY DEF NoTurn
<1>4. \A phase \in Waiting \cup Mutating : [starts EXCEPT !.phase = phase] \in TurnType
  BY <1>2 DEF NoTurn, TurnType, RowType
<1>5. HonestRow(m, entry[m], out)
  BY <1>2 DEF TurnTypes, ClaimsInv, Honest, Snapshot
<1> HIDE DEF m, rev, starts
<1>6. CASE /\ entry[m].done /\ turn' = [turn EXCEPT ![l] = [starts EXCEPT !.phase = "complete"]]
           /\ mutations' = Append(mutations, l) /\ UNCHANGED <<tasks, running, stalled>>
  <2>1. turn'[l] = [starts EXCEPT !.phase = "complete"] /\ turn' \in [Lanes -> TurnType]
        /\ \A k \in Lanes \ {l} : turn'[k] = turn[k]
    BY <1>1, <1>4, <1>6 DEF Mutating
  <2>2. turn'[l].phase = "complete" /\ turn'[l].msg = m /\ turn'[l].rev = rev /\ turn'[l].ver = entry[m].ver
    BY <1>3, <2>1
  <2>3. Knows(turn'[l], out')
    BY <1>1, <1>5, <1>6, <2>2 DEF Knows, Fresh, HonestRow
  <2>4. TurnFrame(l)
    BY <1>1, <2>1 DEF TurnFrame, Mutating
  <2>5. Went(l)
    BY <1>6, <2>2, <2>3 DEF Went, Mutating, m, rev
  <2>6. QED
    BY <2>4, <2>5 DEF Moves
<1>7. CASE /\ turn' = [turn EXCEPT ![l] = [starts EXCEPT !.phase = Plan(m)]]
           /\ UNCHANGED <<tasks, running, stalled, mutations>>
  <2>1. /\ Plan(m) \in {"confirm", "fetch", "send"} /\ (Plan(m) = "confirm" => IsStop(m))
        /\ (Plan(m) = "fetch" => entry[m].box = NoOutbox) /\ (Plan(m) = "send" => entry[m].box # NoOutbox)
    BY DEF Plan
  <2>2. turn'[l] = [starts EXCEPT !.phase = Plan(m)] /\ turn' \in [Lanes -> TurnType]
        /\ \A k \in Lanes \ {l} : turn'[k] = turn[k]
    BY <1>1, <1>4, <1>7, <2>1 DEF Waiting
  <2>3. turn'[l].phase = Plan(m) /\ turn'[l].msg = m /\ turn'[l].rev = rev /\ turn'[l].ver = entry[m].ver
    BY <1>3, <2>2
  <2>4. Knows(turn'[l], out')
    BY <2>1, <2>3 DEF Knows, Fresh
  <2>5. TurnFrame(l)
    BY <1>1, <2>2 DEF TurnFrame, Mutating
  <2>6. Went(l)
    BY <1>7, <2>1, <2>3, <2>4 DEF Went, Mutating, m, rev
  <2>7. QED
    BY <2>5, <2>6 DEF Moves
<1>8. CASE /\ turn' = turn /\ Pump(durable, entry, [tasks EXCEPT ![l] = Tail(@)], running \ {m})
           /\ UNCHANGED mutations
  <2>1. TurnFrame(l)
    BY <1>1, <1>8 DEF TurnFrame, Mutating
  <2>2. Ended(l)
    BY <1>1, <1>8 DEF Ended, m
  <2>3. QED
    BY <2>1, <2>2 DEF Moves
<1>9. QED
  BY <1>2, <1>6, <1>7, <1>8 DEF TaskStarts, m, rev, starts

Quietly == UNCHANGED <<posted, journal, control, callback, waiting, undo, stopped, disk>>

LEMMA FetchedMoves ==
  ASSUME TurnTypes, NEW l \in Lanes, Fetched(l)
  PROVE  Moves(l)
<1>1. /\ turn[l].phase = "fetch" /\ turn[l].phase \in Waiting /\ ~At(l, "idle")
      /\ Quietly /\ UNCHANGED <<out, pending>>
  BY DEF Fetched, At, Waiting, effects, Quietly
<1>2. RowOf(l).rev = turn[l].rev => RowOf(l).ver = turn[l].ver /\ RowOf(l).box = NoOutbox
  BY <1>1 DEF TurnTypes, TurnsInv, TurnKnows, Fresh, At
<1>3. CASE EndsAt(l)
  BY <1>1, <1>3, EndsMoves DEF Quietly
<1>4. CASE Mutates(l, "begin") /\ UNCHANGED <<tasks, running, stalled>>
  <2>1. Becomes(l, "begin")
    BY <1>4, GoesIs DEF TurnTypes, Mutates, Mutating
  <2>2. Knows(turn'[l], out')
    BY <1>2, <2>1 DEF Becomes, Knows, RowOf
  <2>3. QED
    BY <1>1, <1>4, <2>1, <2>2, GoesMoves DEF Mutates, Mutating, Quietly
<1>5. CASE Goes(l, "brain") /\ UNCHANGED <<tasks, running, stalled, mutations>>
  <2>1. Becomes(l, "brain")
    BY <1>5, GoesIs DEF TurnTypes, Waiting
  <2>2. Knows(turn'[l], out')
    BY <1>2, <2>1 DEF Becomes, Knows, RowOf
  <2>3. QED
    BY <1>1, <1>5, <2>1, <2>2, GoesMoves DEF Waiting, Mutating, Quietly
<1>6. QED
  BY <1>3, <1>4, <1>5 DEF Fetched

LEMMA AnalyzedMoves ==
  ASSUME TurnTypes, NEW l \in Lanes, Analyzed(l)
  PROVE  Moves(l)
<1>1. /\ turn[l].phase = "analyze" /\ turn[l].phase \in Waiting /\ ~At(l, "idle")
      /\ Quietly /\ UNCHANGED <<out, pending>>
  BY DEF Analyzed, At, Waiting, effects, Quietly
<1>2. RowOf(l).rev = turn[l].rev => RowOf(l).ver = turn[l].ver /\ RowOf(l).box = NoOutbox
  BY <1>1 DEF TurnTypes, TurnsInv, TurnKnows, Fresh, At
<1>3. CASE EndsAt(l)
  BY <1>1, <1>3, EndsMoves DEF Quietly
<1>4. CASE Mutates(l, "result") /\ UNCHANGED <<tasks, running, stalled>>
  <2>1. Becomes(l, "result")
    BY <1>4, GoesIs DEF TurnTypes, Mutates, Mutating
  <2>2. Knows(turn'[l], out')
    BY <1>2, <2>1 DEF Becomes, Knows, RowOf
  <2>3. QED
    BY <1>1, <1>4, <2>1, <2>2, GoesMoves DEF Mutates, Mutating, Quietly
<1>5. QED
  BY <1>3, <1>4 DEF Analyzed

LEMMA BrainAnswersMoves ==
  ASSUME TurnTypes, NEW l \in Lanes, BrainAnswers(l)
  PROVE  Moves(l)
<1>1. /\ turn[l].phase = "brain" /\ turn[l].phase \in Waiting /\ ~At(l, "idle")
      /\ Quietly /\ UNCHANGED <<out, pending>>
  BY DEF BrainAnswers, At, Waiting, effects, Quietly
<1>2. RowOf(l).rev = turn[l].rev => RowOf(l).ver = turn[l].ver /\ RowOf(l).box = NoOutbox
  BY <1>1 DEF TurnTypes, TurnsInv, TurnKnows, Fresh, At
<1>3. CASE EndsAt(l)
  BY <1>1, <1>3, EndsMoves DEF Quietly
<1>4. ASSUME NEW file \in {"none", "staged"}, turn' = [turn EXCEPT ![l].phase = "prepare", ![l].file = file],
             mutations' = Append(mutations, l), UNCHANGED <<tasks, running, stalled>>
      PROVE  Moves(l)
  <2>1. Becomes(l, "prepare")
    <3>1. turn' = [turn EXCEPT ![l] = [turn[l] EXCEPT !.phase = "prepare", !.file = file]]
      BY <1>4
    <3>2. turn[l] \in TurnType /\ turn \in [Lanes -> TurnType]
      BY DEF TurnTypes, WorkType
    <3>3. [turn[l] EXCEPT !.phase = "prepare", !.file = file] \in TurnType
      BY <3>2 DEF TurnType, Mutating
    <3>4. QED
      BY <3>1, <3>2, <3>3 DEF Becomes, TurnType
  <2>2. Knows(turn'[l], out')
    BY <1>2, <2>1 DEF Becomes, Knows, RowOf
  <2>3. QED
    BY <1>1, <1>4, <2>1, <2>2, GoesMoves DEF Mutating, Quietly
<1>5. QED
  BY <1>3, <1>4 DEF BrainAnswers

LEMMA TurnFailsMoves ==
  ASSUME TurnTypes, NEW l \in Lanes, TurnFails(l)
  PROVE  Moves(l)
<1>1. /\ turn[l].phase \in Waiting /\ ~At(l, "idle") /\ Quietly /\ UNCHANGED <<out, pending>>
  BY DEF TurnFails, At, Waiting, effects, Quietly
<1>2. RowOf(l).rev = turn[l].rev => RowOf(l).ver = turn[l].ver
  BY <1>1 DEF TurnTypes, TurnsInv, TurnKnows
<1>3. CASE EndsAt(l)
  BY <1>1, <1>3, EndsMoves DEF Quietly
<1>4. ASSUME NEW phase \in {"defer", "dead"}, Mutates(l, phase), UNCHANGED <<tasks, running, stalled>>
      PROVE  Moves(l)
  <2>1. Becomes(l, phase)
    BY <1>4, GoesIs DEF TurnTypes, Mutates, Mutating
  <2>2. Knows(turn'[l], out')
    BY <1>2, <1>4, <2>1 DEF Becomes, Knows, RowOf, Fresh
  <2>3. QED
    BY <1>1, <1>4, <2>1, <2>2, GoesMoves DEF Mutates, Mutating, Quietly
<1>5. QED
  BY <1>3, <1>4 DEF TurnFails, Catch

LEMMA SendPartMoves ==
  ASSUME TurnTypes, NEW l \in Lanes, SendPart(l)
  PROVE  Moves(l)
<1>1. /\ turn[l].phase = "send" /\ turn[l].phase \in Waiting /\ ~At(l, "idle") /\ Quietly
  BY DEF SendPart, At, Waiting, Quietly
<1>2. RowOf(l).rev = turn[l].rev => RowOf(l).ver = turn[l].ver /\ RowOf(l).box # NoOutbox
  BY <1>1 DEF TurnTypes, TurnsInv, TurnKnows, At
<1>3. CASE EndsAt(l) /\ UNCHANGED <<out, pending>>
  BY <1>1, <1>3, EndsMoves DEF Quietly
<1>4. CASE /\ Publishes(l, RowOf(l).box.next) /\ Mutates(l, "part") /\ UNCHANGED <<tasks, running, stalled>>
  <2>1. Becomes(l, "part")
    BY <1>4, GoesIs DEF TurnTypes, Mutates, Mutating
  <2>2. out' = out \cup {<<turn[l].msg, turn[l].ver, RowOf(l).box.next>>} /\ pending' = Snapshot
    BY <1>4 DEF Publishes
  <2>3. Knows(turn'[l], out')
    BY <1>2, <2>1, <2>2 DEF Becomes, Knows, RowOf, Fresh
  <2>4. QED
    BY <1>1, <1>4, <2>1, <2>2, <2>3, GoesMoves DEF Mutates, Mutating, Quietly
<1>5. QED
  BY <1>3, <1>4 DEF SendPart, RowOf

LEMMA ConfirmMoves ==
  ASSUME TurnTypes, NEW l \in Lanes, Confirm(l)
  PROVE  Moves(l)
<1>1. /\ turn[l].phase = "confirm" /\ turn[l].phase \in Waiting /\ ~At(l, "idle") /\ Quietly
  BY DEF Confirm, At, Waiting, Quietly
<1>2. RowOf(l).rev = turn[l].rev => RowOf(l).ver = turn[l].ver /\ IsStop(turn[l].msg)
  BY <1>1 DEF TurnTypes, TurnsInv, TurnKnows, At
<1>3. CASE EndsAt(l) /\ UNCHANGED <<out, pending>>
  BY <1>1, <1>3, EndsMoves DEF Quietly
<1>4. CASE Publishes(l, 1) /\ EndsAt(l)
  <2>1. /\ tasks[l] # <<>> /\ turn[l].msg = tasks[l][1][1] /\ turn[l].phase \notin Mutating
    BY <1>1, TurnIs DEF Mutating
  <2>2. turn' = [turn EXCEPT ![l] = NoTurn] /\ UNCHANGED mutations
        /\ Pump(durable, entry, [tasks EXCEPT ![l] = Tail(@)], running \ {turn[l].msg})
    BY <1>4 DEF EndsAt, TaskEnds
  <2>3. NoTurn \in TurnType /\ NoTurn.phase = "idle"
    BY ConstantsAssumption DEF NoTurn, TurnType, Deleted
  <2>4. turn' \in [Lanes -> TurnType] /\ turn'[l] = NoTurn /\ \A k \in Lanes \ {l} : turn'[k] = turn[k]
    BY <2>2, <2>3 DEF TurnTypes, WorkType
  <2>5. TurnFrame(l)
    BY <1>1, <1>4, <2>1, <2>4 DEF TurnFrame, Publishes, Quietly
  <2>6. Ended(l)
    BY <2>1, <2>2, <2>3, <2>4 DEF Ended
  <2>7. QED
    BY <2>5, <2>6 DEF Moves
<1>5. CASE /\ Publishes(l, 1) /\ Current(turn[l].msg, turn[l].rev) /\ Mutates(l, "complete")
           /\ UNCHANGED <<tasks, running, stalled>>
  <2>1. Becomes(l, "complete")
    BY <1>5, GoesIs DEF TurnTypes, Mutates, Mutating
  <2>2. out' = out \cup {<<turn[l].msg, turn[l].ver, 1>>} /\ pending' = Snapshot
    BY <1>5 DEF Publishes
  <2>3. turn[l].ver \in 0 .. Deleted
    BY DEF TurnTypes, WorkType, TurnType
  <2>4. AnsweredIn(turn[l].msg, out')
    <3>1. IsStop(turn[l].msg)
      BY <1>2, <1>5 DEF Current, RowOf
    <3>2. \A part \in 1 .. 1 : <<turn[l].msg, turn[l].ver, part>> \in out'
      BY <2>2
    <3>3. QED
      BY <2>3, <3>1, <3>2 DEF AnsweredIn
  <2>5. Knows(turn'[l], out')
    BY <1>2, <2>1, <2>4 DEF Becomes, Knows, RowOf, Fresh
  <2>6. QED
    BY <1>1, <1>5, <2>1, <2>2, <2>5, GoesMoves DEF Mutates, Mutating, Quietly
<1>6. QED
  BY <1>3, <1>4, <1>5 DEF Confirm, MaySubmit

LEMMA FileMoves ==
  ASSUME TurnTypes, NEW l \in Lanes, Upload(l) \/ SendFile(l) \/ Delivered(l)
  PROVE  Moves(l)
<1>1. /\ turn[l].phase = "send" /\ turn[l].phase \in Waiting /\ ~At(l, "idle") /\ Quietly
      /\ PartsSent(l) /\ RowOf(l).rev = turn[l].rev /\ RowOf(l).box.next > Parts
  BY DEF Upload, SendFile, Delivered, PartsSent, Current, RowOf, At, Waiting, Quietly, effects
<1>2. RowOf(l).ver = turn[l].ver /\ RowOf(l).box # NoOutbox
  BY <1>1 DEF TurnTypes, TurnsInv, TurnKnows, At
<1>3. ASSUME NEW phase \in {"uploaded", "dead", "sent"}, Mutates(l, phase), UNCHANGED <<tasks, running, stalled>>,
             out \subseteq out', pending' \in {pending, Snapshot}
      PROVE  Moves(l)
  <2>1. Becomes(l, phase)
    BY <1>3, GoesIs DEF TurnTypes, Mutates, Mutating
  <2>2. Knows(turn'[l], out')
    BY <1>2, <1>3, <2>1 DEF Becomes, Knows, RowOf, Fresh
  <2>3. QED
    BY <1>1, <1>3, <2>1, <2>2, GoesMoves DEF Mutates, Mutating, Quietly
<1>4. CASE Upload(l)
  BY <1>3, <1>4 DEF Upload, effects
<1>5. CASE SendFile(l)
  BY <1>3, <1>5 DEF SendFile, Publishes
<1>6. CASE Delivered(l)
  <2>1. UNCHANGED <<out, pending>>
    BY <1>6 DEF Delivered, effects
  <2>2. CASE EndsAt(l)
    BY <1>1, <2>1, <2>2, EndsMoves DEF Quietly
  <2>3. CASE Mutates(l, "complete") /\ UNCHANGED <<tasks, running, stalled>>
    <3>1. Becomes(l, "complete")
      BY <2>3, GoesIs DEF TurnTypes, Mutates, Mutating
    <3>2. turn[l].msg \in Messages /\ RowOf(l) \in RowType
      BY <1>1, TurnIs
    <3>3. AnsweredIn(turn[l].msg, out)
      <4>1. HonestRow(turn[l].msg, RowOf(l), out)
        BY <3>2 DEF TurnTypes, ClaimsInv, Honest, Snapshot, RowOf
      <4>2. RowOf(l).ver \in 0 .. Deleted /\ RowOf(l).box.next \in Nat
        BY <3>2 DEF RowType
      <4>3. \A part \in 1 .. Parts : <<turn[l].msg, RowOf(l).ver, part>> \in out
        BY <1>1, <4>1, <4>2, ConstantsAssumption DEF HonestRow
      <4>4. QED
        BY <3>2, <4>2, <4>3, AnsweredByParts
    <3>4. Knows(turn'[l], out')
      BY <1>2, <2>1, <3>1, <3>3 DEF Becomes, Knows, RowOf, Fresh
    <3>5. QED
      BY <1>1, <2>1, <2>3, <3>1, <3>4, GoesMoves DEF Mutates, Mutating, Quietly
  <2>4. QED
    BY <1>6, <2>2, <2>3 DEF Delivered
<1>7. QED
  BY <1>4, <1>5, <1>6

LEMMA ActorsDiffer ==
  /\ Callback \in Actors /\ Retry \in Actors /\ Callback # Retry
  /\ \A l \in Lanes : l \in Actors /\ l # Callback /\ l # Retry
  BY ConstantsAssumption DEF Actors, Callback, Retry

LEMMA WaitsIs ==
  ASSUME QueueType, MutationsInv, NEW a \in Actors, HeadIs(a)
  PROVE  Contains(mutations, a) /\ mutations # <<>>
  BY Popped DEF HeadIs, QueueType, MutationsInv

LEMMA MovesQueue ==
  ASSUME JournalInv, NEW l \in Lanes, Moves(l)
  PROVE  /\ mutations' \in Seq(Actors) /\ Once(mutations')
         /\ \A a \in Actors : Waits(a)' <=> Waits(a)
         /\ \A a \in Actors : Contains(mutations, a) => Contains(mutations', a)
         /\ \A a \in Actors : a # l /\ Contains(mutations', a) => Contains(mutations, a)
         /\ ~Waits(l) /\ (Contains(mutations', l) => turn'[l].phase \in Mutating)
         /\ waiting' => mutations' # <<>>
<1>1. /\ mutations \in Seq(Actors) /\ Once(mutations) /\ ~Contains(mutations, l) /\ l \in Actors /\ waiting' = waiting
      /\ waiting => mutations # <<>>
  BY ActorsDiffer DEF JournalInv, QueueType, MutationsInv, Moves, TurnFrame, control
<1>2. ~Waits(l)
  BY <1>1, WaitsIs DEF JournalInv, Waits
<1>3. CASE mutations' = mutations
  BY <1>1, <1>2, <1>3 DEF Waits, HeadIs
<1>4. CASE mutations' = Append(mutations, l) /\ turn'[l].phase \in Mutating
  <2>1. /\ mutations' \in Seq(Actors) /\ Once(mutations') /\ mutations' # <<>>
        /\ mutations # <<>> => Head(mutations') = Head(mutations)
        /\ \A b \in Actors : Contains(mutations', b) <=> Contains(mutations, b) \/ b = l
    BY <1>1, <1>4, Appended
  <2>2. \A a \in Actors : Waits(a)' <=> Waits(a)
    BY <1>1, <2>1 DEF Waits, HeadIs
  <2>3. QED
    BY <1>1, <1>2, <1>4, <2>1, <2>2
<1>5. QED
  BY <1>3, <1>4 DEF Moves, Ended, Went

LEMMA AnsweredGrows ==
  ASSUME NEW m, NEW o, NEW q, o \subseteq q, AnsweredIn(m, o)
  PROVE  AnsweredIn(m, q)
  BY DEF AnsweredIn

LEMMA HonestGrows ==
  ASSUME NEW s \in SnapshotType, NEW o, NEW q, o \subseteq q, NEW st, NEW st2, st \subseteq st2,
         NEW p \in [Messages -> 0 .. Deleted], NEW p2 \in [Messages -> 0 .. Deleted],
         \A m \in Messages : p[m] <= p2[m], Honest(s, o, p, st)
  PROVE  Honest(s, q, p2, st2)
<1>1. \A m \in Messages : p[m] \in Nat /\ p2[m] \in Nat /\ s.life[m] \in Nat /\ s.seen \subseteq Messages
  BY ConstantsAssumption DEF SnapshotType, Deleted
<1>2. \A m \in Messages : s.life[m] <= p2[m]
  BY <1>1 DEF Honest
<1>3. ASSUME NEW m \in Messages PROVE HonestRow(m, s.entry[m], q)
  BY <1>3, AnsweredGrows DEF Honest, HonestRow
<1>4. ASSUME NEW m \in Messages, WithdrawnIn(m, p) PROVE WithdrawnIn(m, p2)
  <2>1. PICK v \in Gone : p[m] >= v
    BY <1>4 DEF WithdrawnIn
  <2>2. v \in Nat
    BY ConstantsAssumption DEF Gone, Deleted
  <2>3. p2[m] >= v
    BY <1>1, <2>1, <2>2
  <2>4. QED
    BY <2>3 DEF WithdrawnIn
<1>5. ASSUME NEW m \in s.seen
      PROVE  \/ \E i \in 1 .. Len(s.ingress) : s.ingress[i] = m
             \/ AnsweredIn(m, q) \/ WithdrawnIn(m, p2) \/ m \in st2 \/ m \in s.dead
  <2>1. m \in Messages
    BY <1>5 DEF SnapshotType
  <2>2. \/ \E i \in 1 .. Len(s.ingress) : s.ingress[i] = m
        \/ AnsweredIn(m, o) \/ WithdrawnIn(m, p) \/ m \in st \/ m \in s.dead
    BY <1>5 DEF Honest
  <2>3. QED
    BY <1>4, <2>1, <2>2, AnsweredGrows
<1>6. QED
  BY <1>2, <1>3, <1>5 DEF Honest

LEMMA SnapshotIs == JournalType => Snapshot \in SnapshotType
  BY DEF JournalType, Snapshot, SnapshotType

LEMMA AheadOfItself == JournalType => Ahead(Snapshot, seen, entry)
  BY DEF JournalType, RowType, Ahead, AheadRow, Snapshot

(* While only answers, revisions and stops are added, the three snapshots  *)
(* stay honest.                                                            *)
Grows ==
  /\ out \subseteq out' /\ stopped \subseteq stopped' /\ posted' \in [Messages -> 0 .. Deleted]
  /\ \A m \in Messages : posted[m] <= posted'[m]

LEMMA ClaimsGrow ==
  ASSUME JournalType, ClaimsInv, Grows
  PROVE  /\ Honest(Snapshot, out', posted', stopped') /\ Honest(disk, out', posted', stopped')
         /\ pending # None => Honest(pending, out', posted', stopped')
<1>1. Snapshot \in SnapshotType /\ disk \in SnapshotType /\ posted \in [Messages -> 0 .. Deleted]
      /\ (pending # None => pending \in SnapshotType)
  BY SnapshotIs DEF JournalType
<1>2. Honest(Snapshot, out', posted', stopped')
  BY <1>1, HonestGrows DEF ClaimsInv, Grows
<1>3. Honest(disk, out', posted', stopped')
  BY <1>1, HonestGrows DEF ClaimsInv, Grows
<1>4. pending # None => Honest(pending, out', posted', stopped')
  BY <1>1, HonestGrows DEF ClaimsInv, Grows
<1>5. QED
  BY <1>2, <1>3, <1>4

LEMMA ClaimsStay ==
  ASSUME JournalType, ClaimsInv, Grows, UNCHANGED <<journal, disk>>, pending' \in {pending, Snapshot}
  PROVE  ClaimsInv'
<1>1. Snapshot' = Snapshot /\ disk' = disk /\ seen' = seen /\ entry' = entry
  BY DEF Snapshot, journal
<1>2. Honest(Snapshot, out', posted', stopped') /\ Honest(disk, out', posted', stopped')
      /\ (pending # None => Honest(pending, out', posted', stopped'))
  BY ClaimsGrow
<1>3. Ahead(Snapshot, seen, entry)
  BY AheadOfItself
<1>4. pending' # None => Honest(pending', out', posted', stopped') /\ Ahead(pending', seen', entry')
  <2>1. CASE pending' = pending
    BY <1>1, <1>2, <2>1 DEF ClaimsInv
  <2>2. CASE pending' = Snapshot
    BY <1>1, <1>2, <1>3, <2>2
  <2>3. QED
    BY <2>1, <2>2
<1>5. Ahead(disk', seen', entry')
  BY <1>1 DEF ClaimsInv
<1>6. QED
  BY <1>1, <1>2, <1>4, <1>5 DEF ClaimsInv

(* A turn between its mutations keeps the invariant. When it pumps, every  *)
(* lane has a task or a timer, and the ghost of a retry that threw goes.   *)
Covered == durable' /\ \A k \in Lanes : NextOf(k) # None => tasks'[k] # <<>> \/ entry[NextOf(k)].delayed

LEMMA MovesKeepTasks ==
  ASSUME JournalInv, NEW l \in Lanes, Moves(l)
  PROVE  /\ WorkType' /\ TasksInv'
         /\ \A k \in Lanes : NextOf(k) # None /\ tasks[k] # <<>> =>
              tasks'[k] # <<>> \/ (durable /\ entry[NextOf(k)].delayed) \/ ~durable
         /\ (stalled => stalled') \/ Covered
<1>1. /\ JournalType /\ WorkType /\ TasksInv /\ entry' = entry /\ seen' = seen /\ tasks[l] # <<>>
      /\ turn' \in [Lanes -> TurnType] /\ \A k \in Lanes \ {l} : turn'[k] = turn[k]
      /\ ingress \in Seq(Messages) /\ durable \in BOOLEAN
  BY DEF JournalInv, Moves, TurnFrame, journal, JournalType, QueueType
<1>2. CASE Ended(l)
  <2>1. turn'[l].phase = "idle" /\ Pump(durable, entry, [tasks EXCEPT ![l] = Tail(@)], running \ {tasks[l][1][1]})
    BY <1>2 DEF Ended
  <2> DEFINE ts == [tasks EXCEPT ![l] = Tail(tasks[l])]
  <2>2. /\ PumpedTasks(durable, entry, ts)
        /\ \A m \in running' : m \in running \/ \E i \in 1 .. Len(ingress) : ingress[i] = m
    BY <1>1, <2>1, TaskDropped
  <2>3. \A k \in Lanes \ {l} : ts[k] = tasks[k]
    BY <1>1 DEF WorkType
  <2>4. running' \subseteq seen'
    <3>1. \A i \in 1 .. Len(ingress) : ingress[i] \in seen
      BY DEF JournalInv, ClaimsInv, Honest, Snapshot
    <3>2. running \subseteq seen
      BY <1>1 DEF TasksInv
    <3>3. QED
      BY <1>1, <2>2, <3>1, <3>2
  <2> HIDE DEF ts
  <2>5. ASSUME NEW k \in Lanes, turn'[k].phase # "idle"
        PROVE  tasks'[k] # <<>> /\ tasks'[k][1] = <<turn'[k].msg, turn'[k].rev>>
    <3>1. k # l /\ turn'[k] = turn[k]
      BY <1>1, <2>1, <2>5
    <3>2. tasks[k] # <<>> /\ tasks[k][1] = <<turn[k].msg, turn[k].rev>>
      BY <1>1, <2>5, <3>1 DEF TasksInv, At
    <3>3. ts[k] = tasks[k]
      BY <2>3, <3>1
    <3>4. QED
      BY <2>2, <3>1, <3>2, <3>3 DEF PumpedTasks
  <2>6. WorkType'
    BY <1>1, <2>2 DEF WorkType, PumpedTasks
  <2>7. TasksInv'
    BY <1>1, <2>2, <2>4, <2>5 DEF TasksInv, PumpedTasks, At
  <2>8. \A k \in Lanes : durable /\ NextOf(k) # None => tasks'[k] # <<>> \/ entry[NextOf(k)].delayed
    BY <2>2 DEF PumpedTasks
  <2>9. (stalled => stalled') \/ Covered
    <3>1. durable' = durable
      BY DEF Moves, TurnFrame, control
    <3>2. QED
      BY <2>2, <2>8, <3>1 DEF PumpedTasks, Covered
  <2>10. QED
    BY <1>1, <2>6, <2>7, <2>8, <2>9
<1>3. CASE Went(l)
  <2>1. /\ tasks' = tasks /\ running' = running /\ stalled' = stalled
        /\ turn'[l].msg = tasks[l][1][1] /\ turn'[l].rev = tasks[l][1][2]
    BY <1>3 DEF Went
  <2>2. WorkType'
    BY <1>1, <2>1 DEF WorkType
  <2>3. tasks[l][1] = <<turn'[l].msg, turn'[l].rev>>
    <3>1. tasks[l] \in Seq(Messages \X Nat) /\ 1 \in 1 .. Len(tasks[l])
      BY <1>1 DEF WorkType
    <3>2. tasks[l][1] \in Messages \X Nat
      BY <3>1
    <3>3. QED
      BY <2>1, <3>2
  <2>4. \A k \in Lanes : turn'[k].phase # "idle" => tasks'[k] # <<>> /\ tasks'[k][1] = <<turn'[k].msg, turn'[k].rev>>
    BY <1>1, <2>1, <2>3 DEF TasksInv, At
  <2>5. TasksInv'
    BY <1>1, <2>1, <2>4 DEF TasksInv, At
  <2>6. QED
    BY <2>1, <2>2, <2>5
<1>4. QED
  BY <1>2, <1>3 DEF Moves

LEMMA MovesKeepTurns ==
  ASSUME JournalInv, NEW l \in Lanes, Moves(l)
  PROVE  TurnsInv' /\ UndoInv'
<1>1. /\ entry' = entry /\ ingress' = ingress /\ seen' = seen /\ undo' = undo /\ out \subseteq out'
      /\ \A k \in Lanes \ {l} : turn'[k] = turn[k]
      /\ turn'[l].phase # "remove"
  BY DEF Moves, TurnFrame, journal, Ended, Went
<1>2. \A a \in Actors : Waits(a)' <=> Waits(a)
  BY MovesQueue
<1>3. ~Waits(l) /\ ~Waits(l)' /\ \A k \in Lanes : Waits(k)' <=> Waits(k)
  BY <1>2, MovesQueue, ActorsDiffer
<1>4. ASSUME NEW k \in Lanes \ {l}, turn[k].phase # "idle", RowOf(k)'.rev = turn'[k].rev PROVE TurnKnows(k)'
  <2>1. turn'[k] = turn[k] /\ RowOf(k)' = RowOf(k) /\ (Waits(k)' <=> Waits(k))
    BY <1>1, <1>3 DEF RowOf
  <2>2. TurnKnows(k)
    BY <1>4, <2>1 DEF JournalInv, TurnsInv, At
  <2>3. At(k, "complete") => AnsweredIn(turn[k].msg, out')
    BY <1>1, <2>2, AnsweredGrows DEF TurnKnows
  <2>4. QED
    BY <1>1, <2>1, <2>2, <2>3 DEF TurnKnows, At
<1>5. ASSUME turn'[l].phase # "idle", RowOf(l)'.rev = turn'[l].rev PROVE TurnKnows(l)'
  <2>1. Knows(turn'[l], out')
    BY <1>5 DEF Moves, Ended, Went
  <2>2. RowOf(l)' = entry[turn'[l].msg]
    BY <1>1 DEF RowOf
  <2>3. QED
    BY <1>3, <1>5, <2>1, <2>2 DEF Knows, TurnKnows, At
<1>6. ASSUME NEW k \in Lanes, turn'[k].phase = "complete", Waits(k)' PROVE AnsweredIn(turn'[k].msg, out')
  <2>1. k # l /\ turn'[k] = turn[k] /\ Waits(k)
    BY <1>1, <1>3, <1>6
  <2>2. AnsweredIn(turn[k].msg, out)
    BY <1>6, <2>1 DEF JournalInv, TurnsInv, At
  <2>3. QED
    BY <1>1, <2>1, <2>2, AnsweredGrows
<1>7. TurnsInv'
  BY <1>1, <1>4, <1>5, <1>6 DEF TurnsInv, At
<1>8. UndoInv'
  <2>1. ASSUME NEW k \in Lanes, Waits(k)' PROVE turn'[k] = turn[k] /\ Waits(k)
    BY <1>1, <1>3, <2>1
  <2>2. QED
    BY <1>1, <2>1 DEF UndoInv, JournalInv, At
<1>9. QED
  BY <1>7, <1>8

LEMMA MovesKeep ==
  ASSUME JournalInv, NEW l \in Lanes, Moves(l)
  PROVE  JournalInv'
<1>1. /\ JournalType /\ UNCHANGED <<posted, journal, control, callback, waiting, undo, stopped, disk>>
      /\ out \subseteq out' /\ pending' \in {pending, Snapshot}
      /\ \A k \in Lanes \ {l} : turn'[k] = turn[k]
      /\ turn'[l].phase # "remove"
  BY DEF JournalInv, Moves, TurnFrame, Ended, Went
<1>2. /\ mutations' \in Seq(Actors) /\ Once(mutations')
      /\ \A a \in Actors : Waits(a)' <=> Waits(a)
      /\ \A a \in Actors : Contains(mutations, a) => Contains(mutations', a)
      /\ \A a \in Actors : a # l /\ Contains(mutations', a) => Contains(mutations, a)
      /\ ~Waits(l) /\ (Contains(mutations', l) => turn'[l].phase \in Mutating)
      /\ waiting' => mutations' # <<>>
  BY MovesQueue
<1>3. JournalType'
  <2>1. Snapshot \in SnapshotType /\ Snapshot.ingress = ingress
    BY <1>1, SnapshotIs DEF Snapshot
  <2>2. pending' \in SnapshotType \cup {None} /\ (pending' # None => Len(pending'.ingress) <= IngressCap)
    BY <1>1, <2>1 DEF JournalType
  <2>3. QED
    BY <1>1, <2>2 DEF JournalType, journal
<1>4. QueueType'
  BY <1>1, <1>2 DEF JournalInv, QueueType, control
<1>5. MutationsInv'
  <2>1. Contains(mutations', Callback) => callback'.phase # "idle"
    BY <1>1, <1>2, ActorsDiffer DEF JournalInv, MutationsInv
  <2>2. \A k \in Lanes : Contains(mutations', k) => turn'[k].phase \in Mutating
    BY <1>1, <1>2, ActorsDiffer DEF JournalInv, MutationsInv
  <2>3. \A k \in Lanes : turn'[k].phase = "remove" => Waits(k)'
    BY <1>1, <1>2, ActorsDiffer DEF JournalInv, MutationsInv, At
  <2>4. QED
    BY <1>2, <2>1, <2>2, <2>3 DEF MutationsInv, At
<1>6. WorkType' /\ TasksInv' /\ TurnsInv' /\ UndoInv'
  BY MovesKeepTasks, MovesKeepTurns
<1>7. WakeInv'
  <2>1. durable' = durable /\ armed' = armed /\ callback' = callback /\ ingress' = ingress /\ entry' = entry
    BY <1>1 DEF journal, control
  <2>2. Retries => Retries' \/ Covered
    BY <1>2, <2>1, MovesKeepTasks, ActorsDiffer DEF Retries
  <2>3. Pumps => Pumps'
    BY <1>2, <2>1, ActorsDiffer DEF Pumps, HasRoom
  <2>4. ASSUME NEW k \in Lanes, NextOf(k)' # None PROVE Woken(k)'
    <3>1. NextOf(k)' = NextOf(k)
      BY <2>1 DEF NextOf
    <3>2. Woken(k)
      BY <2>4, <3>1 DEF JournalInv, WakeInv
    <3>3. NextOf(k) # None /\ tasks[k] # <<>> =>
              tasks'[k] # <<>> \/ (durable /\ entry[NextOf(k)].delayed) \/ ~durable
      BY MovesKeepTasks
    <3>4. ~durable => Retries
      BY DEF JournalInv, WakeInv
    <3>5. CASE Covered
      BY <2>1, <2>4, <3>1, <3>5 DEF Woken, Covered
    <3>6. QED
      BY <2>1, <2>2, <2>3, <2>4, <3>1, <3>2, <3>3, <3>4, <3>5 DEF Woken
  <2>5. Waits(Callback)' /\ callback'.phase = "cancel" => HasRoom'
    BY <1>2, <2>1, ActorsDiffer DEF JournalInv, WakeInv, HasRoom
  <2>6. ~durable' => Retries'
    BY <2>1, <2>2 DEF JournalInv, WakeInv, Covered
  <2>7. QED
    BY <2>4, <2>5, <2>6 DEF WakeInv
<1>8. ClaimsInv'
  <2>1. Grows
    <3>1. posted \in [Messages -> 0 .. Deleted] /\ \A m \in Messages : posted[m] \in Int
      BY <1>1, ConstantsAssumption DEF JournalType, Deleted
    <3>2. QED
      BY <1>1, <3>1 DEF Grows
  <2>2. QED
    BY <1>1, <2>1, ClaimsStay DEF JournalInv
<1>9. CallbackInv'
  BY <1>1, <1>2, ActorsDiffer DEF JournalInv, CallbackInv, journal
<1>10. QED
  BY <1>3, <1>4, <1>5, <1>6, <1>7, <1>8, <1>9 DEF JournalInv

(* When the memory changes: the rows that were claimed only rise, and the  *)
(* new memory is honest.                                                   *)
LEMMA AheadOf ==
  ASSUME NEW s \in SnapshotType
  PROVE  Ahead(s, s.seen, s.entry)
  BY DEF SnapshotType, RowType, Ahead, AheadRow

Rises == seen \subseteq seen' /\ \A m \in seen : AheadRow(entry[m], entry'[m])

LEMMA AheadRises ==
  ASSUME JournalType, JournalType', Rises, NEW s \in SnapshotType, Ahead(s, seen, entry)
  PROVE  Ahead(s, seen', entry')
<1>1. ASSUME NEW m \in s.seen PROVE AheadRow(s.entry[m], entry'[m])
  <2>1. m \in Messages /\ s.entry[m] \in RowType /\ entry[m] \in RowType /\ entry'[m] \in RowType
    BY <1>1 DEF SnapshotType, JournalType
  <2>2. AheadRow(s.entry[m], entry[m]) /\ AheadRow(entry[m], entry'[m])
    BY <1>1 DEF Ahead, Rises
  <2>3. s.entry[m].rev \in Nat /\ entry[m].rev \in Nat /\ entry'[m].rev \in Nat
    BY <2>1 DEF RowType
  <2>4. QED
    BY <2>2, <2>3 DEF AheadRow
<1>2. QED
  BY <1>1 DEF Ahead, Rises

LEMMA ClaimsMove ==
  ASSUME JournalType, JournalType', ClaimsInv, Grows, Rises, disk' = disk, pending' \in {pending, Snapshot'},
         Honest(Snapshot', out', posted', stopped')
  PROVE  ClaimsInv'
<1>1. /\ disk \in SnapshotType /\ (pending # None => pending \in SnapshotType)
      /\ Ahead(disk, seen, entry) /\ (pending # None => Ahead(pending, seen, entry))
  BY DEF JournalType, ClaimsInv
<1>2. Honest(disk, out', posted', stopped') /\ (pending # None => Honest(pending, out', posted', stopped'))
  BY ClaimsGrow
<1>3. Ahead(disk, seen', entry') /\ (pending # None => Ahead(pending, seen', entry'))
  BY <1>1, AheadRises
<1>4. Ahead(Snapshot', seen', entry')
  <2>1. Snapshot' \in SnapshotType
    BY DEF JournalType, Snapshot, SnapshotType
  <2>2. Snapshot'.seen = seen' /\ Snapshot'.entry = entry'
    BY DEF Snapshot
  <2>3. QED
    BY <2>1, <2>2, AheadOf
<1>5. pending' # None => Honest(pending', out', posted', stopped') /\ Ahead(pending', seen', entry')
  BY <1>2, <1>3, <1>4
<1>6. QED
  BY <1>2, <1>3, <1>5 DEF ClaimsInv

(* The memory is honest after a step that keeps the claims and the rows.   *)
LEMMA StaysHonest ==
  ASSUME JournalType, ClaimsInv, Grows, UNCHANGED <<ingress, entry, seen, life, dead>>
  PROVE  Honest(Snapshot', out', posted', stopped')
  BY ClaimsGrow DEF Snapshot

(* A step that leaves the turns where they are, and what it may do to the  *)
(* rows without a turn noticing it.                                        *)
SameTasks ==
  /\ UNCHANGED <<tasks, running>> /\ turn' \in [Lanes -> TurnType]
  /\ \A l \in Lanes : /\ turn'[l].phase = "idle" <=> turn[l].phase = "idle"
                      /\ turn'[l].msg = turn[l].msg /\ turn'[l].rev = turn[l].rev
SameTurns ==
  /\ turn' \in [Lanes -> TurnType]
  /\ \A l \in Lanes : /\ turn'[l].phase = turn[l].phase /\ turn'[l].msg = turn[l].msg
                      /\ turn'[l].rev = turn[l].rev /\ turn'[l].ver = turn[l].ver
SameRow(m) ==
  entry'[m].rev = entry[m].rev => entry'[m].ver = entry[m].ver /\ entry'[m].box = entry[m].box

LEMMA AbortedIs ==
  ASSUME WorkType, NEW M, turn' = Aborted(M)
  PROVE  SameTurns
<1>1. \A l \in Lanes : turn[l] \in TurnType
  BY DEF WorkType
<1>2. turn' = [l \in Lanes |-> IF turn[l].msg \in M /\ turn[l].phase \in Executing
                                 THEN [turn[l] EXCEPT !.abort = TRUE] ELSE turn[l]]
  BY DEF Aborted
<1>3. ASSUME NEW l \in Lanes
      PROVE  /\ turn'[l] \in TurnType /\ turn'[l].phase = turn[l].phase /\ turn'[l].msg = turn[l].msg
             /\ turn'[l].rev = turn[l].rev /\ turn'[l].ver = turn[l].ver
  <2>1. turn'[l] = [turn[l] EXCEPT !.abort = TRUE] \/ turn'[l] = turn[l]
    BY <1>2
  <2>2. QED
    BY <1>1, <2>1 DEF TurnType
<1>4. turn' \in [Lanes -> TurnType]
  <2>1. turn' = [l \in Lanes |-> turn'[l]]
    BY <1>2
  <2>2. QED
    BY <1>3, <2>1
<1>5. QED
  BY <1>3, <1>4 DEF SameTurns

LEMMA TasksStay ==
  ASSUME JournalType, JournalType', WorkType, TasksInv, Rises, SameTasks
  PROVE  WorkType' /\ TasksInv'
<1>1. tasks' = tasks /\ running' = running /\ WorkType'
  BY DEF SameTasks, WorkType
<1>2. KnownRevisions(tasks', entry')
  <2>1. ASSUME NEW l \in Lanes, NEW i \in 1 .. Len(tasks[l])
        PROVE  tasks[l][i][2] <= entry'[tasks[l][i][1]].rev
    <3>1. tasks[l][i] \in Messages \X Nat
      BY <2>1 DEF WorkType
    <3>2. tasks[l][i][2] <= entry[tasks[l][i][1]].rev /\ tasks[l][i][1] \in seen
      BY <2>1 DEF TasksInv, KnownRevisions, Dispatched
    <3>3. entry[tasks[l][i][1]].rev <= entry'[tasks[l][i][1]].rev
      BY <3>2 DEF Rises, AheadRow
    <3>4. entry[tasks[l][i][1]].rev \in Nat /\ entry'[tasks[l][i][1]].rev \in Nat /\ tasks[l][i][2] \in Nat
      BY <3>1 DEF JournalType, RowType
    <3>5. QED
      BY <3>2, <3>3, <3>4
  <2>2. QED
    BY <1>1, <2>1 DEF KnownRevisions
<1>3. \A l \in Lanes : turn'[l].phase # "idle" => tasks'[l] # <<>> /\ tasks'[l][1] = <<turn'[l].msg, turn'[l].rev>>
  BY <1>1 DEF SameTasks, TasksInv, At
<1>4. QED
  BY <1>1, <1>2, <1>3 DEF TasksInv, Rises, At

LEMMA TurnsStay ==
  ASSUME TurnTypes, SameTurns, Rises, out \subseteq out', \A m \in seen : SameRow(m),
         \A l \in Lanes : Waits(l)' <=> Waits(l)
  PROVE  TurnsInv'
<1>1. ASSUME NEW l \in Lanes, turn'[l].phase # "idle", RowOf(l)'.rev = turn'[l].rev PROVE TurnKnows(l)'
  <2>1. /\ turn'[l].phase = turn[l].phase /\ turn'[l].msg = turn[l].msg
        /\ turn'[l].rev = turn[l].rev /\ turn'[l].ver = turn[l].ver
    BY DEF SameTurns
  <2>2. turn[l].msg \in seen /\ turn[l].rev <= RowOf(l).rev /\ RowOf(l) \in RowType /\ turn[l].rev \in Nat
    BY <1>1, <2>1, TurnIs DEF At, TurnType
  <2>3. RowOf(l)' = entry'[turn[l].msg] /\ RowOf(l) = entry[turn[l].msg]
    BY <2>1 DEF RowOf
  <2>4. RowOf(l).rev <= RowOf(l)'.rev /\ RowOf(l).rev \in Nat
    BY <2>2, <2>3 DEF Rises, AheadRow, RowType
  <2>5. RowOf(l).rev = turn[l].rev /\ RowOf(l)'.rev = RowOf(l).rev
    BY <1>1, <2>1, <2>2, <2>4
  <2>6. RowOf(l)'.ver = RowOf(l).ver /\ RowOf(l)'.box = RowOf(l).box
    BY <2>2, <2>3, <2>5 DEF SameRow
  <2>7. TurnKnows(l)
    BY <1>1, <2>1, <2>5 DEF TurnTypes, TurnsInv, At
  <2>8. At(l, "complete") => AnsweredIn(turn[l].msg, out')
    BY <2>7, AnsweredGrows DEF TurnKnows
  <2>9. QED
    BY <2>1, <2>6, <2>7, <2>8 DEF TurnKnows, At
<1>2. ASSUME NEW l \in Lanes, turn[l].phase = "complete", Waits(l) PROVE AnsweredIn(turn[l].msg, out')
  BY <1>2, AnsweredGrows DEF TurnTypes, TurnsInv, At
<1>3. QED
  BY <1>1, <1>2 DEF TurnsInv, SameTurns, At

-----------------------------------------------------------------------------
(* Who waits after a step of the queue.                                    *)
LEMMA QueueGrows ==
  ASSUME QueueType, MutationsInv, NEW a \in Actors, ~Contains(mutations, a) \/ a = Retry,
         mutations' = Append(mutations, a), waiting' = waiting
  PROVE  /\ mutations' \in Seq(Actors) /\ Once(mutations') /\ mutations' # <<>>
         /\ \A b \in Actors : Waits(b)' <=> Waits(b)
         /\ \A b \in Actors : Contains(mutations', b) <=> Contains(mutations, b) \/ b = a
<1>1. /\ mutations' \in Seq(Actors) /\ Once(mutations') /\ mutations' # <<>>
      /\ mutations # <<>> => Head(mutations') = Head(mutations)
      /\ \A b \in Actors : Contains(mutations', b) <=> Contains(mutations, b) \/ b = a
  BY Appended DEF QueueType, MutationsInv
<1>2. \A b \in Actors : Waits(b)' <=> Waits(b)
  BY <1>1 DEF Waits, HeadIs, MutationsInv
<1>3. QED
  BY <1>1, <1>2

LEMMA QueueStarts ==
  ASSUME QueueType, MutationsInv, NEW a \in Actors, Runs(a), waiting' = TRUE, mutations' = mutations
  PROVE  /\ \A b \in Actors : ~Waits(b) /\ (Waits(b)' <=> b = a)
         /\ Contains(mutations, a) /\ mutations' # <<>>
  BY WaitsIs DEF Runs, Waits, HeadIs

LEMMA QueuePops ==
  ASSUME QueueType, MutationsInv, NEW a \in Actors, HeadIs(a), waiting' = FALSE, mutations' = Tail(mutations)
  PROVE  /\ mutations' \in Seq(Actors) /\ Once(mutations')
         /\ \A b \in Actors : ~Waits(b)' /\ (Waits(b) <=> b = a /\ waiting)
         /\ \A b \in Actors : Contains(mutations', b) => Contains(mutations, b)
         /\ \A b \in Actors : b # a /\ Contains(mutations, b) => Contains(mutations', b)
         /\ a # Retry => ~Contains(mutations', a)
         /\ Contains(mutations, a)
<1>1. mutations # <<>> /\ Head(mutations) = a
  BY DEF HeadIs
<1>2. mutations \in Seq(Actors) /\ Once(mutations)
  BY DEF QueueType, MutationsInv
<1>3. \A b \in Actors : ~Waits(b)' /\ (Waits(b) <=> b = a /\ waiting)
  BY <1>1 DEF Waits, HeadIs
<1>4. QED
  BY <1>1, <1>2, <1>3, Popped

LEMMA QueueRepeats ==
  ASSUME QueueType, MutationsInv, NEW a \in Actors, a # Retry, HeadIs(a), waiting' = FALSE,
         mutations' = Append(Tail(mutations), a)
  PROVE  /\ mutations' \in Seq(Actors) /\ Once(mutations') /\ mutations' # <<>>
         /\ \A b \in Actors : ~Waits(b)' /\ (Waits(b) <=> b = a /\ waiting)
         /\ \A b \in Actors : Contains(mutations', b) <=> Contains(mutations, b)
         /\ Contains(mutations, a)
<1>1. mutations # <<>> /\ Head(mutations) = a
  BY DEF HeadIs
<1>2. mutations \in Seq(Actors) /\ Once(mutations)
  BY DEF QueueType, MutationsInv
<1>3. \A b \in Actors : ~Waits(b)' /\ (Waits(b) <=> b = a /\ waiting)
  BY <1>1 DEF Waits, HeadIs
<1>4. Contains(mutations, a)
  BY <1>1, <1>2, Popped
<1>5. QED
  BY <1>1, <1>2, <1>3, <1>4, Requeued

LEMMA UndoQuiet ==
  ASSUME \A l \in Lanes : ~Waits(l)'
  PROVE  UndoInv'
  BY DEF UndoInv

LEMMA StillTurns == JournalInv /\ UNCHANGED turn => SameTurns
  BY DEF JournalInv, WorkType, SameTurns
LEMMA StillTasks == SameTurns /\ UNCHANGED <<tasks, running>> => SameTasks
  BY DEF SameTurns, SameTasks
LEMMA StillRows ==
  ASSUME JournalType, UNCHANGED entry, seen \subseteq seen'
  PROVE  Rises /\ \A m \in seen : SameRow(m)
  BY DEF JournalType, RowType, Rises, AheadRow, SameRow
LEMMA GrowsAlone ==
  ASSUME JournalType, out \subseteq out', stopped \subseteq stopped', posted' = posted
  PROVE  Grows
<1>1. posted \in [Messages -> 0 .. Deleted] /\ \A m \in Messages : posted[m] \in Int
  BY ConstantsAssumption DEF JournalType, Deleted
<1>2. QED
  BY <1>1 DEF Grows
LEMMA SnapshotPrimed == JournalType' => Snapshot' \in SnapshotType /\ Snapshot'.ingress = ingress'
  BY DEF JournalType, Snapshot, SnapshotType

-----------------------------------------------------------------------------
(* The store, the user and what comes in.                                  *)
LEMMA WriteKeeps ==
  ASSUME JournalInv, Write
  PROVE  JournalInv'
<1>1. /\ pending # None /\ disk' = pending /\ pending' = None
      /\ UNCHANGED <<posted, ingress, entry, seen, life, dead, durable, armed, callback, mutations, waiting, undo,
                     tasks, running, stalled, turn, out, stopped>>
  BY DEF Write, journal, control, work, effects
<1>2. JournalType'
  BY <1>1 DEF JournalInv, JournalType
<1>3. ClaimsInv'
  BY <1>1 DEF JournalInv, ClaimsInv, Snapshot
<1>4. QueueType' /\ WorkType' /\ CallbackInv' /\ UndoInv'
  BY <1>1 DEF JournalInv, QueueType, WorkType, CallbackInv, UndoInv, Waits, HeadIs, At
<1>5. MutationsInv' /\ TasksInv'
  BY <1>1 DEF JournalInv, MutationsInv, TasksInv, Waits, HeadIs, At
<1>6. WakeInv' /\ TurnsInv'
  BY <1>1 DEF JournalInv, WakeInv, TurnsInv, TurnKnows, Woken, Retries, Pumps, HasRoom, NextOf, RowOf, Waits, HeadIs, At
<1>7. QED
  BY <1>2, <1>3, <1>4, <1>5, <1>6 DEF JournalInv

LEMMA ReviseKeeps ==
  ASSUME JournalInv, NEW m \in Messages, Revise(m)
  PROVE  JournalInv'
<1>1. UNCHANGED <<ingress, entry, seen, life, dead, durable, armed, callback, mutations, waiting, undo,
                  tasks, running, stalled, turn, out, stopped, pending, disk>>
  BY DEF Revise, journal, control, work, effects
<1>2. PICK v \in posted[m] + 1 .. Deleted : posted' = [posted EXCEPT ![m] = v]
  BY DEF Revise
<1>3. posted \in [Messages -> 0 .. Deleted] /\ Deleted \in Nat
  BY ConstantsAssumption DEF JournalInv, JournalType, Deleted
<1>4. posted' \in [Messages -> 0 .. Deleted] /\ \A k \in Messages : posted[k] <= posted'[k]
  BY <1>2, <1>3
<1>5. JournalType'
  BY <1>1, <1>4 DEF JournalInv, JournalType
<1>6. ClaimsInv'
  BY <1>1, <1>4, ClaimsStay DEF Grows, journal, JournalInv
<1>7. QueueType' /\ WorkType' /\ CallbackInv' /\ UndoInv'
  BY <1>1 DEF JournalInv, QueueType, WorkType, CallbackInv, UndoInv, Waits, HeadIs, At
<1>8. MutationsInv' /\ TasksInv'
  BY <1>1 DEF JournalInv, MutationsInv, TasksInv, Waits, HeadIs, At
<1>9. WakeInv' /\ TurnsInv'
  BY <1>1 DEF JournalInv, WakeInv, TurnsInv, TurnKnows, Woken, Retries, Pumps, HasRoom, NextOf, RowOf, Waits, HeadIs, At
<1>10. QED
  BY <1>5, <1>6, <1>7, <1>8, <1>9 DEF JournalInv

(* A callback begins: it joins the queue.                                  *)
Joins(phase, m) ==
  /\ callback = Idle /\ m \in Messages /\ phase \in {"history", "admit", "cancel", "reconcile"}
  /\ CallbackGoes(phase, m)
  /\ phase = "history" => life'[m] \in Gone
  /\ phase \in {"admit", "cancel"} => m \notin seen
  /\ SameTurns /\ life' \in [Messages -> 0 .. Deleted] /\ \A k \in Messages : life'[k] <= posted[k]
  /\ UNCHANGED <<posted, ingress, entry, seen, dead, control, waiting, undo, tasks, running, stalled, effects, pending, disk>>

LEMMA JoinsKeep ==
  ASSUME JournalInv, NEW m, NEW phase, Joins(phase, m)
  PROVE  JournalInv'
<1>1. /\ callback = Idle /\ m \in Messages /\ phase \in {"history", "admit", "cancel", "reconcile"}
      /\ callback' = [phase |-> phase, msg |-> m] /\ mutations' = Append(mutations, Callback)
      /\ UNCHANGED <<posted, ingress, entry, seen, dead, durable, armed, waiting, undo, tasks, running, stalled, out, stopped,
                     pending, disk>>
      /\ SameTurns /\ SameTasks
  BY StillTasks DEF Joins, CallbackGoes, control, effects
<1>2. callback.phase = "idle" /\ ~Contains(mutations, Callback) /\ ~Waits(Callback)
  BY <1>1, WaitsIs, ActorsDiffer DEF Idle, JournalInv, MutationsInv, Waits
<1>3. /\ mutations' \in Seq(Actors) /\ Once(mutations') /\ mutations' # <<>>
      /\ \A b \in Actors : Waits(b)' <=> Waits(b)
      /\ \A b \in Actors : Contains(mutations', b) <=> Contains(mutations, b) \/ b = Callback
  BY <1>1, <1>2, QueueGrows, ActorsDiffer DEF JournalInv
<1>4. ~Waits(Callback)' /\ \A l \in Lanes : Waits(l)' <=> Waits(l)
  BY <1>2, <1>3, ActorsDiffer
<1>5. JournalType'
  BY <1>1 DEF Joins, JournalInv, JournalType
<1>6. QueueType'
  <2>1. callback' \in CallbackType /\ callback'.msg = m
    BY <1>1 DEF CallbackType
  <2>2. QED
    BY <1>1, <1>3, <2>1 DEF JournalInv, QueueType
<1>7. MutationsInv'
  <2>1. callback'.phase # "idle"
    BY <1>1
  <2>2. \A l \in Lanes : /\ Contains(mutations', l) => turn'[l].phase \in Mutating
                         /\ turn'[l].phase = "remove" => Waits(l)'
    BY <1>1, <1>3, <1>4, ActorsDiffer DEF JournalInv, MutationsInv, SameTurns, At
  <2>3. QED
    BY <1>1, <1>3, <2>1, <2>2 DEF MutationsInv, At
<1>8. Rises /\ \A k \in seen : SameRow(k)
  BY <1>1, StillRows DEF JournalInv
<1>9. WorkType' /\ TasksInv'
  BY <1>1, <1>5, <1>8, TasksStay DEF JournalInv
<1>10. TurnsInv'
  BY <1>1, <1>4, <1>8, TurnsStay DEF TurnTypes, JournalInv
<1>11. UndoInv'
  BY <1>1, <1>4 DEF JournalInv, UndoInv, SameTurns, At
<1>12. WakeInv'
  <2>1. (Retries => Retries') /\ (~durable => Retries) /\ ~Pumps
    BY <1>1, <1>2, <1>3, ActorsDiffer DEF Retries, JournalInv, WakeInv, Pumps
  <2>2. ASSUME NEW l \in Lanes, NextOf(l)' # None PROVE Woken(l)'
    <3>1. NextOf(l)' = NextOf(l)
      BY <1>1 DEF NextOf
    <3>2. Woken(l)
      BY <2>2, <3>1 DEF JournalInv, WakeInv
    <3>3. QED
      BY <1>1, <2>1, <3>1, <3>2 DEF Woken
  <2>3. QED
    BY <1>1, <1>4, <2>1, <2>2 DEF WakeInv
<1>13. ClaimsInv'
  <2>1. Grows
    BY <1>1, GrowsAlone DEF JournalInv
  <2>2. /\ Honest(Snapshot, out', posted', stopped')
        /\ Snapshot'.ingress = Snapshot.ingress /\ Snapshot'.entry = Snapshot.entry
        /\ Snapshot'.seen = Snapshot.seen /\ Snapshot'.dead = Snapshot.dead /\ Snapshot'.life = life'
    BY <1>1, <2>1, ClaimsGrow DEF Snapshot, JournalInv
  <2>3. \A k \in Messages : life'[k] <= posted'[k]
    BY <1>1 DEF Joins
  <2>4. Honest(Snapshot', out', posted', stopped')
    BY <2>2, <2>3 DEF Honest
  <2>5. QED
    BY <1>1, <1>5, <1>8, <2>1, <2>4, ClaimsMove DEF JournalInv
<1>14. CallbackInv'
  <2>1. callback'.phase = phase /\ callback'.msg = m
    BY <1>1
  <2>2. QED
    BY <1>1, <2>1 DEF Joins, CallbackInv
<1>15. QED
  BY <1>5, <1>6, <1>7, <1>9, <1>10, <1>11, <1>12, <1>13, <1>14 DEF JournalInv

LEMMA MessageArrivesKeeps ==
  ASSUME JournalInv, NEW m \in Messages, MessageArrives(m)
  PROVE  JournalInv'
<1> DEFINE phase == IF life[m] \in Gone THEN "history" ELSE IF IsStop(m) THEN "cancel" ELSE "admit"
<1>1. /\ callback = Idle /\ m \notin seen /\ CallbackGoes(phase, m)
      /\ UNCHANGED <<posted, ingress, entry, seen, life, dead, control, waiting, undo, tasks, running, stalled, effects,
                     pending, disk>>
  BY DEF MessageArrives, journal
<1>2. SameTurns
  <2>1. turn' = turn \/ turn' = Aborted({k \in Messages : LaneOf(k) = LaneOf(m)})
    BY DEF MessageArrives
  <2>2. QED
    BY <2>1, AbortedIs, StillTurns DEF JournalInv
<1>3. phase \in {"history", "admit", "cancel", "reconcile"} /\ (phase = "history" => life[m] \in Gone)
  OBVIOUS
<1>4. life \in [Messages -> 0 .. Deleted] /\ \A k \in Messages : life[k] <= posted[k]
  BY DEF JournalInv, JournalType, ClaimsInv, Honest, Snapshot
<1> HIDE DEF phase
<1>5. Joins(phase, m)
  BY <1>1, <1>2, <1>3, <1>4 DEF Joins
<1>6. QED
  BY <1>5, JoinsKeep

LEMMA OperationArrivesKeeps ==
  ASSUME JournalInv, NEW m \in Messages, OperationArrives(m)
  PROVE  JournalInv'
<1>1. /\ callback = Idle /\ CallbackGoes("reconcile", m) /\ life' = [life EXCEPT ![m] = posted[m]]
      /\ UNCHANGED <<posted, ingress, entry, seen, dead, control, waiting, undo, tasks, running, stalled, turn, effects,
                     pending, disk>>
  BY DEF OperationArrives, work
<1>2. SameTurns
  BY <1>1, StillTurns
<1>3. posted \in [Messages -> 0 .. Deleted] /\ life \in [Messages -> 0 .. Deleted]
      /\ \A k \in Messages : life[k] <= posted[k]
  BY DEF JournalInv, JournalType, ClaimsInv, Honest, Snapshot
<1>4. life' \in [Messages -> 0 .. Deleted] /\ \A k \in Messages : life'[k] <= posted[k]
  BY <1>1, <1>3, ConstantsAssumption DEF Deleted
<1>5. Joins("reconcile", m)
  BY <1>1, <1>2, <1>4 DEF Joins
<1>6. QED
  BY <1>5, JoinsKeep

-----------------------------------------------------------------------------
(* The callback, or the durability retry, has its turn in the queue: what  *)
(* it changes before it waits for the state file.                          *)
Begins(a) ==
  /\ a \in {Callback, Retry} /\ Runs(a) /\ waiting' = TRUE
  /\ UNCHANGED <<posted, life, durable, armed, callback, mutations, tasks, running, stalled, out, disk>>
  /\ SameTurns /\ pending' = Snapshot'
  /\ JournalType' /\ undo' \in [clean : SUBSET Messages, ingress : Seq(Messages)]
  /\ Rises /\ \A m \in seen : SameRow(m)
  /\ stopped \subseteq stopped' /\ Honest(Snapshot', out', posted', stopped')
  /\ a = Callback /\ callback.phase = "cancel" => HasRoom' /\ UNCHANGED seen
  /\ a = Retry \/ callback.phase = "lifecycle" => UNCHANGED <<ingress, entry, seen>>

LEMMA BeginsKeep ==
  ASSUME JournalInv, NEW a, Begins(a)
  PROVE  JournalInv'
<1>1. /\ a \in {Callback, Retry} /\ Runs(a) /\ waiting' = TRUE
      /\ UNCHANGED <<posted, life, durable, armed, callback, mutations, tasks, running, stalled, out, disk>>
      /\ SameTurns /\ JournalType' /\ undo' \in [clean : SUBSET Messages, ingress : Seq(Messages)]
      /\ Rises /\ \A m \in seen : SameRow(m)
  BY DEF Begins
<1>2. a \in Actors /\ ~waiting
  BY <1>1, ActorsDiffer DEF Runs
<1>3. /\ \A b \in Actors : ~Waits(b) /\ (Waits(b)' <=> b = a)
      /\ Contains(mutations, a) /\ mutations' # <<>>
  BY <1>1, <1>2, QueueStarts DEF JournalInv
<1>4. \A l \in Lanes : ~Waits(l) /\ ~Waits(l)'
  BY <1>1, <1>3, ActorsDiffer
<1>5. QueueType'
  BY <1>1 DEF JournalInv, QueueType
<1>6. MutationsInv'
  <2>1. \A l \in Lanes : /\ Contains(mutations', l) => turn'[l].phase \in Mutating
                         /\ turn'[l].phase = "remove" => Waits(l)'
    BY <1>1, <1>4 DEF JournalInv, MutationsInv, SameTurns, At
  <2>2. QED
    BY <1>1, <1>3, <2>1 DEF JournalInv, MutationsInv, At
<1>7. WorkType' /\ TasksInv'
  BY <1>1, StillTasks, TasksStay DEF JournalInv
<1>8. TurnsInv' /\ UndoInv'
  BY <1>1, <1>4, TurnsStay, UndoQuiet DEF TurnTypes, JournalInv
<1>9. WakeInv'
  <2>1. (Retries => Retries') /\ (~durable => Retries)
    BY <1>1 DEF Retries, JournalInv, WakeInv
  <2>2. Waits(Callback)' /\ callback'.phase = "cancel" => HasRoom'
    BY <1>1, <1>3, ActorsDiffer DEF Begins
  <2>3. ASSUME NEW l \in Lanes, NextOf(l)' # None PROVE Woken(l)'
    <3>1. CASE a = Callback /\ callback.phase # "lifecycle"
      BY <1>1, <1>3, <3>1, ActorsDiffer DEF Woken, Pumps
    <3>2. CASE a = Retry
      BY <1>1, <1>3, <3>2 DEF Woken, Retries
    <3>3. CASE a = Callback /\ callback.phase = "lifecycle"
      <4>1. ingress' = ingress /\ entry' = entry
        BY <3>3 DEF Begins
      <4>2. NextOf(l)' = NextOf(l) /\ ~Pumps
        BY <1>3, <3>3, <4>1, ActorsDiffer DEF NextOf, Pumps
      <4>3. Woken(l)
        BY <2>3, <4>2 DEF JournalInv, WakeInv
      <4>4. QED
        BY <1>1, <2>1, <4>1, <4>2, <4>3 DEF Woken
    <3>4. QED
      BY <1>1, <3>1, <3>2, <3>3
  <2>4. QED
    BY <1>1, <2>1, <2>2, <2>3 DEF WakeInv
<1>10. ClaimsInv'
  <2>1. Grows
    BY <1>1, GrowsAlone DEF JournalInv, Begins
  <2>2. QED
    BY <1>1, <2>1, ClaimsMove DEF JournalInv, Begins
<1>11. CallbackInv'
  <2>1. callback.phase = "cancel" => callback.msg \notin seen'
    <3>1. CASE a = Callback
      BY <3>1 DEF Begins, JournalInv, CallbackInv
    <3>2. CASE a = Retry
      BY <3>2 DEF Begins, JournalInv, CallbackInv
    <3>3. QED
      BY <1>1, <3>1, <3>2
  <2>2. callback.phase = "admit" /\ ~Waits(Callback)' => callback.msg \notin seen'
    <3>1. CASE a = Callback
      BY <1>3, <3>1, ActorsDiffer
    <3>2. CASE a = Retry
      BY <1>3, <3>2, ActorsDiffer DEF Begins, JournalInv, CallbackInv
    <3>3. QED
      BY <1>1, <3>1, <3>2
  <2>3. callback.phase = "history" => life'[callback.msg] \in Gone
    BY <1>1 DEF JournalInv, CallbackInv
  <2>4. QED
    BY <1>1, <2>1, <2>2, <2>3 DEF CallbackInv
<1>12. QED
  BY <1>1, <1>5, <1>6, <1>7, <1>8, <1>9, <1>10, <1>11 DEF JournalInv

(* What holds in the memory when the callback has its turn.                *)
LEMMA CallbackIs ==
  ASSUME JournalInv, Runs(Callback)
  PROVE  /\ callback.phase # "idle" /\ callback.msg \in Messages
         /\ callback.phase \in {"admit", "cancel"} => callback.msg \notin seen
         /\ callback.phase = "history" => life[callback.msg] \in Gone
         /\ ~Pumps \/ callback.phase = "admit"
<1>1. Contains(mutations, Callback) /\ ~Waits(Callback)
  BY WaitsIs, ActorsDiffer DEF JournalInv, Runs, Waits
<1>2. callback.phase # "idle"
  BY <1>1 DEF JournalInv, MutationsInv
<1>3. callback.msg \in Messages
  BY <1>2 DEF JournalInv, QueueType
<1>4. /\ callback.phase \in {"admit", "cancel"} => callback.msg \notin seen
      /\ callback.phase = "history" => life[callback.msg] \in Gone
  BY <1>1 DEF JournalInv, CallbackInv
<1>5. ~Pumps \/ callback.phase = "admit"
  BY <1>1 DEF Pumps
<1>6. QED
  BY <1>2, <1>3, <1>4, <1>5

LEMMA GoneIs ==
  ASSUME JournalInv, NEW m \in Messages, life[m] \in Gone
  PROVE  WithdrawnIn(m, posted)
<1>1. life[m] <= posted[m] /\ life[m] \in Nat /\ posted[m] \in Nat
  BY ConstantsAssumption DEF JournalInv, ClaimsInv, Honest, Snapshot, JournalType, Deleted
<1>2. QED
  BY <1>1 DEF WithdrawnIn

(* The memory keeps its claims when rows go whose claims are settled.      *)
LEMMA HonestLess ==
  ASSUME JournalInv, NEW M \in SUBSET Messages, Splices(M), life' = life, posted' = posted, seen' = seen,
         out' = out, dead \subseteq dead', stopped \subseteq stopped', JournalType',
         \A m \in Messages : HonestRow(m, entry'[m], out),
         \A m \in M : AnsweredIn(m, out) \/ WithdrawnIn(m, posted) \/ m \in stopped' \/ m \in dead'
  PROVE  Honest(Snapshot', out', posted', stopped')
<1>1. /\ Snapshot'.ingress = ingress' /\ Snapshot'.entry = entry' /\ Snapshot'.seen = seen
      /\ Snapshot'.life = life /\ Snapshot'.dead = dead'
  BY DEF Snapshot
<1>2. /\ \A i \in 1 .. Len(ingress) : ingress[i] \in seen
      /\ \A m \in Messages : life[m] <= posted[m]
      /\ \A m \in seen : \/ \E i \in 1 .. Len(ingress) : ingress[i] = m
                         \/ AnsweredIn(m, out) \/ WithdrawnIn(m, posted) \/ m \in stopped \/ m \in dead
  BY DEF JournalInv, ClaimsInv, Honest, Snapshot
<1>3. /\ \A i \in 1 .. Len(ingress') : \E j \in 1 .. Len(ingress) : ingress'[i] = ingress[j]
      /\ \A i \in 1 .. Len(ingress) :
              ingress[i] \in M \/ \E j \in 1 .. Len(ingress') : ingress'[j] = ingress[i]
  BY SplicesKeep DEF JournalInv, JournalType
<1>4. \A i \in 1 .. Len(ingress') : ingress'[i] \in seen
  BY <1>2, <1>3
<1>5. ASSUME NEW m \in seen
      PROVE  \/ \E i \in 1 .. Len(ingress') : ingress'[i] = m
             \/ AnsweredIn(m, out) \/ WithdrawnIn(m, posted) \/ m \in stopped' \/ m \in dead'
  <2>1. CASE m \in M
    BY <2>1
  <2>2. CASE m \notin M
    BY <1>2, <1>3, <1>5, <2>2
  <2>3. QED
    BY <2>1, <2>2
<1>6. QED
  BY <1>1, <1>2, <1>4, <1>5 DEF Honest

LEMMA CommitHistoryKeeps ==
  ASSUME JournalInv, CommitHistory
  PROVE  JournalInv'
<1>1. /\ Runs(Callback) /\ waiting' = TRUE /\ callback.phase = "history" /\ seen' = seen \cup {callback.msg}
      /\ UNCHANGED <<posted, ingress, entry, life, dead, durable, armed, callback, mutations, undo, tasks, running, stalled,
                     turn, out, stopped, disk>>
      /\ pending' = Snapshot'
  BY DEF CommitHistory, CallbackRuns, control, work, effects, Saved
<1>2. callback.msg \in Messages /\ life[callback.msg] \in Gone
  BY <1>1, CallbackIs
<1>3. JournalType'
  <2>1. seen' \subseteq Messages /\ Snapshot' \in SnapshotType /\ Snapshot'.ingress = ingress
    BY <1>1, <1>2 DEF Snapshot, SnapshotType, JournalInv, JournalType
  <2>2. QED
    BY <1>1, <2>1 DEF JournalInv, JournalType
<1>4. Honest(Snapshot', out', posted', stopped')
  <2>1. /\ Snapshot'.ingress = Snapshot.ingress /\ Snapshot'.entry = Snapshot.entry
        /\ Snapshot'.life = Snapshot.life /\ Snapshot'.dead = Snapshot.dead
        /\ Snapshot'.seen = Snapshot.seen \cup {callback.msg}
    BY <1>1 DEF Snapshot
  <2>2. WithdrawnIn(callback.msg, posted)
    BY <1>2, GoneIs
  <2>3. Honest(Snapshot, out, posted, stopped)
    BY DEF JournalInv, ClaimsInv
  <2>4. QED
    BY <1>1, <2>1, <2>2, <2>3 DEF Honest
<1>5. Rises /\ (\A m \in seen : SameRow(m)) /\ SameTurns
  BY <1>1, StillRows, StillTurns DEF JournalInv
<1>6. Begins(Callback)
  BY <1>1, <1>3, <1>4, <1>5, ActorsDiffer DEF Begins, JournalInv, QueueType
<1>7. QED
  BY <1>6, BeginsKeep

LEMMA AdmitKeeps ==
  ASSUME JournalInv, Admit
  PROVE  JournalInv'
<1> DEFINE m == callback.msg
<1>1. /\ Runs(Callback) /\ waiting' = TRUE /\ callback.phase = "admit" /\ seen' = seen \cup {m}
      /\ ingress' = Append(ingress, m) /\ entry' = [entry EXCEPT ![m] = Row(life[m], 0)] /\ HasRoom
      /\ UNCHANGED <<posted, life, dead, durable, armed, callback, mutations, undo, tasks, running, stalled,
                     turn, out, stopped, disk>>
      /\ pending' = Snapshot'
  BY DEF Admit, CallbackRuns, control, work, effects, Saved
<1>2. m \in Messages /\ m \notin seen
  BY <1>1, CallbackIs
<1>3. Row(life[m], 0) \in RowType /\ ingress \in Seq(Messages) /\ entry \in [Messages -> RowType]
  BY <1>2, ConstantsAssumption DEF Row, RowType, NoOutbox, JournalInv, JournalType, Deleted
<1> HIDE DEF m
<1>4. /\ ingress' \in Seq(Messages) /\ Len(ingress') = Len(ingress) + 1
      /\ (\A i \in 1 .. Len(ingress) : ingress'[i] = ingress[i]) /\ ingress'[Len(ingress) + 1] = m
      /\ Len(ingress) \in Nat
  BY <1>1, <1>2, <1>3, AppendProperties
<1>5. JournalType'
  <2>1. Len(ingress') <= IngressCap
    BY <1>1, <1>4, ConstantsAssumption DEF HasRoom
  <2>2. entry' \in [Messages -> RowType] /\ seen' \subseteq Messages
    BY <1>1, <1>2, <1>3 DEF JournalInv, JournalType
  <2>3. Snapshot' \in SnapshotType /\ Snapshot'.ingress = ingress'
    BY <1>1, <1>4, <2>2 DEF Snapshot, SnapshotType, JournalInv, JournalType
  <2>4. QED
    BY <1>1, <1>4, <2>1, <2>2, <2>3 DEF JournalInv, JournalType
<1>6. \A k \in Messages : k # m => entry'[k] = entry[k]
  BY <1>1, <1>3
<1>7. entry'[m] = Row(life[m], 0)
  BY <1>1, <1>2, <1>3
<1>8. Honest(Snapshot', out', posted', stopped')
  <2>1. /\ Snapshot'.ingress = ingress' /\ Snapshot'.entry = entry' /\ Snapshot'.life = life
        /\ Snapshot'.dead = dead /\ Snapshot'.seen = seen \cup {m}
    BY <1>1 DEF Snapshot
  <2>2. /\ \A i \in 1 .. Len(ingress) : ingress[i] \in seen
        /\ \A k \in Messages : life[k] <= posted[k] /\ HonestRow(k, entry[k], out)
        /\ \A k \in seen : \/ \E i \in 1 .. Len(ingress) : ingress[i] = k
                           \/ AnsweredIn(k, out) \/ WithdrawnIn(k, posted) \/ k \in stopped \/ k \in dead
    BY DEF JournalInv, ClaimsInv, Honest, Snapshot
  <2>3. \A i \in 1 .. Len(ingress') : ingress'[i] \in seen \cup {m}
    <3>1. \A i \in 1 .. Len(ingress') : i \in 1 .. Len(ingress) \/ i = Len(ingress) + 1
      BY <1>4
    <3>2. QED
      BY <1>4, <2>2, <3>1
  <2>4. HonestRow(m, Row(life[m], 0), out)
    BY DEF HonestRow, Row, NoOutbox
  <2>5. \A k \in Messages : HonestRow(k, entry'[k], out)
    BY <1>6, <1>7, <2>2, <2>4
  <2>6. ASSUME NEW k \in seen \cup {m}
        PROVE  \/ \E i \in 1 .. Len(ingress') : ingress'[i] = k
               \/ AnsweredIn(k, out) \/ WithdrawnIn(k, posted) \/ k \in stopped \/ k \in dead
    <3>1. CASE k = m
      <4>1. Len(ingress) + 1 \in 1 .. Len(ingress')
        BY <1>4
      <4>2. QED
        BY <1>4, <3>1, <4>1
    <3>2. CASE k \in seen
      <4>1. \A i \in 1 .. Len(ingress) : i \in 1 .. Len(ingress')
        BY <1>4
      <4>2. QED
        BY <1>4, <2>2, <3>2, <4>1
    <3>3. QED
      BY <2>6, <3>1, <3>2
  <2>7. QED
    BY <1>1, <2>1, <2>2, <2>3, <2>5, <2>6 DEF Honest
<1>9. Rises /\ \A k \in seen : SameRow(k)
  <2>1. \A k \in seen : entry'[k] = entry[k] /\ entry[k].rev \in Nat
    BY <1>2, <1>6 DEF JournalInv, JournalType, RowType
  <2>2. QED
    BY <1>1, <2>1 DEF Rises, AheadRow, SameRow
<1>10. SameTurns
  BY <1>1, StillTurns
<1>11. Begins(Callback)
  BY <1>1, <1>5, <1>8, <1>9, <1>10, ActorsDiffer DEF Begins, JournalInv, QueueType
<1>12. QED
  BY <1>11, BeginsKeep

LEMMA NothingBegins ==
  ASSUME JournalInv, NEW a \in {Callback, Retry}, Runs(a), waiting' = TRUE, pending' = Snapshot',
         a = Callback => callback.phase = "lifecycle",
         UNCHANGED <<posted, ingress, entry, seen, life, dead, durable, armed, callback, mutations, undo, tasks,
                     running, stalled, turn, out, stopped, disk>>
  PROVE  JournalInv'
<1>1. Rises /\ (\A m \in seen : SameRow(m)) /\ SameTurns /\ Grows
  BY StillRows, StillTurns, GrowsAlone DEF JournalInv
<1>2. JournalType'
  <2>1. Snapshot' = Snapshot /\ Snapshot \in SnapshotType /\ Snapshot.ingress = ingress
    BY SnapshotIs DEF Snapshot, JournalInv
  <2>2. QED
    BY <2>1 DEF JournalInv, JournalType
<1>3. Honest(Snapshot', out', posted', stopped')
  BY <1>1, StaysHonest DEF JournalInv
<1>4. Begins(a)
  BY <1>1, <1>2, <1>3, ActorsDiffer DEF Begins, JournalInv, QueueType
<1>5. QED
  BY <1>4, BeginsKeep

LEMMA SaveLifecycleKeeps ==
  ASSUME JournalInv, SaveLifecycle
  PROVE  JournalInv'
  BY NothingBegins DEF SaveLifecycle, CallbackRuns, journal, control, work, effects, Saved

LEMMA RetryRunsKeeps ==
  ASSUME JournalInv, RetryRuns
  PROVE  JournalInv'
  BY NothingBegins, ActorsDiffer DEF RetryRuns, journal, control, work, effects, Saved

(* What a turn of the callback or of the retry leaves to the others.       *)
Idles ==
  UNCHANGED <<posted, ingress, entry, seen, life, dead, durable, armed, undo, tasks, running, stalled, turn, out, stopped,
              pending, disk>>

LEMMA StayIdle ==
  ASSUME JournalInv, Idles, \A l \in Lanes : ~Waits(l) /\ ~Waits(l)'
  PROVE  JournalType' /\ WorkType' /\ TasksInv' /\ TurnsInv' /\ UndoInv' /\ ClaimsInv'
<1>1. Rises /\ (\A m \in seen : SameRow(m)) /\ SameTurns /\ Grows
  BY StillRows, StillTurns, GrowsAlone DEF JournalInv, Idles
<1>2. JournalType'
  BY DEF Idles, JournalInv, JournalType
<1>3. WorkType' /\ TasksInv'
  BY <1>1, <1>2, StillTasks, TasksStay DEF JournalInv, Idles
<1>4. TurnsInv' /\ UndoInv'
  BY <1>1, TurnsStay, UndoQuiet DEF TurnTypes, JournalInv, Idles
<1>5. ClaimsInv'
  BY <1>1, ClaimsStay DEF JournalInv, Idles, journal
<1>6. QED
  BY <1>2, <1>3, <1>4, <1>5

(* The callback ends, or goes on in a mutation of another phase.           *)
LEMMA AdmitFullKeeps ==
  ASSUME JournalInv, AdmitFull
  PROVE  JournalInv'
<1>1. /\ HeadIs(Callback) /\ ~waiting /\ waiting' = FALSE /\ ~HasRoom
      /\ callback' = Idle /\ mutations' = Tail(mutations) /\ Idles
  BY DEF AdmitFull, Runs, CallbackEnds, Idles, journal, control, work, effects, JournalInv, QueueType
<1>2. /\ mutations' \in Seq(Actors) /\ Once(mutations')
      /\ \A b \in Actors : ~Waits(b)' /\ ~Waits(b)
      /\ \A b \in Actors : Contains(mutations', b) => Contains(mutations, b)
      /\ \A b \in Actors : b # Callback /\ Contains(mutations, b) => Contains(mutations', b)
      /\ ~Contains(mutations', Callback)
  BY <1>1, QueuePops, ActorsDiffer DEF JournalInv
<1>3. JournalType' /\ WorkType' /\ TasksInv' /\ TurnsInv' /\ UndoInv' /\ ClaimsInv'
  BY <1>1, <1>2, StayIdle, ActorsDiffer
<1>4. QueueType' /\ CallbackInv'
  BY <1>1, <1>2 DEF JournalInv, QueueType, CallbackType, CallbackInv, Idle, Idles, None
<1>5. MutationsInv'
  BY <1>1, <1>2, ActorsDiffer DEF JournalInv, MutationsInv, Idles, At
<1>6. WakeInv'
  <2>1. (Retries => Retries') /\ (~durable => Retries) /\ ~Pumps
    BY <1>1, <1>2, ActorsDiffer DEF Retries, JournalInv, WakeInv, Idles, Pumps
  <2>2. ASSUME NEW l \in Lanes, NextOf(l)' # None PROVE Woken(l)'
    <3>1. NextOf(l)' = NextOf(l)
      BY <1>1 DEF NextOf, Idles
    <3>2. Woken(l)
      BY <2>2, <3>1 DEF JournalInv, WakeInv
    <3>3. QED
      BY <1>1, <2>1, <3>1, <3>2 DEF Woken, Idles
  <2>3. ~Waits(Callback)'
    BY <1>2, ActorsDiffer
  <2>4. QED
    BY <1>1, <2>1, <2>2, <2>3 DEF WakeInv, Idles
<1>7. QED
  BY <1>3, <1>4, <1>5, <1>6 DEF JournalInv

LEMMA CallbackGoesOn ==
  ASSUME JournalInv, Runs(Callback), Idles, UNCHANGED waiting, NEW phase \in {"admit", "lifecycle"},
         callback.phase # "admit", phase = "admit" => callback.phase = "cancel",
         callback' = [callback EXCEPT !.phase = phase], mutations' = Append(Tail(mutations), Callback)
  PROVE  JournalInv'
<1>1. HeadIs(Callback) /\ ~waiting /\ waiting' = FALSE
  BY DEF Runs, JournalInv, QueueType
<1>2. /\ mutations' \in Seq(Actors) /\ Once(mutations') /\ mutations' # <<>>
      /\ \A b \in Actors : ~Waits(b)' /\ ~Waits(b)
      /\ \A b \in Actors : Contains(mutations', b) <=> Contains(mutations, b)
  BY <1>1, QueueRepeats, ActorsDiffer DEF JournalInv
<1>3. JournalType' /\ WorkType' /\ TasksInv' /\ TurnsInv' /\ UndoInv' /\ ClaimsInv'
  BY <1>2, StayIdle, ActorsDiffer
<1>4. /\ callback.phase # "idle" /\ callback.msg \in Messages /\ ~Pumps
      /\ (callback.phase = "cancel" => callback.msg \notin seen)
  BY CallbackIs
<1>5. callback' \in CallbackType /\ callback'.phase = phase /\ callback'.msg = callback.msg
  BY DEF JournalInv, QueueType, CallbackType
<1>6. QueueType' /\ CallbackInv'
  BY <1>1, <1>2, <1>4, <1>5 DEF JournalInv, QueueType, CallbackInv, Idles
<1>7. MutationsInv'
  BY <1>1, <1>2, <1>5, ActorsDiffer DEF JournalInv, MutationsInv, Idles, At
<1>8. WakeInv'
  <2>1. (Retries => Retries') /\ (~durable => Retries)
    BY <1>2, ActorsDiffer DEF Retries, JournalInv, WakeInv, Idles
  <2>2. ASSUME NEW l \in Lanes, NextOf(l)' # None PROVE Woken(l)'
    <3>1. NextOf(l)' = NextOf(l)
      BY DEF NextOf, Idles
    <3>2. Woken(l)
      BY <2>2, <3>1 DEF JournalInv, WakeInv
    <3>3. QED
      BY <1>4, <2>1, <3>1, <3>2 DEF Woken, Idles
  <2>3. ~Waits(Callback)'
    BY <1>2, ActorsDiffer
  <2>4. QED
    BY <2>1, <2>2, <2>3 DEF WakeInv, Idles
<1>9. QED
  BY <1>3, <1>6, <1>7, <1>8 DEF JournalInv

(* A /stop: its lane loses what has no answer, or there is nothing to lose.*)
LEMMA CancelKeeps ==
  ASSUME JournalInv, Cancel
  PROVE  JournalInv'
<1> DEFINE M == Unfinished(LaneOf(callback.msg))
<1>1. /\ Runs(Callback) /\ callback.phase = "cancel" /\ stopped' = stopped \cup M
      /\ UNCHANGED <<posted, entry, seen, life, dead, durable, armed, tasks, running, stalled, out, disk>>
  BY DEF Cancel, control
<1>2. CASE M = {}
  <2>1. Idles /\ UNCHANGED waiting /\ callback' = [callback EXCEPT !.phase = "admit"]
        /\ mutations' = Append(Tail(mutations), Callback)
    BY <1>1, <1>2 DEF Cancel, Idles
  <2>2. QED
    BY <1>1, <2>1, CallbackGoesOn
<1>3. CASE M # {}
  <2>1. /\ Splices(M) /\ turn' = Aborted(M) /\ undo' = Cleans(M) /\ waiting' = TRUE
        /\ pending' = Snapshot' /\ UNCHANGED <<callback, mutations>>
    BY <1>3 DEF Cancel, Saved
  <2>2. ingress \in Seq(Messages) /\ entry \in [Messages -> RowType]
    BY DEF JournalInv, JournalType
  <2>3. M \in SUBSET Messages /\ \E i \in 1 .. Len(ingress) : ingress[i] \in M
    <3>1. M \subseteq ToSet(ingress)
      BY DEF Unfinished
    <3>2. \A m \in ToSet(ingress) : m \in Messages /\ \E i \in 1 .. Len(ingress) : ingress[i] = m
      BY <2>2 DEF ToSet
    <3>3. QED
      BY <1>3, <3>1, <3>2
  <2> HIDE DEF M
  <2>4. ingress' \in Seq(Messages) /\ Len(ingress') < Len(ingress)
    BY <2>1, <2>2, <2>3, SplicesKeep
  <2>5. Len(ingress) <= IngressCap /\ Len(ingress) \in Nat /\ Len(ingress') \in Nat
    BY <2>2, <2>4 DEF JournalInv, JournalType
  <2>6. JournalType'
    <3>1. Snapshot' \in SnapshotType /\ Snapshot'.ingress = ingress'
      BY <1>1, <2>4 DEF Snapshot, SnapshotType, JournalInv, JournalType
    <3>2. Len(ingress') <= IngressCap
      BY <2>4, <2>5, ConstantsAssumption
    <3>3. QED
      BY <1>1, <2>1, <2>4, <3>1, <3>2 DEF JournalInv, JournalType
  <2>7. HasRoom'
    BY <2>4, <2>5, ConstantsAssumption DEF HasRoom
  <2>8. Honest(Snapshot', out', posted', stopped')
    <3>1. \A m \in Messages : HonestRow(m, entry'[m], out)
      BY <1>1 DEF JournalInv, ClaimsInv, Honest, Snapshot
    <3>2. dead \subseteq dead' /\ stopped \subseteq stopped' /\ M \subseteq stopped'
      BY <1>1
    <3>3. QED
      BY <1>1, <2>1, <2>3, <2>6, <3>1, <3>2, HonestLess
  <2>9. Rises /\ (\A m \in seen : SameRow(m)) /\ SameTurns
    BY <1>1, <2>1, StillRows, AbortedIs DEF JournalInv
  <2>10. undo' \in [clean : SUBSET Messages, ingress : Seq(Messages)]
    <3>1. undo' = [clean |-> M, ingress |-> <<>>]
      BY <2>1 DEF Cleans, NoUndo
    <3>2. QED
      BY <2>3, <3>1
  <2>11. Begins(Callback)
    BY <1>1, <2>1, <2>6, <2>7, <2>8, <2>9, <2>10, ActorsDiffer DEF Begins
  <2>12. QED
    BY <2>11, BeginsKeep
<1>4. QED
  BY <1>2, <1>3

(* An edit or a delete reaches the row of its prompt.                      *)
LEMMA ReconcileKeeps ==
  ASSUME JournalInv, Reconcile
  PROVE  JournalInv'
<1> DEFINE m == callback.msg
           gone == life[m] \in Gone
<1>1. /\ Runs(Callback) /\ callback.phase = "reconcile"
      /\ UNCHANGED <<posted, seen, life, dead, durable, armed, tasks, running, stalled, out, stopped, disk>>
  BY DEF Reconcile, control, effects
<1>2. m \in Messages
  BY <1>1, CallbackIs
<1>3. /\ ingress \in Seq(Messages) /\ entry \in [Messages -> RowType] /\ entry[m] \in RowType
      /\ life[m] \in 0 .. Deleted
  BY <1>2 DEF JournalInv, JournalType
<1>4. CASE Journaled(m) /\ ~entry[m].done
  <2>1. /\ IF gone THEN Splices({m}) ELSE UNCHANGED ingress
        /\ entry' = IF gone THEN entry ELSE [entry EXCEPT ![m] = Revised(m)]
        /\ turn' = Aborted({m}) /\ waiting' = TRUE
        /\ undo' = IF gone \/ entry[m].box # NoOutbox THEN Cleans({m}) ELSE NoUndo
        /\ pending' = Snapshot' /\ UNCHANGED <<callback, mutations>>
    BY <1>4 DEF Reconcile, Saved
  <2>2. /\ Revised(m) \in RowType /\ Revised(m).rev = entry[m].rev + 1 /\ ~Revised(m).done
        /\ Revised(m).box = NoOutbox
    <3>1. entry[m].rev + 1 \in Nat
      BY <1>3 DEF RowType
    <3>2. QED
      BY <1>3, <3>1 DEF Revised, Row, RowType, NoOutbox
  <2> HIDE DEF m
  <2>3. entry' \in [Messages -> RowType] /\ \A k \in Messages : k # m => entry'[k] = entry[k]
    BY <1>2, <1>3, <2>1, <2>2
  <2>4. entry'[m] = IF gone THEN entry[m] ELSE Revised(m)
    BY <1>2, <1>3, <2>1
  <2>5. ingress' \in Seq(Messages) /\ Len(ingress') <= Len(ingress)
    <3>1. CASE gone
      BY <1>2, <1>3, <2>1, <3>1, SplicesKeep
    <3>2. CASE ~gone
      BY <1>3, <2>1, <3>2
    <3>3. QED
      BY <3>1, <3>2
  <2>6. JournalType'
    <3>1. Snapshot' \in SnapshotType /\ Snapshot'.ingress = ingress'
      BY <1>1, <2>3, <2>5 DEF Snapshot, SnapshotType, JournalInv, JournalType
    <3>2. Len(ingress') <= IngressCap
      <4>1. Len(ingress') \in Nat /\ Len(ingress) \in Nat /\ Len(ingress) <= IngressCap
        BY <1>3, <2>5 DEF JournalInv, JournalType
      <4>2. QED
        BY <2>5, <4>1, ConstantsAssumption
    <3>3. QED
      BY <1>1, <2>1, <2>3, <2>5, <3>1, <3>2 DEF JournalInv, JournalType
  <2>7. \A k \in Messages : HonestRow(k, entry'[k], out)
    <3>1. \A k \in Messages : HonestRow(k, entry[k], out)
      BY DEF JournalInv, ClaimsInv, Honest, Snapshot
    <3>2. HonestRow(m, Revised(m), out)
      BY <2>2 DEF HonestRow, NoOutbox
    <3>3. QED
      BY <2>3, <2>4, <3>1, <3>2
  <2>8. Honest(Snapshot', out', posted', stopped')
    <3>1. CASE gone
      <4>1. WithdrawnIn(m, posted)
        BY <1>2, <3>1, GoneIs
      <4>2. QED
        BY <1>1, <1>2, <2>1, <2>6, <2>7, <3>1, <4>1, HonestLess
    <3>2. CASE ~gone
      <4>1. /\ Snapshot'.ingress = Snapshot.ingress /\ Snapshot'.entry = entry' /\ Snapshot'.life = Snapshot.life
            /\ Snapshot'.dead = Snapshot.dead /\ Snapshot'.seen = Snapshot.seen
        BY <1>1, <2>1, <3>2 DEF Snapshot
      <4>2. QED
        BY <1>1, <2>7, <4>1 DEF Honest, JournalInv, ClaimsInv
    <3>3. QED
      BY <3>1, <3>2
  <2>9. Rises /\ \A k \in seen : SameRow(k)
    <3>1. seen \subseteq Messages /\ \A k \in Messages : entry[k].rev \in Nat
      BY <1>3 DEF JournalInv, JournalType, RowType
    <3>2. \A k \in seen : entry'[k] = entry[k] \/ entry'[k].rev = entry[k].rev + 1
      BY <2>2, <2>3, <2>4, <3>1
    <3>3. QED
      BY <1>1, <3>1, <3>2 DEF Rises, AheadRow, SameRow
  <2>10. SameTurns
    BY <2>1, AbortedIs DEF JournalInv
  <2>11. undo' \in [clean : SUBSET Messages, ingress : Seq(Messages)]
    <3>1. undo' = [clean |-> {m}, ingress |-> <<>>] \/ undo' = [clean |-> {}, ingress |-> <<>>]
      BY <2>1 DEF Cleans, NoUndo
    <3>2. {m} \in SUBSET Messages /\ {} \in SUBSET Messages /\ <<>> \in Seq(Messages)
      BY <1>2
    <3>3. CASE undo' = [clean |-> {m}, ingress |-> <<>>]
      BY <3>2, <3>3
    <3>4. CASE undo' = [clean |-> {}, ingress |-> <<>>]
      BY <3>2, <3>4
    <3>5. QED
      BY <3>1, <3>3, <3>4
  <2>12. Begins(Callback)
    BY <1>1, <2>1, <2>6, <2>8, <2>9, <2>10, <2>11, ActorsDiffer DEF Begins
  <2>13. QED
    BY <2>12, BeginsKeep
<1>5. CASE ~(Journaled(m) /\ ~entry[m].done)
  <2>1. Idles /\ UNCHANGED waiting /\ callback' = [callback EXCEPT !.phase = "lifecycle"]
        /\ mutations' = Append(Tail(mutations), Callback)
    BY <1>1, <1>5 DEF Reconcile, Idles
  <2>2. QED
    BY <1>1, <2>1, CallbackGoesOn
<1>6. QED
  BY <1>4, <1>5

-----------------------------------------------------------------------------
(* The pump, when no task settles.                                         *)
LEMMA PumpKeeps ==
  ASSUME JournalInv, NEW on \in BOOLEAN, UNCHANGED <<ingress, seen, turn>>, entry' \in [Messages -> RowType],
         \A m \in Messages : entry'[m].rev = entry[m].rev, Pump(on, entry', tasks, running)
  PROVE  /\ WorkType' /\ TasksInv'
         /\ \A l \in Lanes : on /\ NextOf(l) # None => tasks'[l] # <<>> \/ entry'[NextOf(l)].delayed
         /\ \A l \in Lanes : tasks[l] # <<>> => tasks'[l] # <<>>
         /\ on \/ (stalled => stalled')
<1>1. /\ ingress \in Seq(Messages) /\ tasks \in [Lanes -> Seq(Messages \X Nat)] /\ running \in SUBSET Messages
      /\ Dispatched(tasks, running) /\ KnownRevisions(tasks, entry) /\ running \subseteq seen
      /\ \A i \in 1 .. Len(ingress) : ingress[i] \in seen
  BY DEF JournalInv, JournalType, WorkType, TasksInv, ClaimsInv, Honest, Snapshot
<1>2. KnownRevisions(tasks, entry')
  <2>1. ASSUME NEW l \in Lanes, NEW i \in 1 .. Len(tasks[l])
        PROVE  tasks[l][i][2] <= entry'[tasks[l][i][1]].rev
    <3>1. tasks[l][i][1] \in Messages
      BY <1>1, <2>1 DEF Dispatched
    <3>2. QED
      BY <1>1, <2>1, <3>1 DEF KnownRevisions
  <2>2. QED
    BY <2>1 DEF KnownRevisions
<1>3. /\ PumpedTasks(on, entry', tasks)
      /\ \A m \in running' : m \in running \/ \E i \in 1 .. Len(ingress) : ingress[i] = m
  BY <1>1, <1>2, PumpDispatches
<1>4. running' \subseteq seen'
  BY <1>1, <1>3
<1>5. WorkType'
  BY <1>3 DEF PumpedTasks, JournalInv, WorkType
<1>6. \A l \in Lanes : turn'[l].phase # "idle" => tasks'[l] # <<>> /\ tasks'[l][1] = <<turn'[l].msg, turn'[l].rev>>
  BY <1>3 DEF PumpedTasks, JournalInv, TasksInv, At
<1>7. TasksInv'
  BY <1>3, <1>4, <1>6 DEF PumpedTasks, TasksInv, At
<1>8. QED
  BY <1>3, <1>5, <1>7 DEF PumpedTasks

(* The callback proceeds after its wait.                                   *)
LEMMA ProceedsKeep ==
  ASSUME JournalInv, CallbackWaits, CallbackProceeds,
         UNCHANGED <<posted, ingress, entry, seen, life, dead, turn, out, stopped, pending, disk>>,
         durable' \in BOOLEAN, armed' \in BOOLEAN, WorkType', TasksInv', ~durable' => armed',
         armed => armed',
         (stalled => stalled') \/ (durable' /\ callback.phase \in {"history", "admit", "reconcile"}),
         \A l \in Lanes : tasks[l] # <<>> => tasks'[l] # <<>>,
         durable' /\ callback.phase \in {"history", "admit", "reconcile"} =>
           \A l \in Lanes : NextOf(l) # None => tasks'[l] # <<>> \/ entry[NextOf(l)].delayed
  PROVE  JournalInv'
<1>1. HeadIs(Callback) /\ waiting /\ waiting' = FALSE /\ undo' = NoUndo
  BY DEF CallbackWaits, Waits
<1>2. Contains(mutations, Callback) /\ Waits(Callback) /\ callback.phase # "idle"
  BY WaitsIs, ActorsDiffer DEF JournalInv, CallbackWaits, Waits, MutationsInv
<1>3. callback.msg \in Messages /\ callback \in CallbackType
  BY <1>2 DEF JournalInv, QueueType
<1>4. \/ /\ callback.phase = "cancel" /\ callback' = [callback EXCEPT !.phase = "admit"]
         /\ mutations' = Append(Tail(mutations), Callback)
      \/ callback.phase # "cancel" /\ callback' = Idle /\ mutations' = Tail(mutations)
  BY DEF CallbackProceeds, CallbackEnds
<1>5. /\ mutations' \in Seq(Actors) /\ Once(mutations')
      /\ \A b \in Actors : ~Waits(b)'
      /\ \A b \in Actors : b # Callback => ~Waits(b)
      /\ \A b \in Actors : b # Callback => (Contains(mutations', b) <=> Contains(mutations, b))
      /\ Contains(mutations', Callback) <=> callback.phase = "cancel"
  <2>1. CASE callback.phase = "cancel"
    BY <1>1, <1>2, <1>4, <2>1, QueueRepeats, ActorsDiffer DEF JournalInv
  <2>2. CASE callback.phase # "cancel"
    BY <1>1, <1>2, <1>4, <2>2, QueuePops, ActorsDiffer DEF JournalInv
  <2>3. QED
    BY <2>1, <2>2
<1>6. \A l \in Lanes : ~Waits(l) /\ ~Waits(l)'
  BY <1>5, ActorsDiffer
<1>7. /\ callback' \in CallbackType
      /\ callback.phase = "cancel" => callback'.phase = "admit" /\ callback'.msg = callback.msg
      /\ callback.phase # "cancel" => callback'.phase = "idle"
  BY <1>3, <1>4 DEF CallbackType, Idle, None
<1>8. JournalType'
  BY DEF JournalInv, JournalType
<1>9. QueueType'
  <2>1. callback'.phase # "idle" => callback'.msg \in Messages
    BY <1>3, <1>7
  <2>2. undo' \in [clean : SUBSET Messages, ingress : Seq(Messages)]
    BY <1>1 DEF NoUndo
  <2>3. QED
    BY <1>1, <1>5, <1>7, <2>1, <2>2 DEF QueueType
<1>10. MutationsInv'
  <2>1. Contains(mutations', Callback) => callback'.phase # "idle"
    BY <1>5, <1>7
  <2>2. \A l \in Lanes : /\ Contains(mutations', l) => turn'[l].phase \in Mutating
                         /\ turn'[l].phase # "remove"
    BY <1>5, <1>6, ActorsDiffer DEF JournalInv, MutationsInv, At
  <2>3. QED
    BY <1>1, <1>5, <2>1, <2>2 DEF MutationsInv, At
<1>11. Rises /\ (\A m \in seen : SameRow(m)) /\ SameTurns /\ Grows
  BY StillRows, StillTurns, GrowsAlone DEF JournalInv
<1>12. TurnsInv' /\ UndoInv'
  BY <1>6, <1>11, TurnsStay, UndoQuiet DEF TurnTypes, JournalInv
<1>13. ClaimsInv'
  BY <1>11, ClaimsStay DEF JournalInv, journal
<1>14. CallbackInv'
  <2>1. callback.phase = "cancel" => callback.msg \notin seen
    BY DEF JournalInv, CallbackInv
  <2>2. QED
    BY <1>7, <2>1 DEF CallbackInv
<1>15. WakeInv'
  <2>1. /\ Retries => Retries' \/ (durable' /\ callback.phase \in {"history", "admit", "reconcile"})
        /\ (~durable' => Retries') /\ (~durable => Retries)
    BY <1>5, ActorsDiffer DEF Retries, JournalInv, WakeInv
  <2>2. callback.phase = "cancel" => HasRoom'
    BY <1>2 DEF JournalInv, WakeInv, HasRoom
  <2>3. ASSUME NEW l \in Lanes, NextOf(l)' # None PROVE Woken(l)'
    <3>1. NextOf(l)' = NextOf(l)
      BY DEF NextOf
    <3>2. CASE callback.phase = "cancel"
      BY <1>5, <1>7, <2>2, <3>2 DEF Woken, Pumps
    <3>3. CASE ~durable'
      BY <2>1, <3>3 DEF Woken
    <3>4. CASE durable' /\ callback.phase \in {"history", "admit", "reconcile"}
      BY <2>3, <3>1, <3>4 DEF Woken
    <3>5. CASE durable' /\ callback.phase = "lifecycle"
      <4>1. ~Pumps
        BY <3>5 DEF Pumps
      <4>2. Woken(l)
        BY <2>3, <3>1 DEF JournalInv, WakeInv
      <4>3. QED
        BY <2>1, <3>1, <3>5, <4>1, <4>2 DEF Woken
    <3>6. QED
      BY <1>2, <1>3, <3>2, <3>3, <3>4, <3>5 DEF CallbackType
  <2>4. ~Waits(Callback)'
    BY <1>5, ActorsDiffer
  <2>5. QED
    BY <2>1, <2>3, <2>4 DEF WakeInv
<1>16. QED
  BY <1>8, <1>9, <1>10, <1>12, <1>13, <1>14, <1>15 DEF JournalInv

LEMMA CallbackFlushedKeeps ==
  ASSUME JournalInv, CallbackFlushed
  PROVE  JournalInv'
<1>1. /\ CallbackWaits /\ CallbackProceeds /\ durable' = TRUE /\ armed' = armed
      /\ UNCHANGED <<posted, ingress, entry, seen, life, dead, turn, out, stopped, pending, disk>>
  BY DEF CallbackFlushed, journal
<1>2. entry \in [Messages -> RowType] /\ armed \in BOOLEAN
  BY DEF JournalInv, JournalType, QueueType
<1>3. /\ WorkType' /\ TasksInv'
      /\ \A l \in Lanes : tasks[l] # <<>> => tasks'[l] # <<>>
      /\ callback.phase \in {"history", "admit", "reconcile"} =>
           \A l \in Lanes : NextOf(l) # None => tasks'[l] # <<>> \/ entry[NextOf(l)].delayed
      /\ (stalled => stalled') \/ callback.phase \in {"history", "admit", "reconcile"}
  <2>1. CASE callback.phase \in {"history", "admit", "reconcile"}
    <3>1. Pump(TRUE, entry', tasks, running)
      BY <1>1, <2>1 DEF CallbackFlushed
    <3>2. QED
      BY <1>1, <1>2, <2>1, <3>1, PumpKeeps
  <2>2. CASE callback.phase \notin {"history", "admit", "reconcile"}
    <3>1. UNCHANGED <<tasks, running, stalled>>
      BY <2>2 DEF CallbackFlushed
    <3>2. QED
      BY <1>1, <2>2, <3>1 DEF JournalInv, WorkType, TasksInv, At
  <2>3. QED
    BY <2>1, <2>2
<1>4. QED
  BY <1>1, <1>2, <1>3, ProceedsKeep

LEMMA CallbackUnsavedKeeps ==
  ASSUME JournalInv, CallbackUnsaved
  PROVE  JournalInv'
<1>1. /\ CallbackWaits /\ CallbackProceeds /\ durable' = FALSE /\ armed' = TRUE
      /\ UNCHANGED <<posted, ingress, entry, seen, life, dead, tasks, running, stalled, turn, out, stopped, pending, disk>>
  BY DEF CallbackUnsaved, journal, work, effects, Frozen
<1>2. WorkType' /\ TasksInv'
  BY <1>1 DEF JournalInv, WorkType, TasksInv, At
<1>3. QED
  BY <1>1, <1>2, ProceedsKeep

(* The durability retry: armed, queued, waiting, done or armed again.      *)
LEMMA DurabilityRetryKeeps ==
  ASSUME JournalInv, DurabilityRetry
  PROVE  JournalInv'
<1>1. /\ armed' = FALSE /\ mutations' = Append(mutations, Retry)
      /\ UNCHANGED <<posted, ingress, entry, seen, life, dead, durable, callback, waiting, undo, tasks, running, stalled,
                     turn, out, stopped, pending, disk>>
  BY DEF DurabilityRetry, journal, work, effects
<1>2. /\ mutations' \in Seq(Actors) /\ Once(mutations') /\ mutations' # <<>>
      /\ \A b \in Actors : Waits(b)' <=> Waits(b)
      /\ \A b \in Actors : Contains(mutations', b) <=> Contains(mutations, b) \/ b = Retry
  BY <1>1, QueueGrows, ActorsDiffer DEF JournalInv
<1>3. /\ \A l \in Lanes : Waits(l)' <=> Waits(l)
      /\ Waits(Callback)' <=> Waits(Callback)
      /\ \A l \in Lanes : Contains(mutations', l) => Contains(mutations, l)
      /\ Contains(mutations', Callback) <=> Contains(mutations, Callback)
  BY <1>2, ActorsDiffer
<1>4. Rises /\ (\A m \in seen : SameRow(m)) /\ SameTurns /\ Grows
  BY <1>1, StillRows, StillTurns, GrowsAlone DEF JournalInv
<1>5. JournalType' /\ QueueType' /\ CallbackInv'
  BY <1>1, <1>2, <1>3 DEF JournalInv, JournalType, QueueType, CallbackInv
<1>6. MutationsInv'
  BY <1>1, <1>2, <1>3 DEF JournalInv, MutationsInv, At
<1>7. WorkType' /\ TasksInv'
  BY <1>1, <1>4, <1>5, StillTasks, TasksStay DEF JournalInv
<1>8. TurnsInv'
  BY <1>1, <1>3, <1>4, TurnsStay DEF TurnTypes, JournalInv
<1>9. UndoInv'
  BY <1>1, <1>3 DEF JournalInv, UndoInv, At
<1>10. ClaimsInv'
  BY <1>1, <1>4, ClaimsStay DEF JournalInv, journal
<1>11. WakeInv'
  <2>1. Retries'
    BY <1>2, ActorsDiffer DEF Retries
  <2>2. Waits(Callback)' /\ callback'.phase = "cancel" => HasRoom'
    BY <1>1, <1>3 DEF JournalInv, WakeInv, HasRoom
  <2>3. QED
    BY <2>1, <2>2 DEF WakeInv, Woken
<1>12. QED
  BY <1>5, <1>6, <1>7, <1>8, <1>9, <1>10, <1>11 DEF JournalInv

(* The retry leaves the queue.                                             *)
LEMMA RetryEnds ==
  ASSUME JournalInv, Waits(Retry), waiting' = FALSE, mutations' = Tail(mutations),
         UNCHANGED <<posted, ingress, entry, seen, life, dead, callback, undo, turn, out, stopped, pending, disk>>,
         durable' \in BOOLEAN, armed' \in BOOLEAN, WorkType', TasksInv',
         \/ armed' \/ stalled'
         \/ durable' /\ \A l \in Lanes : NextOf(l) # None => tasks'[l] # <<>> \/ entry[NextOf(l)].delayed
  PROVE  JournalInv'
<1>1. HeadIs(Retry) /\ waiting
  BY DEF Waits
<1>2. /\ mutations' \in Seq(Actors) /\ Once(mutations')
      /\ \A b \in Actors : ~Waits(b)' /\ (Waits(b) <=> b = Retry)
      /\ \A b \in Actors : Contains(mutations', b) => Contains(mutations, b)
      /\ \A b \in Actors : b # Retry /\ Contains(mutations, b) => Contains(mutations', b)
  BY <1>1, QueuePops, ActorsDiffer DEF JournalInv
<1>3. /\ \A l \in Lanes : ~Waits(l) /\ ~Waits(l)' /\ (Contains(mutations', l) => Contains(mutations, l))
      /\ ~Waits(Callback) /\ ~Waits(Callback)' /\ (Contains(mutations', Callback) => Contains(mutations, Callback))
  BY <1>2, ActorsDiffer
<1>4. Rises /\ (\A m \in seen : SameRow(m)) /\ SameTurns /\ Grows
  BY StillRows, StillTurns, GrowsAlone DEF JournalInv
<1>5. JournalType' /\ QueueType' /\ CallbackInv'
  BY <1>2, <1>3 DEF JournalInv, JournalType, QueueType, CallbackInv
<1>6. MutationsInv'
  BY <1>2, <1>3 DEF JournalInv, MutationsInv, At
<1>7. TurnsInv' /\ UndoInv'
  BY <1>3, <1>4, TurnsStay, UndoQuiet DEF TurnTypes, JournalInv
<1>8. ClaimsInv'
  BY <1>4, ClaimsStay DEF JournalInv, journal
<1>9. WakeInv'
  <2>1. ASSUME NEW l \in Lanes, NextOf(l)' # None PROVE Woken(l)'
    <3>1. NextOf(l)' = NextOf(l)
      BY DEF NextOf
    <3>2. QED
      BY <2>1, <3>1 DEF Woken, Retries
  <2>2. ~durable' => Retries'
    BY DEF Retries
  <2>3. QED
    BY <1>3, <2>1, <2>2 DEF WakeInv
<1>10. QED
  BY <1>5, <1>6, <1>7, <1>8, <1>9 DEF JournalInv

LEMMA RetryFlushedKeeps ==
  ASSUME JournalInv, RetryFlushed
  PROVE  JournalInv'
<1>1. /\ Waits(Retry) /\ waiting' = FALSE /\ mutations' = Tail(mutations) /\ durable' = TRUE /\ armed' = armed
      /\ Pump(TRUE, entry, tasks, running)
      /\ UNCHANGED <<posted, ingress, entry, seen, life, dead, callback, undo, turn, out, stopped, pending, disk>>
  BY DEF RetryFlushed, journal, effects
<1>2. entry \in [Messages -> RowType] /\ armed \in BOOLEAN
  BY DEF JournalInv, JournalType, QueueType
<1>3. Pump(TRUE, entry', tasks, running)
  BY <1>1
<1>4. WorkType' /\ TasksInv' /\ \A l \in Lanes : NextOf(l) # None => tasks'[l] # <<>> \/ entry[NextOf(l)].delayed
  BY <1>1, <1>2, <1>3, PumpKeeps
<1>5. QED
  BY <1>1, <1>2, <1>4, RetryEnds

LEMMA RetryThrowsKeeps ==
  ASSUME JournalInv, RetryThrows
  PROVE  JournalInv'
<1>1. /\ Waits(Retry) /\ waiting' = FALSE /\ mutations' = Tail(mutations) /\ stalled' = TRUE
      /\ UNCHANGED <<posted, ingress, entry, seen, life, dead, durable, armed, callback, undo, tasks, running, turn, out,
                     stopped, pending, disk>>
  BY DEF RetryThrows, journal, control, effects
<1>2. WorkType' /\ TasksInv' /\ durable' \in BOOLEAN /\ armed' \in BOOLEAN
  BY <1>1 DEF JournalInv, WorkType, TasksInv, At, QueueType
<1>3. QED
  BY <1>1, <1>2, RetryEnds

LEMMA RetryUnsavedKeeps ==
  ASSUME JournalInv, RetryUnsaved
  PROVE  JournalInv'
<1>1. /\ Waits(Retry) /\ waiting' = FALSE /\ mutations' = Tail(mutations) /\ durable' = durable /\ armed' = TRUE
      /\ UNCHANGED <<posted, ingress, entry, seen, life, dead, callback, undo, tasks, running, stalled, turn, out, stopped,
                     pending, disk>>
  BY DEF RetryUnsaved, journal, work, effects
<1>2. WorkType' /\ TasksInv' /\ durable \in BOOLEAN
  BY <1>1 DEF JournalInv, WorkType, TasksInv, At, QueueType
<1>3. QED
  BY <1>1, <1>2, RetryEnds

LEMMA RetryDueKeeps ==
  ASSUME JournalInv, NEW m \in Messages, RetryDue(m)
  PROVE  JournalInv'
<1>1. /\ entry' = [entry EXCEPT ![m].delayed = FALSE] /\ Pump(durable, entry', tasks, running)
      /\ UNCHANGED <<posted, ingress, seen, life, dead, durable, armed, callback, mutations, waiting, undo, turn,
                     out, stopped, pending, disk>>
  BY DEF RetryDue, control, effects
<1>2. entry \in [Messages -> RowType] /\ durable \in BOOLEAN
  BY DEF JournalInv, JournalType, QueueType
<1>3. ASSUME NEW k \in Messages
      PROVE  /\ entry'[k] \in RowType /\ entry'[k].rev = entry[k].rev /\ entry'[k].ver = entry[k].ver
             /\ entry'[k].box = entry[k].box /\ entry'[k].done = entry[k].done
             /\ entry'[k].rev \in Nat
  <2>1. PICK row \in RowType : row = entry[k]
    BY <1>2
  <2>2. [row EXCEPT !.delayed = FALSE] \in RowType
    BY DEF RowType
  <2>3. entry'[k] = row \/ entry'[k] = [row EXCEPT !.delayed = FALSE]
    BY <1>1, <1>2, <2>1
  <2>4. QED
    BY <2>1, <2>2, <2>3 DEF RowType
<1>4. entry' \in [Messages -> RowType]
  <2>1. DOMAIN entry' = Messages /\ entry' = [k \in Messages |-> entry'[k]]
    BY <1>1, <1>2
  <2>2. QED
    BY <1>3, <2>1
<1>5. /\ WorkType' /\ TasksInv'
      /\ \A l \in Lanes : durable /\ NextOf(l) # None => tasks'[l] # <<>> \/ entry'[NextOf(l)].delayed
      /\ durable \/ (stalled => stalled')
  BY <1>1, <1>2, <1>3, <1>4, PumpKeeps
<1>6. JournalType'
  BY <1>1, <1>4 DEF JournalInv, JournalType
<1>7. Rises /\ (\A k \in seen : SameRow(k)) /\ SameTurns /\ Grows
  <2>1. seen \subseteq Messages
    BY DEF JournalInv, JournalType
  <2>2. QED
    BY <1>1, <1>3, <2>1, StillTurns, GrowsAlone DEF Rises, AheadRow, SameRow, JournalInv
<1>8. \A a : Waits(a)' <=> Waits(a)
  BY <1>1 DEF Waits, HeadIs
<1>9. QueueType' /\ CallbackInv'
  BY <1>1, <1>8 DEF JournalInv, QueueType, CallbackInv
<1>10. MutationsInv' /\ UndoInv'
  BY <1>1, <1>8 DEF JournalInv, MutationsInv, UndoInv, At
<1>11. TurnsInv'
  BY <1>1, <1>7, <1>8, TurnsStay DEF TurnTypes, JournalInv
<1>12. ClaimsInv'
  <2>1. \A k \in Messages : HonestRow(k, entry[k], out)
    BY DEF JournalInv, ClaimsInv, Honest, Snapshot
  <2>2. \A k \in Messages : HonestRow(k, entry'[k], out)
    BY <1>3, <2>1 DEF HonestRow
  <2>3. /\ Snapshot'.ingress = Snapshot.ingress /\ Snapshot'.entry = entry' /\ Snapshot'.life = Snapshot.life
        /\ Snapshot'.dead = Snapshot.dead /\ Snapshot'.seen = Snapshot.seen
    BY <1>1 DEF Snapshot
  <2>4. Honest(Snapshot', out', posted', stopped')
    BY <1>1, <2>2, <2>3 DEF Honest, JournalInv, ClaimsInv
  <2>5. QED
    BY <1>1, <1>6, <1>7, <2>4, ClaimsMove DEF JournalInv
<1>13. WakeInv'
  <2>1. (Retries => Retries' \/ durable) /\ (~durable => Retries)
    BY <1>1, <1>5 DEF Retries, JournalInv, WakeInv
  <2>2. Waits(Callback)' /\ callback'.phase = "cancel" => HasRoom'
    BY <1>1, <1>8 DEF JournalInv, WakeInv, HasRoom
  <2>3. ASSUME NEW l \in Lanes, NextOf(l)' # None PROVE Woken(l)'
    <3>1. NextOf(l)' = NextOf(l)
      BY <1>1 DEF NextOf
    <3>2. QED
      BY <1>1, <1>5, <2>1, <2>3, <3>1 DEF Woken
  <2>4. QED
    BY <1>1, <2>1, <2>2, <2>3 DEF WakeInv
<1>14. QED
  BY <1>5, <1>6, <1>9, <1>10, <1>11, <1>12, <1>13 DEF JournalInv

-----------------------------------------------------------------------------
(* The process starts from the state file.                                 *)
LEMMA RestoredKeeps ==
  ASSUME JournalInv, Restored
  PROVE  JournalInv'
<1>1. /\ ingress' = disk.ingress /\ entry' = disk.entry /\ seen' = disk.seen /\ life' = disk.life
      /\ dead' = disk.dead /\ durable' = TRUE /\ armed' = FALSE
      /\ callback' = Idle /\ mutations' = <<>> /\ waiting' = FALSE /\ undo' = NoUndo
      /\ turn' = [l \in Lanes |-> NoTurn] /\ pending' = None
      /\ UNCHANGED <<posted, out, stopped, disk>>
  BY DEF Restored
<1>2. disk \in SnapshotType /\ Len(disk.ingress) <= IngressCap /\ Honest(disk, out, posted, stopped)
  BY DEF JournalInv, JournalType, ClaimsInv
<1>3. /\ disk.ingress \in Seq(Messages) /\ disk.entry \in [Messages -> RowType] /\ disk.seen \subseteq Messages
      /\ disk.life \in [Messages -> 0 .. Deleted] /\ disk.dead \subseteq Messages
  BY <1>2 DEF SnapshotType
<1> DEFINE first(l) == Oldest(disk.ingress, l)
           ready == {l \in Lanes : first(l) # None /\ ~disk.entry[first(l)].delayed}
<1>4. /\ tasks' = [l \in Lanes |-> IF l \in ready THEN << <<first(l), disk.entry[first(l)].rev>> >> ELSE <<>>]
      /\ running' = {first(l) : l \in ready}
  BY DEF Restored
<1>5. ASSUME NEW l \in Lanes, first(l) # None
      PROVE  first(l) \in Messages /\ LaneOf(first(l)) = l /\ first(l) \in disk.seen /\ disk.entry[first(l)].rev \in Nat
  <2>1. PICK i \in 1 .. Len(disk.ingress) : first(l) = disk.ingress[i] /\ LaneOf(disk.ingress[i]) = l
    BY <1>3, <1>5, OldestIs
  <2>2. first(l) \in Messages /\ first(l) \in disk.seen
    BY <1>2, <1>3, <2>1 DEF Honest
  <2>3. QED
    BY <1>3, <2>1, <2>2 DEF RowType
<1> HIDE DEF first
<1>6. JournalType'
  BY <1>1, <1>2, <1>3 DEF JournalInv, JournalType
<1>7. QueueType'
  <2>1. callback' \in CallbackType /\ callback'.phase = "idle"
    BY <1>1 DEF CallbackType, Idle
  <2>2. undo' \in [clean : SUBSET Messages, ingress : Seq(Messages)]
    BY <1>1 DEF NoUndo
  <2>3. mutations' \in Seq(Actors)
    BY <1>1
  <2>4. QED
    BY <1>1, <2>1, <2>2, <2>3 DEF QueueType
<1>8. NoTurn \in TurnType /\ NoTurn.phase = "idle"
  BY ConstantsAssumption DEF NoTurn, TurnType, Deleted
<1>9. \A l \in Lanes : turn'[l].phase = "idle"
  BY <1>1, <1>8
<1>10. \A a : ~Waits(a)' /\ ~Contains(mutations', a)
  BY <1>1 DEF Waits, Contains
<1>11. MutationsInv'
  <2>1. Once(mutations')
    BY <1>1 DEF Once
  <2>2. QED
    BY <1>1, <1>9, <1>10, <2>1 DEF MutationsInv, At
<1>12. ASSUME NEW l \in Lanes
       PROVE  /\ tasks'[l] \in Seq(Messages \X Nat)
              /\ l \in ready => tasks'[l] = << <<first(l), disk.entry[first(l)].rev>> >>
              /\ l \notin ready => tasks'[l] = <<>>
  <2>1. CASE l \in ready
    <3>1. tasks'[l] = << <<first(l), disk.entry[first(l)].rev>> >>
      BY <1>4, <2>1
    <3>2. <<first(l), disk.entry[first(l)].rev>> \in Messages \X Nat
      BY <1>5, <2>1
    <3>3. << <<first(l), disk.entry[first(l)].rev>> >> \in Seq(Messages \X Nat)
      BY <3>2
    <3>4. QED
      BY <2>1, <3>1, <3>3
  <2>2. CASE l \notin ready
    <3>1. tasks'[l] = <<>>
      BY <1>4, <2>2
    <3>2. QED
      BY <2>2, <3>1
  <2>3. QED
    BY <2>1, <2>2
<1>13. WorkType'
  <2>1. tasks' \in [Lanes -> Seq(Messages \X Nat)]
    <3>1. tasks' = [l \in Lanes |-> tasks'[l]]
      BY <1>4
    <3>2. QED
      BY <1>12, <3>1
  <2>2. running' \subseteq Messages
    BY <1>4, <1>5
  <2>3. QED
    BY <1>1, <1>8, <2>1, <2>2 DEF WorkType
<1>14. TasksInv'
  <2>1. running' \subseteq seen'
    BY <1>1, <1>4, <1>5
  <2>2. ASSUME NEW l \in Lanes, NEW i \in 1 .. Len(tasks'[l])
        PROVE  /\ LaneOf(tasks'[l][i][1]) = l /\ tasks'[l][i][1] \in running'
               /\ \A j \in 1 .. Len(tasks'[l]) : i = j
               /\ tasks'[l][i][2] = entry'[tasks'[l][i][1]].rev
               /\ tasks'[l][i][2] \in Nat
    <3>1. l \in ready /\ tasks'[l] = << <<first(l), disk.entry[first(l)].rev>> >>
      BY <1>12, <2>2
    <3>2. i = 1 /\ \A j \in 1 .. Len(tasks'[l]) : j = 1
      BY <2>2, <3>1
    <3>3. tasks'[l][i] = <<first(l), disk.entry[first(l)].rev>>
      BY <3>1, <3>2
    <3>4. first(l) \in running'
      BY <1>4, <3>1
    <3>5. QED
      BY <1>1, <1>5, <3>1, <3>2, <3>3, <3>4
  <2>3. ASSUME NEW m \in running'
        PROVE  \E i \in 1 .. Len(tasks'[LaneOf(m)]) : tasks'[LaneOf(m)][i][1] = m
    <3>1. PICK l \in ready : m = first(l)
      BY <1>4
    <3>2. LaneOf(m) = l
      BY <1>5, <3>1
    <3>3. tasks'[l] = << <<first(l), disk.entry[first(l)].rev>> >>
      BY <1>12
    <3>4. 1 \in 1 .. Len(tasks'[l]) /\ tasks'[l][1][1] = m
      BY <3>1, <3>3
    <3>5. QED
      BY <3>2, <3>4
  <2>4. Dispatched(tasks', running')
    BY <2>2, <2>3 DEF Dispatched
  <2>5. KnownRevisions(tasks', entry')
    BY <2>2 DEF KnownRevisions
  <2>6. QED
    BY <1>9, <2>1, <2>4, <2>5 DEF TasksInv, At
<1>15. TurnsInv' /\ UndoInv' /\ CallbackInv'
  BY <1>1, <1>9, <1>10 DEF TurnsInv, UndoInv, CallbackInv, At, Idle
<1>16. ClaimsInv'
  <2>1. Snapshot' = disk
    BY <1>1, <1>2 DEF Snapshot, SnapshotType
  <2>2. Ahead(disk, disk.seen, disk.entry)
    BY <1>2, AheadOf
  <2>3. QED
    BY <1>1, <1>2, <2>1, <2>2 DEF ClaimsInv
<1>17. WakeInv'
  <2>1. ASSUME NEW l \in Lanes, NextOf(l)' # None PROVE Woken(l)'
    <3>1. NextOf(l)' = first(l)
      BY <1>1 DEF NextOf, first
    <3>2. CASE l \in ready
      BY <1>12, <3>2 DEF Woken
    <3>3. CASE l \notin ready
      BY <1>1, <2>1, <3>1, <3>3 DEF Woken
    <3>4. QED
      BY <3>2, <3>3
  <2>2. QED
    BY <1>1, <1>10, <2>1 DEF WakeInv
<1>18. QED
  BY <1>6, <1>7, <1>11, <1>13, <1>14, <1>15, <1>16, <1>17 DEF JournalInv

-----------------------------------------------------------------------------
(* The mutations of a turn.                                                *)
LEMMA TurnQueued ==
  ASSUME JournalInv, NEW l \in Lanes, HeadIs(l)
  PROVE  /\ TurnTypes /\ turn[l].phase \in Mutating /\ turn[l].phase # "idle" /\ l \in Actors
         /\ l # Callback /\ l # Retry /\ Contains(mutations, l)
         /\ tasks[l] # <<>> /\ turn[l].msg = tasks[l][1][1] /\ turn[l].rev = tasks[l][1][2]
         /\ turn[l].msg \in Messages /\ turn[l].msg \in seen /\ LaneOf(turn[l].msg) = l
         /\ turn[l].rev <= RowOf(l).rev /\ RowOf(l) \in RowType /\ turn[l] \in TurnType
         /\ \A a \in Actors : a # l => ~Waits(a)
         /\ HonestRow(turn[l].msg, RowOf(l), out)
<1>1. l \in Actors /\ l # Callback /\ l # Retry
  BY ActorsDiffer
<1>2. Contains(mutations, l)
  BY <1>1, WaitsIs DEF JournalInv
<1>3. turn[l].phase \in Mutating
  BY <1>2 DEF JournalInv, MutationsInv
<1>4. turn[l].phase # "idle" /\ ~At(l, "idle")
  BY <1>3 DEF Mutating, At
<1>5. TurnTypes
  BY DEF JournalInv, TurnTypes
<1>6. \A a \in Actors : a # l => ~Waits(a)
  BY DEF Waits, HeadIs
<1>7. turn[l].msg \in Messages
  BY <1>4, <1>5, TurnIs
<1>8. HonestRow(turn[l].msg, RowOf(l), out)
  BY <1>7 DEF JournalInv, ClaimsInv, Honest, Snapshot, RowOf
<1>9. QED
  BY <1>1, <1>2, <1>3, <1>4, <1>5, <1>6, <1>8, TurnIs

LEMMA OneTurn ==
  ASSUME TurnTypes, NEW l \in Lanes, UNCHANGED out,
         \A k \in Lanes \ {l} : turn'[k] = turn[k] /\ (Waits(k)' <=> Waits(k)),
         \A m \in Messages : LaneOf(m) # l => entry'[m] = entry[m],
         turn'[l].phase # "idle" /\ RowOf(l)'.rev = turn'[l].rev => TurnKnows(l)',
         turn'[l].phase = "complete" /\ Waits(l)' => AnsweredIn(turn'[l].msg, out)
  PROVE  TurnsInv'
<1>1. ASSUME NEW k \in Lanes \ {l}, turn'[k].phase # "idle", RowOf(k)'.rev = turn'[k].rev PROVE TurnKnows(k)'
  <2>1. turn'[k] = turn[k] /\ (Waits(k)' <=> Waits(k)) /\ turn[k].phase # "idle"
    BY <1>1
  <2>2. turn[k].msg \in Messages /\ LaneOf(turn[k].msg) = k
    BY <2>1, TurnIs DEF At
  <2>3. RowOf(k)' = RowOf(k)
    BY <2>1, <2>2 DEF RowOf
  <2>4. TurnKnows(k)
    BY <1>1, <2>1, <2>3 DEF TurnTypes, TurnsInv, At
  <2>5. QED
    BY <2>1, <2>3, <2>4 DEF TurnKnows, At
<1>2. ASSUME NEW k \in Lanes \ {l}, turn'[k].phase = "complete", Waits(k)' PROVE AnsweredIn(turn'[k].msg, out)
  BY <1>2 DEF TurnTypes, TurnsInv, At
<1>3. QED
  BY <1>1, <1>2 DEF TurnsInv, At

LEMMA HonestRows ==
  ASSUME JournalInv, UNCHANGED <<posted, ingress, seen, life, dead, out, stopped>>,
         \A m \in Messages : HonestRow(m, entry'[m], out)
  PROVE  Honest(Snapshot', out', posted', stopped')
<1>1. /\ Snapshot'.ingress = Snapshot.ingress /\ Snapshot'.entry = entry' /\ Snapshot'.life = Snapshot.life
      /\ Snapshot'.dead = Snapshot.dead /\ Snapshot'.seen = Snapshot.seen
  BY DEF Snapshot
<1>2. Honest(Snapshot, out, posted, stopped)
  BY DEF JournalInv, ClaimsInv
<1>3. QED
  BY <1>1, <1>2 DEF Honest

(* The part of a mutation before the wait: the row of the message changes, *)
(* or goes.                                                                *)
Removes(l, m) ==
  /\ Splices({m}) /\ undo'.ingress = ingress /\ turn'[l].phase \in {"remove", "dead"}
  /\ dead \subseteq dead' /\ dead' \subseteq Messages
  /\ AnsweredIn(m, out) \/ m \in dead'
  /\ turn'[l].phase = "dead" => Journaled(m)
LEMMA TurnWrites ==
  ASSUME JournalInv, NEW l \in Lanes, HeadIs(l), waiting' = TRUE, pending' = Snapshot', durable' \in {durable, TRUE},
         UNCHANGED <<posted, seen, life, armed, callback, mutations, tasks, running, stalled, out, stopped, disk>>,
         NEW phase \in Mutating, Becomes(l, phase),
         undo' \in [clean : SUBSET Messages, ingress : Seq(Messages)],
         NEW new \in RowType, entry' = [entry EXCEPT ![turn[l].msg] = new],
         AheadRow(RowOf(l), new), RowOf(l).delayed => new.delayed, HonestRow(turn[l].msg, new, out),
         \/ UNCHANGED <<ingress, dead>> /\ phase \notin {"remove", "dead"}
         \/ Removes(l, turn[l].msg),
         RowOf(l)'.rev = turn'[l].rev => TurnKnows(l)',
         phase = "complete" => AnsweredIn(turn[l].msg, out)
  PROVE  JournalInv'
<1> DEFINE m == turn[l].msg
<1>1. /\ TurnTypes /\ turn[l].phase # "idle" /\ l \in Actors /\ l # Callback /\ l # Retry /\ Contains(mutations, l)
      /\ tasks[l] # <<>> /\ m \in Messages /\ m \in seen /\ LaneOf(m) = l
      /\ \A a \in Actors : a # l => ~Waits(a)
  BY TurnQueued
<1>2. /\ turn' \in [Lanes -> TurnType] /\ (\A k \in Lanes \ {l} : turn'[k] = turn[k])
      /\ turn'[l].phase = phase /\ turn'[l].msg = m /\ turn'[l].rev = turn[l].rev
  BY DEF Becomes
<1>3. /\ Waits(l)' /\ \A a \in Actors : a # l => ~Waits(a)'
      /\ mutations # <<>>
  BY DEF Waits, HeadIs
<1>4. /\ ingress \in Seq(Messages) /\ entry \in [Messages -> RowType] /\ Len(ingress) <= IngressCap
      /\ dead \subseteq Messages /\ seen \subseteq Messages
      /\ \A i \in 1 .. Len(ingress) : ingress[i] \in seen
  BY DEF JournalInv, JournalType, ClaimsInv, Honest, Snapshot
<1>5. entry' \in [Messages -> RowType] /\ entry'[m] = new /\ \A k \in Messages : k # m => entry'[k] = entry[k]
  BY <1>1, <1>4
<1>6. RowOf(l) = entry[m] /\ RowOf(l)' = new
  BY <1>2, <1>5 DEF RowOf
<1> HIDE DEF m
<1>7. /\ ingress' \in Seq(Messages) /\ Len(ingress') <= Len(ingress) /\ dead \subseteq dead' /\ dead' \subseteq Messages
      /\ \A i \in 1 .. Len(ingress') : \E j \in 1 .. Len(ingress) : ingress'[i] = ingress[j]
      /\ \A k \in Lanes : k # l => NextOf(k)' = NextOf(k)
  <2>1. CASE UNCHANGED <<ingress, dead>>
    <3>1. \A k \in Lanes : NextOf(k)' = NextOf(k)
      BY <2>1 DEF NextOf
    <3>2. QED
      BY <1>4, <2>1, <3>1
  <2>2. CASE Removes(l, m)
    <3>1. Splices({m}) /\ dead \subseteq dead' /\ dead' \subseteq Messages
      BY <2>2 DEF Removes
    <3>2. {m} \in SUBSET Messages
      BY <1>1
    <3>3. /\ ingress' \in Seq(Messages) /\ Len(ingress') <= Len(ingress)
          /\ \A i \in 1 .. Len(ingress') : \E j \in 1 .. Len(ingress) : ingress'[i] = ingress[j]
          /\ \A k \in Lanes : (\A h \in {m} : LaneOf(h) # k) => Oldest(ingress', k) = NextOf(k)
      BY <1>4, <3>1, <3>2, SplicesKeep
    <3>4. \A k \in Lanes : k # l => Oldest(ingress', k) = NextOf(k)
      BY <1>1, <3>3
    <3>5. \A k \in Lanes : k # l => NextOf(k)' = NextOf(k)
      BY <3>4 DEF NextOf
    <3>6. QED
      BY <3>1, <3>3, <3>5
  <2>3. QED
    BY <2>1, <2>2 DEF m
<1>8. Len(ingress') <= IngressCap
  <2>1. Len(ingress') \in Nat /\ Len(ingress) \in Nat
    BY <1>4, <1>7
  <2>2. QED
    BY <1>4, <1>7, <2>1, ConstantsAssumption
<1>9. JournalType'
  <2>1. Snapshot' \in SnapshotType /\ Snapshot'.ingress = ingress'
    BY <1>5, <1>7 DEF Snapshot, SnapshotType, JournalInv, JournalType
  <2>2. QED
    BY <1>5, <1>7, <1>8, <2>1 DEF JournalInv, JournalType
<1>10. QueueType'
  BY DEF JournalInv, QueueType
<1>11. MutationsInv'
  <2>1. \A k \in Lanes : Contains(mutations', k) => turn'[k].phase \in Mutating
    BY <1>2 DEF JournalInv, MutationsInv
  <2>2. \A k \in Lanes : turn'[k].phase = "remove" => Waits(k)'
    BY <1>1, <1>2, <1>3, ActorsDiffer DEF JournalInv, MutationsInv, At
  <2>3. QED
    BY <1>3, <2>1, <2>2 DEF JournalInv, MutationsInv, At
<1>12. Rises
  <2>1. \A k \in seen : AheadRow(entry[k], entry'[k])
    <3>1. \A k \in seen : AheadRow(entry[k], entry[k])
      BY <1>4 DEF AheadRow, RowType
    <3>2. AheadRow(entry[m], new)
      BY <1>6
    <3>3. QED
      BY <1>4, <1>5, <3>1, <3>2
  <2>2. QED
    BY <2>1 DEF Rises
<1>13. WorkType' /\ TasksInv'
  <2>1. SameTasks
    BY <1>1, <1>2 DEF SameTasks, m, Mutating
  <2>2. QED
    BY <1>9, <1>12, <2>1, TasksStay DEF JournalInv
<1>14. TurnsInv'
  <2>1. \A k \in Lanes \ {l} : turn'[k] = turn[k] /\ (Waits(k)' <=> Waits(k))
    BY <1>1, <1>2, <1>3, ActorsDiffer
  <2>2. \A k \in Messages : LaneOf(k) # l => entry'[k] = entry[k]
    BY <1>1, <1>5
  <2>3. turn'[l].phase = "complete" => AnsweredIn(turn'[l].msg, out)
    BY <1>2 DEF m
  <2>4. QED
    BY <1>1, <2>1, <2>2, <2>3, OneTurn
<1>15. UndoInv'
  <2>1. ASSUME NEW k \in Lanes, Waits(k)', turn'[k].phase \in {"remove", "dead"}
        PROVE  /\ \A i \in 1 .. Len(ingress') : \E j \in 1 .. Len(undo'.ingress) : undo'.ingress[j] = ingress'[i]
               /\ turn'[k].phase = "dead" => \E j \in 1 .. Len(undo'.ingress) : undo'.ingress[j] = turn'[k].msg
               /\ \A j \in 1 .. Len(undo'.ingress) : undo'.ingress[j] \in seen'
               /\ Len(undo'.ingress) <= IngressCap
    <3>1. k = l
      BY <1>3, <2>1, ActorsDiffer
    <3>2. Removes(l, m)
      BY <1>2, <2>1, <3>1 DEF m
    <3>3. undo'.ingress = ingress /\ (phase = "dead" => Journaled(m))
      BY <1>2, <3>2 DEF Removes
    <3>4. phase = "dead" => \E j \in 1 .. Len(ingress) : ingress[j] = m
      BY <3>3 DEF Journaled, Contains
    <3>5. \A i \in 1 .. Len(ingress') : \E j \in 1 .. Len(ingress) : ingress[j] = ingress'[i]
      BY <1>7
    <3>6. QED
      BY <1>2, <1>4, <3>1, <3>3, <3>4, <3>5
  <2>2. QED
    BY <2>1 DEF UndoInv, At
<1>16. WakeInv'
  <2>1. (Retries' <=> Retries) /\ (~durable => Retries)
    BY DEF Retries, JournalInv, WakeInv
  <2>2. Pumps => Pumps'
    <3>1. HasRoom => HasRoom'
      <4>1. Len(ingress') \in Nat /\ Len(ingress) \in Nat
        BY <1>4, <1>7
      <4>2. QED
        BY <1>7, <4>1, ConstantsAssumption DEF HasRoom
    <3>2. QED
      BY <1>1, <3>1, ActorsDiffer DEF Pumps
  <2>3. ASSUME NEW k \in Lanes, NextOf(k)' # None PROVE Woken(k)'
    <3>1. CASE k = l
      BY <1>1, <3>1 DEF Woken
    <3>2. CASE k # l
      <4>1. NextOf(k)' = NextOf(k) /\ NextOf(k) # None
        BY <1>7, <2>3, <3>2
      <4>2. NextOf(k) \in Messages /\ LaneOf(NextOf(k)) = k
        <5>1. PICK i \in 1 .. Len(ingress) : NextOf(k) = ingress[i] /\ LaneOf(ingress[i]) = k
          BY <1>4, <4>1, OldestIs DEF NextOf
        <5>2. QED
          BY <1>4, <5>1
      <4>3. entry'[NextOf(k)] = entry[NextOf(k)]
        BY <1>1, <1>5, <3>2, <4>2
      <4>4. Woken(k)
        BY <4>1 DEF JournalInv, WakeInv
      <4>5. durable => durable'
        OBVIOUS
      <4>6. QED
        BY <2>1, <2>2, <4>1, <4>3, <4>4, <4>5 DEF Woken
    <3>3. QED
      BY <3>1, <3>2
  <2>4. ~Waits(Callback)'
    BY <1>1, <1>3, ActorsDiffer
  <2>5. ~durable' => Retries'
    BY <2>1
  <2>6. QED
    BY <2>3, <2>4, <2>5 DEF WakeInv
<1>17. ClaimsInv'
  <2>1. \A k \in Messages : HonestRow(k, entry'[k], out)
    <3>1. \A k \in Messages : HonestRow(k, entry[k], out)
      BY DEF JournalInv, ClaimsInv, Honest, Snapshot
    <3>2. HonestRow(m, new, out)
      BY DEF m
    <3>3. QED
      BY <1>5, <3>1, <3>2
  <2>2. Honest(Snapshot', out', posted', stopped')
    <3>1. CASE UNCHANGED <<ingress, dead>>
      BY <2>1, <3>1, HonestRows
    <3>2. CASE Removes(l, m)
      <4>1. Splices({m}) /\ dead \subseteq dead' /\ (AnsweredIn(m, out) \/ m \in dead') /\ {m} \in SUBSET Messages
        BY <1>1, <3>2 DEF Removes
      <4>2. QED
        BY <1>9, <2>1, <4>1, HonestLess
    <3>3. QED
      BY <3>1, <3>2 DEF m
  <2>3. Grows
    BY GrowsAlone DEF JournalInv
  <2>4. QED
    BY <1>9, <1>12, <2>2, <2>3, ClaimsMove DEF JournalInv
<1>18. CallbackInv'
  <2>1. ~Waits(Callback) /\ ~Waits(Callback)'
    BY <1>1, <1>3, ActorsDiffer
  <2>2. QED
    BY <2>1 DEF JournalInv, CallbackInv
<1>19. QED
  BY <1>9, <1>10, <1>11, <1>13, <1>14, <1>15, <1>16, <1>17, <1>18 DEF JournalInv

(* What the mutation of each phase makes of the row.                       *)
Follows(l, new) ==
  /\ new \in RowType /\ new.rev = RowOf(l).rev /\ new.ver = RowOf(l).ver
  /\ new.done => RowOf(l).done \/ At(l, "complete")
  /\ RowOf(l).delayed => new.delayed
  /\ At(l, "prepare") => new.box # NoOutbox /\ new.box.next = 1
  /\ At(l, "part") => new.box.next = RowOf(l).box.next + 1
  /\ turn[l].phase \in {"uploaded", "sent"} => new.box.next = RowOf(l).box.next
  /\ turn[l].phase \notin {"prepare", "part", "uploaded", "sent"} => new.box = RowOf(l).box

LEMMA RowAfterIs ==
  ASSUME NEW l \in Lanes, RowOf(l) \in RowType, turn[l] \in TurnType, turn[l].phase \in Mutating \ {"remove"},
         NEW budget \in {"submitted", "budget"}
  PROVE  Follows(l, RowAfter(l, budget))
<1>1. PICK row \in RowType : row = RowOf(l) /\ row = TurnRow(l)
  BY DEF RowOf, TurnRow
<1>2. /\ row.box \in [next : Nat, file : {"none", "staged", "uploaded", "sent"}]
      /\ turn[l].file \in {"none", "staged"}
  BY DEF RowType, TurnType
<1>3. CASE At(l, "begin")
  <2>1. RowAfter(l, budget) = [row EXCEPT !.media = budget]
    BY <1>1, <1>3 DEF RowAfter, At, BoundaryOf
  <2>2. QED
    BY <1>1, <1>3, <2>1 DEF Follows, RowType, At
<1>4. CASE At(l, "result")
  <2>1. RowAfter(l, budget) = [row EXCEPT !.media = "complete"]
    BY <1>1, <1>4 DEF RowAfter, At, AnalysisKept
  <2>2. QED
    BY <1>1, <1>4, <2>1 DEF Follows, RowType, At
<1>5. CASE At(l, "prepare")
  <2>1. RowAfter(l, budget) = [row EXCEPT !.box = Outbox(turn[l].file)]
    BY <1>1, <1>5 DEF RowAfter, At, Prepared
  <2>2. Outbox(turn[l].file) \in [next : Nat, file : {"none", "staged", "uploaded", "sent"}]
        /\ Outbox(turn[l].file) # NoOutbox /\ Outbox(turn[l].file).next = 1
    BY <1>2 DEF Outbox, NoOutbox
  <2>3. QED
    BY <1>1, <1>5, <2>1, <2>2 DEF Follows, RowType, At
<1>6. CASE At(l, "part")
  <2> DEFINE box == [row.box EXCEPT !.next = row.box.next + 1]
  <2>1. RowAfter(l, budget) = [row EXCEPT !.box = box]
    BY <1>1, <1>6 DEF RowAfter, At, PartMarked
  <2>2. box \in [next : Nat, file : {"none", "staged", "uploaded", "sent"}] /\ box.next = row.box.next + 1
    BY <1>2
  <2> HIDE DEF box
  <2>3. QED
    BY <1>1, <1>6, <2>1, <2>2 DEF Follows, RowType, At
<1>7. CASE At(l, "uploaded")
  <2> DEFINE box == [row.box EXCEPT !.file = "uploaded"]
  <2>1. RowAfter(l, budget) = [row EXCEPT !.box = box]
    BY <1>1, <1>7 DEF RowAfter, At, UploadMarked
  <2>2. box \in [next : Nat, file : {"none", "staged", "uploaded", "sent"}] /\ box.next = row.box.next
    BY <1>2
  <2> HIDE DEF box
  <2>3. QED
    BY <1>1, <1>7, <2>1, <2>2 DEF Follows, RowType, At
<1>8. CASE At(l, "sent")
  <2> DEFINE box == [row.box EXCEPT !.file = "sent"]
  <2>1. RowAfter(l, budget) = [row EXCEPT !.box = box]
    BY <1>1, <1>8 DEF RowAfter, At, SentMarked
  <2>2. box \in [next : Nat, file : {"none", "staged", "uploaded", "sent"}] /\ box.next = row.box.next
    BY <1>2
  <2> HIDE DEF box
  <2>3. QED
    BY <1>1, <1>8, <2>1, <2>2 DEF Follows, RowType, At
<1>9. CASE At(l, "complete")
  <2>1. RowAfter(l, budget) = [row EXCEPT !.done = TRUE]
    BY <1>1, <1>9 DEF RowAfter, At
  <2>2. QED
    BY <1>1, <1>9, <2>1 DEF Follows, RowType, At
<1>10. CASE At(l, "defer")
  <2>1. RowAfter(l, budget) = [row EXCEPT !.delayed = TRUE]
    BY <1>1, <1>10 DEF RowAfter, At, Delayed
  <2>2. QED
    BY <1>1, <1>10, <2>1 DEF Follows, RowType, At
<1>11. CASE At(l, "dead")
  <2>1. RowAfter(l, budget) = row
    BY <1>1, <1>11 DEF RowAfter, At
  <2>2. QED
    BY <1>1, <1>11, <2>1 DEF Follows, RowType, At
<1>12. QED
  BY <1>3, <1>4, <1>5, <1>6, <1>7, <1>8, <1>9, <1>10, <1>11 DEF Mutating, At

(* Such a row is ahead of the one it replaces, and as honest.              *)
LEMMA FollowsIsHonest ==
  ASSUME NEW l \in Lanes, NEW new, Follows(l, new), RowOf(l) \in RowType, turn[l].phase \in Mutating,
         HonestRow(turn[l].msg, RowOf(l), out), TurnKnows(l), ~Waits(l)
  PROVE  AheadRow(RowOf(l), new) /\ HonestRow(turn[l].msg, new, out)
<1> DEFINE m == turn[l].msg
           row == RowOf(l)
<1>1. /\ row.box.next \in Nat /\ new.box.next \in Nat /\ row.rev \in Nat
      /\ new.rev = row.rev /\ new.ver = row.ver
      /\ NoOutbox.next = 0
  BY DEF Follows, RowType, NoOutbox
<1>2. /\ row.done => AnsweredIn(m, out)
      /\ row.box = NoOutbox \/ row.box.next >= 1
      /\ \A part \in 1 .. row.box.next - 1 : <<m, row.ver, part>> \in out
  BY DEF HonestRow
<1>3. new.done => AnsweredIn(m, out)
  BY <1>2 DEF Follows, TurnKnows
<1>4. CASE At(l, "prepare")
  <2>1. new.box # NoOutbox /\ new.box.next = 1
    BY <1>4 DEF Follows
  <2>2. QED
    BY <1>1, <1>3, <2>1 DEF AheadRow, HonestRow
<1>5. CASE At(l, "part")
  <2>1. new.box.next = row.box.next + 1 /\ <<m, row.ver, row.box.next>> \in out
    BY <1>5 DEF Follows, TurnKnows
  <2>2. new.box.next >= 1 /\ new.box # NoOutbox
    BY <1>1, <2>1
  <2>3. \A part \in 1 .. new.box.next - 1 : part = row.box.next \/ part \in 1 .. row.box.next - 1
    BY <1>1, <2>1
  <2>4. QED
    BY <1>1, <1>2, <1>3, <2>1, <2>2, <2>3 DEF AheadRow, HonestRow
<1>6. CASE turn[l].phase \in {"uploaded", "sent"}
  <2>1. new.box.next = row.box.next /\ row.box # NoOutbox
    BY <1>6 DEF Follows, TurnKnows
  <2>2. new.box.next >= 1 /\ new.box # NoOutbox
    BY <1>1, <1>2, <2>1
  <2>3. QED
    BY <1>1, <1>2, <1>3, <2>1, <2>2 DEF AheadRow, HonestRow
<1>7. CASE turn[l].phase \notin {"prepare", "part", "uploaded", "sent"}
  <2>1. new.box = row.box
    BY <1>7 DEF Follows
  <2>2. QED
    BY <1>1, <1>2, <1>3, <2>1 DEF AheadRow, HonestRow
<1>8. QED
  BY <1>4, <1>5, <1>6, <1>7 DEF At

LEMMA MutationRunsKeeps ==
  ASSUME JournalInv, NEW l \in Lanes, MutationRuns(l)
  PROVE  JournalInv'
<1> DEFINE m == turn[l].msg
           ends == At(l, "complete") /\ entry[m].done
           phase == IF ends THEN "remove" ELSE turn[l].phase
<1>1. /\ HeadIs(l) /\ ~waiting /\ waiting' = TRUE /\ Current(m, turn[l].rev) /\ pending' = Snapshot'
      /\ UNCHANGED <<posted, seen, life, durable, armed, callback, mutations, tasks, running, stalled, out, stopped, disk>>
  BY DEF MutationRuns, TurnRuns, Runs, control, effects, Saved
<1>2. /\ TurnTypes /\ turn[l].phase \in Mutating /\ turn[l].phase # "idle" /\ l \in Actors /\ m \in Messages
      /\ RowOf(l) \in RowType /\ turn[l] \in TurnType /\ HonestRow(m, RowOf(l), out)
  BY <1>1, TurnQueued
<1>3. ~Waits(l) /\ Waits(l)'
  BY <1>1 DEF Waits, HeadIs
<1>4. turn[l].phase # "remove"
  BY <1>3 DEF JournalInv, MutationsInv, At
<1>5. RowOf(l) = entry[m] /\ RowOf(l).rev = turn[l].rev /\ Journaled(m)
  BY <1>1 DEF RowOf, Current
<1>6. TurnKnows(l)
  BY <1>2, <1>5 DEF TurnTypes, TurnsInv, At
<1>7. PICK budget \in {"submitted", "budget"} : entry' = [entry EXCEPT ![m] = RowAfter(l, budget)]
  BY DEF MutationRuns, Changes
<1> DEFINE new == RowAfter(l, budget)
<1>8. Follows(l, new)
  BY <1>2, <1>4, RowAfterIs
<1>9. AheadRow(RowOf(l), new) /\ HonestRow(m, new, out)
  BY <1>2, <1>3, <1>6, <1>8, FollowsIsHonest
<1>10. Becomes(l, phase)
  <2>1. turn' = IF ends THEN [turn EXCEPT ![l].phase = "remove"] ELSE turn
    BY DEF MutationRuns
  <2>2. CASE ends
    BY <2>1, <2>2, GoesIs DEF JournalInv, Goes, Mutating
  <2>3. CASE ~ends
    BY <2>1, <2>3, StillTurns DEF Becomes, SameTurns
  <2>4. QED
    BY <2>2, <2>3
<1>11. phase \in Mutating /\ (phase = "dead" <=> At(l, "dead")) /\ (phase # "remove" => phase = turn[l].phase)
       /\ (phase = "remove" <=> ends)
  BY <1>2, <1>4 DEF Mutating, At
<1> DEFINE removes == At(l, "dead") \/ ends
<1>12. /\ IF removes THEN Splices({m}) ELSE UNCHANGED ingress
       /\ undo' = IF removes THEN [clean |-> {}, ingress |-> ingress] ELSE NoUndo
       /\ dead' = IF At(l, "dead") THEN dead \cup {m} ELSE dead
  BY DEF MutationRuns
<1>13. ingress \in Seq(Messages) /\ dead \subseteq Messages /\ entry \in [Messages -> RowType]
  BY DEF JournalInv, JournalType
<1>14. undo' \in [clean : SUBSET Messages, ingress : Seq(Messages)]
  BY <1>12, <1>13 DEF NoUndo
<1>15. turn'[l].phase = phase /\ turn'[l].msg = m /\ turn'[l].rev = turn[l].rev /\ turn'[l].ver = turn[l].ver
  BY <1>10 DEF Becomes
<1>16. RowOf(l)' = new
  BY <1>2, <1>7, <1>13, <1>15 DEF RowOf
<1> HIDE DEF m, new, phase, ends
<1>17. \/ UNCHANGED <<ingress, dead>> /\ phase \notin {"remove", "dead"}
       \/ Removes(l, m)
  <2>1. CASE removes
    <3>1. AnsweredIn(m, out) \/ m \in dead'
      BY <1>2, <1>5, <1>12, <2>1 DEF HonestRow, ends
    <3>2. Removes(l, m)
      BY <1>2, <1>5, <1>11, <1>12, <1>13, <1>15, <2>1, <3>1 DEF Removes
    <3>3. QED
      BY <3>2
  <2>2. CASE ~removes
    BY <1>11, <1>12, <2>2
  <2>3. QED
    BY <2>1, <2>2
<1>18. TurnKnows(l)'
  <2>1. new.ver = turn[l].ver
    BY <1>6, <1>8 DEF Follows, TurnKnows
  <2>2. phase = "prepare" => new.box # NoOutbox
    BY <1>8, <1>11 DEF Follows, At
  <2>3. phase \in Fresh /\ phase # "prepare" => new.box = NoOutbox
    <3>1. phase \in Fresh => phase = turn[l].phase /\ phase \notin {"part", "uploaded", "sent"}
      BY <1>11 DEF Fresh
    <3>2. turn[l].phase \in Fresh => RowOf(l).box = NoOutbox
      BY <1>3, <1>6 DEF TurnKnows
    <3>3. QED
      BY <1>8, <3>1, <3>2 DEF Follows
  <2>4. phase \in {"part", "uploaded", "sent"} => new.box # NoOutbox
    <3>1. phase \in {"part", "uploaded", "sent"} => phase = turn[l].phase /\ RowOf(l).box # NoOutbox
      BY <1>6, <1>11 DEF TurnKnows
    <3>2. QED
      BY <1>9, <3>1, <1>8 DEF AheadRow, Follows
  <2>5. phase = "complete" => AnsweredIn(m, out)
    BY <1>6, <1>11 DEF TurnKnows, At, m
  <2>6. phase \notin {"send", "confirm"}
    BY <1>11 DEF Mutating
  <2>7. QED
    BY <1>1, <1>3, <1>15, <1>16, <2>1, <2>2, <2>3, <2>4, <2>5, <2>6 DEF TurnKnows, At
<1>19. phase = "complete" => AnsweredIn(m, out)
  BY <1>6, <1>11 DEF TurnKnows, At, m
<1>20. new \in RowType /\ (RowOf(l).delayed => new.delayed)
  BY <1>8 DEF Follows
<1>21. QED
  BY <1>1, <1>7, <1>9, <1>10, <1>11, <1>14, <1>17, <1>18, <1>19, <1>20, TurnWrites DEF m, new

LEMMA MarkFlushedKeeps ==
  ASSUME JournalInv, NEW l \in Lanes, MarkFlushed(l)
  PROVE  JournalInv'
<1> DEFINE m == turn[l].msg
<1>1. /\ HeadIs(l) /\ Waits(l) /\ waiting' = TRUE /\ At(l, "complete") /\ durable' = TRUE
      /\ Splices({m}) /\ undo' = [clean |-> {}, ingress |-> ingress] /\ Goes(l, "remove") /\ pending' = Snapshot'
      /\ UNCHANGED <<posted, entry, seen, life, dead, armed, callback, mutations, tasks, running, stalled, out, stopped, disk>>
  BY DEF MarkFlushed, Waits, effects, Saved
<1>2. /\ TurnTypes /\ m \in Messages /\ RowOf(l) \in RowType /\ HonestRow(m, RowOf(l), out) /\ turn[l].phase # "idle"
  BY <1>1, TurnQueued
<1>3. Becomes(l, "remove")
  BY <1>1, GoesIs DEF JournalInv, Mutating
<1>4. ingress \in Seq(Messages) /\ dead \subseteq Messages /\ entry \in [Messages -> RowType]
  BY DEF JournalInv, JournalType
<1>5. AnsweredIn(m, out)
  BY <1>1 DEF JournalInv, TurnsInv
<1>6. /\ turn'[l].phase = "remove" /\ turn'[l].msg = m /\ turn'[l].rev = turn[l].rev /\ turn'[l].ver = turn[l].ver
  BY <1>3 DEF Becomes
<1>7. RowOf(l)' = RowOf(l)
  BY <1>1, <1>6 DEF RowOf
<1>8. Removes(l, m)
  BY <1>1, <1>4, <1>5, <1>6 DEF Removes
<1>9. RowOf(l)'.rev = turn'[l].rev => TurnKnows(l)'
  <2>1. RowOf(l).rev = turn[l].rev => RowOf(l).ver = turn[l].ver
    BY <1>2 DEF TurnTypes, TurnsInv, TurnKnows, At
  <2>2. QED
    BY <1>6, <1>7, <2>1 DEF TurnKnows, At, Fresh
<1>10. entry' = [entry EXCEPT ![m] = RowOf(l)]
  BY <1>1, <1>4 DEF RowOf
<1>11. AheadRow(RowOf(l), RowOf(l))
  BY <1>2 DEF AheadRow, RowType
<1>12. undo' \in [clean : SUBSET Messages, ingress : Seq(Messages)]
  BY <1>1, <1>4
<1>13. "remove" \in Mutating /\ "remove" # "complete"
  BY DEF Mutating
<1> HIDE DEF m
<1>14. QED
  BY <1>1, <1>2, <1>3, <1>8, <1>9, <1>10, <1>11, <1>12, <1>13, TurnWrites DEF m

(* The part after the wait, or instead of it: the mutation leaves the      *)
(* queue, or is followed by another one of the same turn.                  *)
LEMMA TurnPasses ==
  ASSUME JournalInv, NEW l \in Lanes, HeadIs(l), waiting' = FALSE,
         UNCHANGED <<posted, seen, life, callback, out, stopped, disk>>,
         \/ mutations' = Tail(mutations)
         \/ mutations' = Append(Tail(mutations), l) /\ turn'[l].phase \in Mutating,
         turn'[l].phase # "remove", \A k \in Lanes \ {l} : turn'[k] = turn[k],
         undo' \in [clean : SUBSET Messages, ingress : Seq(Messages)],
         durable' \in BOOLEAN, armed' \in BOOLEAN, ~durable' => armed' \/ ~durable, armed => armed',
         JournalType', WorkType', TasksInv', ClaimsInv',
         \A m \in Messages : LaneOf(m) # l => entry'[m] = entry[m],
         turn'[l].phase # "idle" /\ RowOf(l)'.rev = turn'[l].rev => TurnKnows(l)',
         \/ armed'
         \/ /\ UNCHANGED <<ingress, entry>>
            /\ (stalled => stalled') \/ Covered
            /\ \A k \in Lanes : NextOf(k) # None =>
                 \/ tasks'[k] # <<>>
                 \/ durable' /\ entry[NextOf(k)].delayed
                 \/ ~durable
                 \/ tasks'[k] = tasks[k] /\ durable'
  PROVE  JournalInv'
<1>1. /\ TurnTypes /\ turn[l].phase # "idle" /\ l \in Actors /\ l # Callback /\ l # Retry
      /\ \A a \in Actors : a # l => ~Waits(a)
  BY TurnQueued
<1>2. /\ mutations' \in Seq(Actors) /\ Once(mutations')
      /\ \A a \in Actors : ~Waits(a)'
      /\ \A a \in Actors : a # l => (Contains(mutations', a) <=> Contains(mutations, a))
      /\ Contains(mutations', l) => turn'[l].phase \in Mutating
  <2>1. CASE mutations' = Tail(mutations)
    BY <1>1, <2>1, QueuePops DEF JournalInv
  <2>2. CASE mutations' = Append(Tail(mutations), l) /\ turn'[l].phase \in Mutating
    BY <1>1, <2>2, QueueRepeats DEF JournalInv
  <2>3. QED
    BY <2>1, <2>2
<1>3. \A k \in Lanes : ~Waits(k)' /\ (k # l => ~Waits(k))
  BY <1>1, <1>2, ActorsDiffer
<1>4. ~Waits(Callback) /\ ~Waits(Callback)'
  BY <1>1, <1>2, ActorsDiffer
<1>5. QueueType'
  BY <1>2 DEF JournalInv, QueueType
<1>6. MutationsInv'
  <2>1. Contains(mutations', Callback) => callback'.phase # "idle"
    BY <1>1, <1>2, ActorsDiffer DEF JournalInv, MutationsInv
  <2>2. \A k \in Lanes : Contains(mutations', k) => turn'[k].phase \in Mutating
    BY <1>2, ActorsDiffer DEF JournalInv, MutationsInv
  <2>3. \A k \in Lanes : turn'[k].phase # "remove"
    BY <1>3 DEF JournalInv, MutationsInv, At
  <2>4. QED
    BY <1>2, <2>1, <2>2, <2>3 DEF MutationsInv, At
<1>7. TurnsInv'
  BY <1>1, <1>3, OneTurn
<1>8. UndoInv'
  BY <1>3, UndoQuiet
<1>9. WakeInv'
  <2>1. (~durable => Retries) /\ (Retries => Retries' \/ Covered) /\ (armed' => Retries')
    BY <1>1, <1>2, ActorsDiffer DEF Retries, JournalInv, WakeInv
  <2>2. ASSUME NEW k \in Lanes, NextOf(k)' # None PROVE Woken(k)'
    <3>1. CASE armed'
      BY <2>1, <3>1 DEF Woken
    <3>2. CASE ~armed'
      <4>1. UNCHANGED <<ingress, entry>> /\ NextOf(k)' = NextOf(k)
        BY <3>2 DEF NextOf
      <4>2. \/ tasks'[k] # <<>>
            \/ durable' /\ entry[NextOf(k)].delayed
            \/ ~durable
            \/ tasks'[k] = tasks[k] /\ durable'
        BY <2>2, <3>2, <4>1
      <4>3. Woken(k)
        BY <2>2, <4>1 DEF JournalInv, WakeInv
      <4>4. Pumps => Pumps'
        BY <1>1, <1>2, <1>4, <4>1, ActorsDiffer DEF Pumps, HasRoom
      <4>5. CASE Covered
        BY <2>2, <4>1, <4>5 DEF Woken, Covered
      <4>6. QED
        BY <2>1, <4>1, <4>2, <4>3, <4>4, <4>5 DEF Woken
    <3>3. QED
      BY <3>1, <3>2
  <2>3. ~durable' => Retries'
    BY <2>1 DEF Covered
  <2>4. QED
    BY <1>4, <2>2, <2>3 DEF WakeInv
<1>10. CallbackInv'
  BY <1>4 DEF JournalInv, CallbackInv
<1>11. QED
  BY <1>5, <1>6, <1>7, <1>8, <1>9, <1>10 DEF JournalInv

(* The task of the turn settles in its mutation.                           *)
LEMMA TurnSettles ==
  ASSUME JournalInv, NEW l \in Lanes, HeadIs(l), NEW on \in BOOLEAN, TaskEnds(l, on), UNCHANGED seen,
         entry' \in [Messages -> RowType], \A m \in Messages : entry'[m].rev = entry[m].rev
  PROVE  /\ WorkType' /\ TasksInv' /\ turn'[l].phase = "idle" /\ \A k \in Lanes \ {l} : turn'[k] = turn[k]
         /\ on => \A k \in Lanes : NextOf(k) # None => tasks'[k] # <<>> \/ entry[NextOf(k)].delayed
         /\ on \/ (stalled => stalled')
<1>1. /\ tasks[l] # <<>> /\ turn[l].msg = tasks[l][1][1] /\ TurnTypes
  BY TurnQueued
<1>2. turn' = [turn EXCEPT ![l] = NoTurn]
      /\ Pump(on, entry, [tasks EXCEPT ![l] = Tail(@)], running \ {tasks[l][1][1]})
  BY <1>1 DEF TaskEnds
<1>3. /\ JournalType /\ WorkType /\ TasksInv /\ ingress \in Seq(Messages) /\ tasks \in [Lanes -> Seq(Messages \X Nat)]
      /\ turn \in [Lanes -> TurnType] /\ running \subseteq seen
      /\ \A i \in 1 .. Len(ingress) : ingress[i] \in seen
  BY DEF JournalInv, JournalType, WorkType, TasksInv, ClaimsInv, Honest, Snapshot
<1> DEFINE ts == [tasks EXCEPT ![l] = Tail(tasks[l])]
<1>4. /\ PumpedTasks(on, entry, ts)
      /\ \A m \in running' : m \in running \/ \E i \in 1 .. Len(ingress) : ingress[i] = m
  BY <1>1, <1>2, <1>3, TaskDropped
<1>5. \A k \in Lanes \ {l} : ts[k] = tasks[k]
  BY <1>3
<1> HIDE DEF ts
<1>6. NoTurn \in TurnType /\ NoTurn.phase = "idle"
  BY ConstantsAssumption DEF NoTurn, TurnType, Deleted
<1>7. turn' \in [Lanes -> TurnType] /\ turn'[l].phase = "idle" /\ \A k \in Lanes \ {l} : turn'[k] = turn[k]
  BY <1>2, <1>3, <1>6
<1>8. WorkType'
  BY <1>4, <1>7 DEF WorkType, PumpedTasks
<1>9. KnownRevisions(tasks', entry')
  <2>1. ASSUME NEW k \in Lanes, NEW i \in 1 .. Len(tasks'[k])
        PROVE  tasks'[k][i][2] <= entry'[tasks'[k][i][1]].rev
    <3>1. tasks'[k][i] \in Messages \X Nat
      BY <1>8, <2>1 DEF WorkType
    <3>2. tasks'[k][i][2] <= entry[tasks'[k][i][1]].rev
      BY <1>4, <2>1 DEF PumpedTasks, KnownRevisions
    <3>3. QED
      BY <3>1, <3>2
  <2>2. QED
    BY <2>1 DEF KnownRevisions
<1>10. ASSUME NEW k \in Lanes, turn'[k].phase # "idle"
       PROVE  tasks'[k] # <<>> /\ tasks'[k][1] = <<turn'[k].msg, turn'[k].rev>>
  <2>1. k # l /\ turn'[k] = turn[k] /\ ts[k] = tasks[k]
    BY <1>5, <1>7, <1>10
  <2>2. tasks[k] # <<>> /\ tasks[k][1] = <<turn[k].msg, turn[k].rev>>
    BY <1>3, <1>10, <2>1 DEF TasksInv, At
  <2>3. QED
    BY <1>4, <2>1, <2>2 DEF PumpedTasks
<1>11. running' \subseteq seen'
  BY <1>3, <1>4
<1>12. TasksInv'
  BY <1>4, <1>9, <1>10, <1>11 DEF TasksInv, PumpedTasks, At
<1>13. on => \A k \in Lanes : NextOf(k) # None => tasks'[k] # <<>> \/ entry[NextOf(k)].delayed
  BY <1>4 DEF PumpedTasks
<1>14. on \/ (stalled => stalled')
  BY <1>4 DEF PumpedTasks
<1>15. QED
  BY <1>7, <1>8, <1>12, <1>13, <1>14

LEMMA MutationSupersededKeeps ==
  ASSUME JournalInv, NEW l \in Lanes, MutationSuperseded(l)
  PROVE  JournalInv'
<1>1. /\ HeadIs(l) /\ ~waiting /\ waiting' = FALSE /\ mutations' = Tail(mutations) /\ TaskEnds(l, durable)
      /\ UNCHANGED <<posted, ingress, entry, seen, life, dead, durable, armed, callback, undo, out, stopped,
                     pending, disk>>
  BY DEF MutationSuperseded, TurnRuns, Runs, journal, control, JournalInv, QueueType
<1>2. /\ entry \in [Messages -> RowType] /\ durable \in BOOLEAN /\ armed \in BOOLEAN
      /\ undo \in [clean : SUBSET Messages, ingress : Seq(Messages)]
  BY DEF JournalInv, JournalType, QueueType
<1>3. /\ WorkType' /\ TasksInv' /\ turn'[l].phase = "idle" /\ \A k \in Lanes \ {l} : turn'[k] = turn[k]
      /\ durable => \A k \in Lanes : NextOf(k) # None => tasks'[k] # <<>> \/ entry[NextOf(k)].delayed
      /\ durable \/ (stalled => stalled')
  BY <1>1, <1>2, TurnSettles
<1>4. JournalType'
  BY <1>1 DEF JournalInv, JournalType
<1>5. ClaimsInv'
  BY <1>1, ClaimsStay, GrowsAlone DEF JournalInv, journal
<1>6. (stalled => stalled') \/ Covered
  BY <1>1, <1>3 DEF Covered
<1>7. QED
  BY <1>1, <1>2, <1>3, <1>4, <1>5, <1>6, TurnPasses

LEMMA MutationFlushedKeeps ==
  ASSUME JournalInv, NEW l \in Lanes, MutationFlushed(l)
  PROVE  JournalInv'
<1>1. /\ HeadIs(l) /\ Waits(l) /\ waiting' = FALSE /\ undo' = NoUndo /\ mutations' = Tail(mutations)
      /\ durable' = TRUE /\ ~At(l, "complete")
      /\ UNCHANGED <<posted, ingress, entry, seen, life, dead, armed, callback, out, stopped, pending, disk>>
  BY DEF MutationFlushed, TurnWaits, Waits, journal
<1>2. /\ entry \in [Messages -> RowType] /\ armed \in BOOLEAN
      /\ undo' \in [clean : SUBSET Messages, ingress : Seq(Messages)]
  BY <1>1 DEF JournalInv, JournalType, QueueType, NoUndo
<1>3. JournalType'
  BY <1>1 DEF JournalInv, JournalType
<1>4. ClaimsInv'
  BY <1>1, ClaimsStay, GrowsAlone DEF JournalInv, journal
<1>5. CASE TaskEnds(l, TRUE)
  <2>1. /\ WorkType' /\ TasksInv' /\ turn'[l].phase = "idle" /\ \A k \in Lanes \ {l} : turn'[k] = turn[k]
        /\ \A k \in Lanes : NextOf(k) # None => tasks'[k] # <<>> \/ entry[NextOf(k)].delayed
    BY <1>1, <1>2, <1>5, TurnSettles
  <2>2. Covered
    BY <1>1, <2>1 DEF Covered
  <2>3. QED
    BY <1>1, <1>2, <1>3, <1>4, <2>1, <2>2, TurnPasses
<1>6. CASE /\ ~ \/ turn[l].phase \in {"remove", "dead", "defer"}
                \/ turn[l].phase \in {"begin", "result"} /\ ~TurnCurrent(l)
           /\ Goes(l, After(l)) /\ UNCHANGED <<tasks, running, stalled>>
  <2>1. /\ turn[l].phase \in {"begin", "result", "prepare", "part", "uploaded", "sent"}
        /\ turn[l].phase # "idle" /\ TurnTypes
    BY <1>1, <1>6, TurnQueued DEF Mutating, At
  <2>2. /\ After(l) \in {"analyze", "brain", "send"}
        /\ After(l) \in {"analyze", "brain"} => turn[l].phase \in {"begin", "result"}
        /\ After(l) = "send" => turn[l].phase \in {"prepare", "part", "uploaded", "sent"}
    BY <2>1 DEF After, At
  <2>3. Becomes(l, After(l))
    BY <1>6, <2>2, GoesIs DEF JournalInv, Waiting
  <2>4. /\ turn' \in [Lanes -> TurnType] /\ turn'[l].phase = After(l) /\ turn'[l].msg = turn[l].msg
        /\ turn'[l].rev = turn[l].rev /\ turn'[l].ver = turn[l].ver /\ \A k \in Lanes \ {l} : turn'[k] = turn[k]
    BY <2>3 DEF Becomes
  <2>5. SameTasks
    BY <1>6, <2>1, <2>2, <2>4 DEF SameTasks
  <2>6. WorkType' /\ TasksInv'
    BY <1>1, <1>3, <2>5, StillRows, TasksStay DEF JournalInv
  <2>7. RowOf(l)' = RowOf(l)
    BY <1>1, <2>4 DEF RowOf
  <2>8. RowOf(l)'.rev = turn'[l].rev => TurnKnows(l)'
    <3> HAVE RowOf(l)'.rev = turn'[l].rev
    <3>1. TurnKnows(l)
      BY <2>1, <2>4, <2>7 DEF TurnTypes, TurnsInv, At
    <3>2. turn[l].phase \in {"begin", "result"} => RowOf(l).box = NoOutbox
      BY <3>1 DEF TurnKnows, Fresh, At
    <3>3. turn[l].phase \in {"prepare", "part", "uploaded", "sent"} => RowOf(l).box # NoOutbox
      BY <1>1, <3>1 DEF TurnKnows, At
    <3>4. RowOf(l).ver = turn[l].ver
      BY <3>1 DEF TurnKnows
    <3>5. QED
      BY <2>2, <2>4, <2>7, <3>2, <3>3, <3>4 DEF TurnKnows, At, Fresh
  <2>9. turn'[l].phase # "remove"
    BY <2>2, <2>4
  <2>10. QED
    BY <1>1, <1>2, <1>3, <1>4, <1>6, <2>4, <2>6, <2>8, <2>9, TurnPasses
<1>7. QED
  BY <1>5, <1>6 DEF MutationFlushed

LEMMA MutationUnsavedKeeps ==
  ASSUME JournalInv, NEW l \in Lanes, MutationUnsaved(l)
  PROVE  JournalInv'
<1> DEFINE m == turn[l].msg
<1>1. /\ HeadIs(l) /\ Waits(l) /\ waiting' = FALSE /\ undo' = NoUndo /\ durable' = FALSE /\ armed' = TRUE
      /\ TakeBack(l) /\ pending' \in {pending, Snapshot'}
      /\ entry' = IF At(l, "begin") THEN [entry EXCEPT ![m].media = "none"] ELSE entry
      /\ UNCHANGED <<posted, seen, life, callback, out, stopped, disk>>
      /\ \/ mutations' = Tail(mutations) /\ TaskEnds(l, FALSE)
         \/ ~At(l, "defer") /\ mutations' = Append(Tail(mutations), l) /\ Goes(l, "defer") /\ UNCHANGED <<tasks, running, stalled>>
  BY DEF MutationUnsaved, TurnWaits, Waits, Frozen, effects, Saved
<1>2. /\ TurnTypes /\ m \in Messages /\ turn[l].phase # "idle" /\ RowOf(l) \in RowType
      /\ turn[l].rev <= RowOf(l).rev /\ turn[l] \in TurnType /\ LaneOf(m) = l
  BY <1>1, TurnQueued
<1>3. /\ entry \in [Messages -> RowType] /\ ingress \in Seq(Messages) /\ dead \subseteq Messages
      /\ Len(ingress) <= IngressCap /\ undo \in [clean : SUBSET Messages, ingress : Seq(Messages)]
      /\ seen \subseteq Messages /\ Honest(Snapshot, out, posted, stopped)
  BY DEF JournalInv, JournalType, QueueType, ClaimsInv
<1>4. ASSUME NEW k \in Messages
      PROVE  /\ entry'[k] \in RowType /\ entry'[k].rev = entry[k].rev /\ entry'[k].ver = entry[k].ver
             /\ entry'[k].box = entry[k].box /\ entry'[k].done = entry[k].done /\ entry'[k].rev \in Nat
             /\ k # m => entry'[k] = entry[k]
  <2>1. PICK row \in RowType : row = entry[k]
    BY <1>3
  <2>2. [row EXCEPT !.media = "none"] \in RowType
    BY DEF RowType
  <2>3. entry'[k] = row \/ (k = m /\ entry'[k] = [row EXCEPT !.media = "none"])
    <3>1. CASE At(l, "begin")
      <4>1. entry' = [entry EXCEPT ![m] = [entry[m] EXCEPT !.media = "none"]]
        BY <1>1, <3>1
      <4>2. k = m => entry'[k] = [row EXCEPT !.media = "none"]
        BY <1>2, <1>3, <2>1, <4>1
      <4>3. k # m => entry'[k] = row
        BY <1>3, <2>1, <4>1
      <4>4. QED
        BY <4>2, <4>3
    <3>2. CASE ~At(l, "begin")
      BY <1>1, <2>1, <3>2
    <3>3. QED
      BY <3>1, <3>2
  <2>4. QED
    BY <2>1, <2>2, <2>3 DEF RowType
<1>5. entry' \in [Messages -> RowType]
  <2>1. entry' = [k \in Messages |-> entry'[k]]
    BY <1>1, <1>3
  <2>2. QED
    BY <1>4, <2>1
<1>6. /\ ingress' \in Seq(Messages) /\ Len(ingress') <= IngressCap
      /\ \A i \in 1 .. Len(ingress') : ingress'[i] \in seen
      /\ \A i \in 1 .. Len(ingress) : \E j \in 1 .. Len(ingress') : ingress'[j] = ingress[i]
      /\ dead' \subseteq dead
      /\ \A k \in dead : k \in dead' \/ \E j \in 1 .. Len(ingress') : ingress'[j] = k
  <2>1. CASE turn[l].phase \in {"remove", "dead"}
    <3>1. ingress' = undo.ingress /\ dead' = IF At(l, "dead") THEN dead \ {m} ELSE dead
      BY <1>1, <2>1 DEF TakeBack
    <3>2. /\ \A i \in 1 .. Len(ingress) : \E j \in 1 .. Len(undo.ingress) : undo.ingress[j] = ingress[i]
          /\ At(l, "dead") => \E j \in 1 .. Len(undo.ingress) : undo.ingress[j] = m
          /\ \A j \in 1 .. Len(undo.ingress) : undo.ingress[j] \in seen
          /\ Len(undo.ingress) <= IngressCap
      BY <1>1, <2>1 DEF JournalInv, UndoInv
    <3>3. undo.ingress \in Seq(Messages)
      BY <1>3
    <3>4. QED
      BY <3>1, <3>2, <3>3
  <2>2. CASE turn[l].phase \notin {"remove", "dead"}
    <3>1. ingress' = ingress /\ dead' = dead
      BY <1>1, <2>2 DEF TakeBack, At
    <3>2. \A i \in 1 .. Len(ingress) : ingress[i] \in seen
      BY <1>3 DEF Honest, Snapshot
    <3>3. QED
      BY <1>3, <3>1, <3>2
  <2>3. QED
    BY <2>1, <2>2
<1>7. JournalType'
  <2>1. pending' \in {pending, Snapshot'} /\ Snapshot'.ingress = ingress'
    BY <1>1 DEF Snapshot
  <2>2. Snapshot' \in SnapshotType
    <3>1. life' \in [Messages -> 0 .. Deleted] /\ seen' \subseteq Messages
      BY <1>1 DEF JournalInv, JournalType
    <3>2. QED
      BY <1>3, <1>5, <1>6, <3>1 DEF Snapshot, SnapshotType
  <2>3. QED
    BY <1>1, <1>3, <1>5, <1>6, <2>1, <2>2 DEF JournalInv, JournalType
<1>8. Rises /\ Grows
  BY <1>1, <1>3, <1>4, GrowsAlone DEF Rises, AheadRow, JournalInv
<1>9. Honest(Snapshot', out', posted', stopped')
  <2>1. /\ Snapshot'.ingress = ingress' /\ Snapshot'.entry = entry' /\ Snapshot'.life = life
        /\ Snapshot'.dead = dead' /\ Snapshot'.seen = seen
        /\ Snapshot.ingress = ingress /\ Snapshot.entry = entry /\ Snapshot.life = life
        /\ Snapshot.dead = dead /\ Snapshot.seen = seen
    BY <1>1 DEF Snapshot
  <2>2. \A k \in Messages : HonestRow(k, entry'[k], out)
    BY <1>3, <1>4, <2>1 DEF Honest, HonestRow
  <2>3. ASSUME NEW k \in seen
        PROVE  \/ \E i \in 1 .. Len(ingress') : ingress'[i] = k
               \/ AnsweredIn(k, out) \/ WithdrawnIn(k, posted) \/ k \in stopped \/ k \in dead'
    <3>1. \/ \E i \in 1 .. Len(ingress) : ingress[i] = k
          \/ AnsweredIn(k, out) \/ WithdrawnIn(k, posted) \/ k \in stopped \/ k \in dead
      BY <1>3, <2>1 DEF Honest
    <3>2. QED
      BY <1>6, <3>1
  <2>4. \A k \in Messages : life[k] <= posted[k]
    BY <1>3, <2>1 DEF Honest
  <2>5. \A i \in 1 .. Len(ingress') : ingress'[i] \in seen
    BY <1>6
  <2>6. QED
    BY <1>1, <2>1, <2>2, <2>3, <2>4, <2>5 DEF Honest
<1>10. ClaimsInv'
  BY <1>1, <1>7, <1>8, <1>9, ClaimsMove DEF JournalInv
<1>11. undo' \in [clean : SUBSET Messages, ingress : Seq(Messages)]
  BY <1>1 DEF NoUndo
<1>12. \A k \in Messages : LaneOf(k) # l => entry'[k] = entry[k]
  BY <1>2, <1>4
<1>13. CASE mutations' = Tail(mutations) /\ TaskEnds(l, FALSE)
  <2>1. WorkType' /\ TasksInv' /\ turn'[l].phase = "idle" /\ \A k \in Lanes \ {l} : turn'[k] = turn[k]
    BY <1>1, <1>4, <1>5, <1>13, TurnSettles
  <2>2. durable' \in BOOLEAN /\ armed' \in BOOLEAN /\ armed' /\ turn'[l].phase # "remove"
    BY <1>1, <2>1
  <2> HIDE DEF m
  <2>3. QED
    BY <1>1, <1>7, <1>10, <1>11, <1>12, <1>13, <2>1, <2>2, TurnPasses
<1>14. CASE mutations' = Append(Tail(mutations), l) /\ Goes(l, "defer") /\ UNCHANGED <<tasks, running, stalled>>
  <2>1. Becomes(l, "defer")
    BY <1>14, GoesIs DEF JournalInv, Mutating
  <2>2. /\ turn' \in [Lanes -> TurnType] /\ turn'[l].phase = "defer" /\ turn'[l].msg = m
        /\ turn'[l].rev = turn[l].rev /\ turn'[l].ver = turn[l].ver /\ \A k \in Lanes \ {l} : turn'[k] = turn[k]
    BY <2>1 DEF Becomes
  <2>3. SameTasks
    BY <1>2, <1>14, <2>2 DEF SameTasks
  <2>4. WorkType' /\ TasksInv'
    BY <1>7, <1>8, <2>3, TasksStay DEF JournalInv
  <2>5. RowOf(l)'.rev = RowOf(l).rev /\ RowOf(l)'.ver = RowOf(l).ver
    BY <1>2, <1>4, <2>2 DEF RowOf
  <2>6. RowOf(l)'.rev = turn'[l].rev => TurnKnows(l)'
    <3> HAVE RowOf(l)'.rev = turn'[l].rev
    <3>1. RowOf(l).ver = turn[l].ver
      BY <1>2, <2>2, <2>5 DEF TurnTypes, TurnsInv, TurnKnows, At
    <3>2. QED
      BY <2>2, <2>5, <3>1 DEF TurnKnows, At, Fresh
  <2>7. durable' \in BOOLEAN /\ armed' \in BOOLEAN /\ armed' /\ turn'[l].phase # "remove"
        /\ turn'[l].phase # "complete" /\ turn'[l].phase \in Mutating
    BY <1>1, <2>2 DEF Mutating
  <2> HIDE DEF m
  <2>8. QED
    BY <1>1, <1>7, <1>10, <1>11, <1>12, <1>14, <2>2, <2>4, <2>6, <2>7, TurnPasses
<1>15. QED
  BY <1>1, <1>13, <1>14

-----------------------------------------------------------------------------
(* The invariant holds at first, and every step keeps it.                  *)
LEMMA InitKeeps == Init => JournalInv
<1> SUFFICES ASSUME Init PROVE JournalInv
  OBVIOUS
<1>1. /\ posted = [m \in Messages |-> 0] /\ ingress = <<>> /\ entry = [m \in Messages |-> Row(0, 0)]
      /\ seen = {} /\ dead = {} /\ life = [m \in Messages |-> 0]
      /\ durable = TRUE /\ armed = FALSE
      /\ callback = Idle /\ mutations = <<>> /\ waiting = FALSE /\ undo = NoUndo
      /\ tasks = [l \in Lanes |-> <<>>] /\ running = {} /\ turn = [l \in Lanes |-> NoTurn]
      /\ pending = None /\ disk = Snapshot
  BY DEF Init
<1>2. 0 \in 0 .. Deleted /\ IngressCap \in Nat
  BY ConstantsAssumption DEF Deleted
<1>3. Row(0, 0) \in RowType /\ Row(0, 0).done = FALSE /\ Row(0, 0).box = NoOutbox /\ NoOutbox.next = 0
  BY <1>2 DEF Row, RowType, NoOutbox
<1>4. JournalType
  <2>1. Snapshot \in SnapshotType /\ Snapshot.ingress = ingress
    BY <1>1, <1>2, <1>3 DEF Snapshot, SnapshotType
  <2>2. Len(ingress) <= IngressCap
    BY <1>1, <1>2
  <2>3. QED
    BY <1>1, <1>2, <1>3, <2>1, <2>2 DEF JournalType
<1>5. QueueType
  <2>1. callback \in CallbackType /\ callback.phase = "idle"
    BY <1>1 DEF CallbackType, Idle
  <2>2. undo \in [clean : SUBSET Messages, ingress : Seq(Messages)]
    BY <1>1 DEF NoUndo
  <2>3. mutations \in Seq(Actors)
    BY <1>1
  <2>4. QED
    BY <1>1, <2>1, <2>2, <2>3 DEF QueueType
<1>6. NoTurn \in TurnType /\ NoTurn.phase = "idle"
  BY <1>2 DEF NoTurn, TurnType
<1>7. \A l \in Lanes : turn[l].phase = "idle" /\ tasks[l] = <<>>
  BY <1>1, <1>6
<1>8. \A a : ~Waits(a) /\ ~Contains(mutations, a)
  BY <1>1 DEF Waits, Contains
<1>9. WorkType /\ MutationsInv
  <2>1. Once(mutations)
    BY <1>1 DEF Once
  <2>2. QED
    BY <1>1, <1>6, <1>7, <1>8, <2>1 DEF WorkType, MutationsInv, At
<1>10. TasksInv
  <2>1. Dispatched(tasks, running) /\ KnownRevisions(tasks, entry)
    BY <1>1, <1>7 DEF Dispatched, KnownRevisions
  <2>2. QED
    BY <1>1, <1>7, <2>1 DEF TasksInv, At
<1>11. WakeInv
  <2>1. ASSUME NEW l \in Lanes PROVE NextOf(l) = None
    <3>1. ingress \in Seq(Messages) /\ \A i \in 1 .. Len(ingress) : LaneOf(ingress[i]) # l
      BY <1>1
    <3>2. QED
      BY <3>1, OldestIs DEF NextOf
  <2>2. QED
    BY <1>1, <1>8, <2>1 DEF WakeInv
<1>12. ClaimsInv
  <2>1. \A m \in Messages : HonestRow(m, entry[m], out)
    BY <1>1, <1>3 DEF HonestRow
  <2>2. \A m \in Messages : life[m] <= posted[m]
    BY <1>1
  <2>3. Honest(Snapshot, out, posted, stopped)
    BY <1>1, <2>1, <2>2 DEF Honest, Snapshot
  <2>4. QED
    BY <1>1, <1>4, <2>3, AheadOfItself DEF ClaimsInv
<1>13. CallbackInv /\ TurnsInv /\ UndoInv
  BY <1>1, <1>7, <1>8 DEF CallbackInv, TurnsInv, UndoInv, Idle, At
<1>14. QED
  BY <1>4, <1>5, <1>9, <1>10, <1>11, <1>12, <1>13 DEF JournalInv

LEMMA TurnStepKeeps ==
  ASSUME JournalInv, NEW l \in Lanes, TurnStep(l)
  PROVE  JournalInv'
<1>1. TurnTypes
  BY DEF TurnTypes, JournalInv
<1>2. CASE TaskStarts(l)
  BY <1>1, <1>2, TaskStartsMoves, MovesKeep
<1>3. CASE Fetched(l)
  BY <1>1, <1>3, FetchedMoves, MovesKeep
<1>4. CASE Analyzed(l)
  BY <1>1, <1>4, AnalyzedMoves, MovesKeep
<1>5. CASE BrainAnswers(l)
  BY <1>1, <1>5, BrainAnswersMoves, MovesKeep
<1>6. CASE SendPart(l)
  BY <1>1, <1>6, SendPartMoves, MovesKeep
<1>7. CASE Confirm(l)
  BY <1>1, <1>7, ConfirmMoves, MovesKeep
<1>8. CASE Upload(l) \/ SendFile(l) \/ Delivered(l)
  BY <1>1, <1>8, FileMoves, MovesKeep
<1>9. CASE MarkFlushed(l)
  BY <1>9, MarkFlushedKeeps
<1>10. CASE MutationFlushed(l)
  BY <1>10, MutationFlushedKeeps
<1>11. QED
  BY <1>2, <1>3, <1>4, <1>5, <1>6, <1>7, <1>8, <1>9, <1>10 DEF TurnStep

LEMMA StutterKeeps == JournalInv /\ UNCHANGED vars => JournalInv'
<1> SUFFICES ASSUME JournalInv, UNCHANGED vars PROVE JournalInv'
  OBVIOUS
<1>1. UNCHANGED <<posted, ingress, entry, seen, life, dead, durable, armed, callback, mutations, waiting, undo,
                  tasks, running, stalled, turn, out, stopped, pending, disk>>
  BY DEF vars, journal, control, work, effects
<1>2. \A l \in Lanes : NextOf(l)' = NextOf(l) /\ RowOf(l)' = RowOf(l)
  BY <1>1 DEF NextOf, RowOf
<1>3. \A a : (Waits(a)' <=> Waits(a))
  BY <1>1 DEF Waits, HeadIs
<1>4. JournalType' /\ QueueType' /\ WorkType' /\ CallbackInv'
  BY <1>1, <1>3 DEF JournalInv, JournalType, QueueType, WorkType, CallbackInv
<1>5. MutationsInv' /\ TasksInv' /\ UndoInv'
  BY <1>1, <1>3 DEF JournalInv, MutationsInv, TasksInv, UndoInv, At
<1>6. WakeInv'
  BY <1>1, <1>2, <1>3 DEF JournalInv, WakeInv, Woken, Pumps, Retries, HasRoom
<1>7. ClaimsInv'
  BY <1>1, ClaimsStay, GrowsAlone DEF JournalInv, journal
<1>8. TurnsInv'
  <2>1. SameTurns /\ Rises /\ (\A m \in seen : SameRow(m)) /\ TurnTypes
    BY <1>1, StillTurns, StillRows DEF JournalInv, TurnTypes
  <2>2. QED
    BY <1>1, <1>3, <2>1, TurnsStay
<1>9. QED
  BY <1>4, <1>5, <1>6, <1>7, <1>8 DEF JournalInv

LEMMA MicrotaskKeeps ==
  ASSUME JournalInv, Microtask
  PROVE  JournalInv'
  BY CommitHistoryKeeps, AdmitKeeps, AdmitFullKeeps, CancelKeeps, ReconcileKeeps, SaveLifecycleKeeps, RetryRunsKeeps,
     MutationSupersededKeeps, MutationRunsKeeps DEF Microtask

LEMMA EventKeeps ==
  ASSUME JournalInv, Event
  PROVE  JournalInv'
<1>1. CASE RetryThrows
  BY <1>1, RetryThrowsKeeps
<1>2. CASE Write \/ CallbackFlushed \/ DurabilityRetry \/ RetryFlushed
  BY <1>2, WriteKeeps, CallbackFlushedKeeps, DurabilityRetryKeeps, RetryFlushedKeeps
<1>3. CASE \E m \in Messages : MessageArrives(m) \/ OperationArrives(m) \/ RetryDue(m)
  BY <1>3, MessageArrivesKeeps, OperationArrivesKeeps, RetryDueKeeps
<1>4. CASE \E l \in Lanes : TurnStep(l)
  BY <1>4, TurnStepKeeps
<1>5. QED
  BY <1>1, <1>2, <1>3, <1>4 DEF Event

LEMMA FaultKeeps ==
  ASSUME JournalInv, Fault
  PROVE  JournalInv'
<1>1. TurnTypes
  BY DEF TurnTypes, JournalInv
<1>2. CASE Crash
  BY <1>2, RestoredKeeps DEF Crash
<1>3. CASE CallbackUnsaved \/ RetryUnsaved
  BY <1>3, CallbackUnsavedKeeps, RetryUnsavedKeeps
<1>4. CASE \E l \in Lanes : TurnFails(l)
  BY <1>1, <1>4, TurnFailsMoves, MovesKeep
<1>5. CASE \E l \in Lanes : MutationUnsaved(l)
  BY <1>5, MutationUnsavedKeeps
<1>6. QED
  BY <1>2, <1>3, <1>4, <1>5 DEF Fault

LEMMA StepKeeps == JournalInv /\ [Next]_vars => JournalInv'
<1> SUFFICES ASSUME JournalInv, [Next]_vars PROVE JournalInv'
  OBVIOUS
<1>1. CASE Microtask
  BY <1>1, MicrotaskKeeps
<1>2. CASE Event
  BY <1>2, EventKeeps
<1>3. CASE Fault
  BY <1>3, FaultKeeps
<1>4. CASE \E m \in Messages : Revise(m)
  BY <1>4, ReviseKeeps
<1>5. CASE UNCHANGED vars
  BY <1>5, StutterKeeps
<1>6. QED
  BY <1>1, <1>2, <1>3, <1>4, <1>5 DEF Next

(* The inductive invariant: the journal in the memory, the snapshot that   *)
(* waits for the store and the state file agree on every claim, and each   *)
(* turn knows its row (index.mjs:3146-3565).                               *)
THEOREM JournalHolds == Spec => []JournalInv
<1>1. Init => JournalInv
  BY InitKeeps
<1>2. JournalInv /\ [Next]_vars => JournalInv'
  BY StepKeeps
<1>3. QED
  BY <1>1, <1>2, PTL DEF Spec

-----------------------------------------------------------------------------
(* What the invariant says of the state file and of the lanes.             *)
LEMMA ClaimsAreKept == JournalInv => NothingClaimedIsLost
<1> SUFFICES ASSUME JournalInv, NEW m \in disk.seen
             PROVE  \/ Contains(disk.ingress, m)
                    \/ Answered(m) \/ Withdrawn(m) \/ Stopped(m) \/ m \in disk.dead
  BY DEF NothingClaimedIsLost
<1>1. \/ \E i \in 1 .. Len(disk.ingress) : disk.ingress[i] = m
      \/ AnsweredIn(m, out) \/ WithdrawnIn(m, posted) \/ m \in stopped \/ m \in disk.dead
  BY DEF JournalInv, ClaimsInv, Honest
<1>2. QED
  BY <1>1 DEF Contains, AnsweredIn, Answered, WithdrawnIn, Withdrawn, Stopped

LEMMA LanesAreWoken == JournalInv => NoLaneForgotten
<1> SUFFICES ASSUME JournalInv, NEW l \in Lanes, NextOf(l) # None
             PROVE  \/ tasks[l] # <<>>
                    \/ durable /\ entry[NextOf(l)].delayed
                    \/ armed \/ Contains(mutations, Retry)
                    \/ Contains(mutations, Callback) /\ callback.phase # "lifecycle"
                    \/ stalled
  BY DEF NoLaneForgotten
<1>1. Woken(l)
  BY DEF JournalInv, WakeInv
<1>2. Waits(Callback) => Contains(mutations, Callback)
  BY WaitsIs, ActorsDiffer DEF JournalInv, Waits
<1>3. QED
  BY <1>1, <1>2 DEF Woken, Retries, Pumps

(* What is published is an answer to the row as it is.                     *)
LEMMA PublishesCurrent ==
  ASSUME JournalInv, NEW l \in Lanes, turn[l].phase \in {"send", "confirm"}, Current(turn[l].msg, turn[l].rev),
         NEW part, Publishes(l, part), NEW x \in out' \ out
  PROVE  Journaled(x[1]) /\ entry[x[1]].ver = x[2]
<1>1. x = <<turn[l].msg, turn[l].ver, part>>
  BY DEF Publishes
<1>2. TurnKnows(l)
  BY DEF JournalInv, TurnsInv, Current, RowOf, At
<1>3. QED
  BY <1>1, <1>2 DEF TurnKnows, RowOf, Current

LEMMA OnlyTheCurrentIsSent ==
  ASSUME JournalInv, [Next]_vars, NEW x \in out' \ out
  PROVE  Journaled(x[1]) /\ entry[x[1]].ver = x[2]
<1>1. ~ UNCHANGED out
  OBVIOUS
<1>2. ~Microtask /\ ~ UNCHANGED vars
  BY <1>1 DEF Microtask, CommitHistory, Admit, AdmitFull, Cancel, Reconcile, SaveLifecycle, RetryRuns,
              MutationSuperseded, MutationRuns, effects, vars
<1>3. ~Fault /\ ~ \E m \in Messages : Revise(m)
  <2>1. Restored => UNCHANGED out
    BY DEF Restored
  <2>2. QED
    BY <1>1, <2>1 DEF Fault, CallbackUnsaved, RetryUnsaved, Crash, TurnFails, MutationUnsaved, Revise, effects
<1>4. \E l \in Lanes : TurnStep(l)
  <2>1. Event
    BY <1>2, <1>3 DEF Next
  <2>2. Restored => UNCHANGED out
    BY DEF Restored
  <2>3. QED
    BY <1>1, <2>1, <2>2 DEF Event, Write, CallbackFlushed, DurabilityRetry, RetryFlushed, RetryThrows, MessageArrives,
                            OperationArrives, RetryDue, effects
<1>5. PICK l \in Lanes : TurnStep(l)
  BY <1>4
<1>6. SendPart(l) \/ Confirm(l) \/ SendFile(l)
  BY <1>1, <1>5 DEF TurnStep, TaskStarts, Fetched, Analyzed, BrainAnswers, Upload, Delivered, MarkFlushed,
                    MutationFlushed, effects
<1>7. /\ turn[l].phase \in {"send", "confirm"} /\ Current(turn[l].msg, turn[l].rev)
      /\ \E part \in {1, FilePart, entry[turn[l].msg].box.next} : Publishes(l, part)
  BY <1>1, <1>6 DEF SendPart, Confirm, SendFile, PartsSent, MaySubmit, At
<1>8. QED
  BY <1>7, PublishesCurrent

(* The brain starts on a row that holds no answer.                         *)
LEMMA AbortKeepsPhase ==
  ASSUME NEW M, turn' = Aborted(M), WorkType, NEW l \in Lanes
  PROVE  turn'[l].phase = turn[l].phase
  BY AbortedIs DEF SameTurns

LEMMA EndsInIdle ==
  ASSUME WorkType, NEW k \in Lanes, turn' = [turn EXCEPT ![k] = NoTurn], NEW l \in Lanes
  PROVE  turn'[l].phase = turn[l].phase \/ turn'[l].phase = "idle"
  BY DEF WorkType, NoTurn

LEMMA GoesOn ==
  ASSUME WorkType, NEW k \in Lanes, NEW phase, Goes(k, phase), NEW l \in Lanes
  PROVE  turn'[l].phase = turn[l].phase \/ (l = k /\ turn'[l].phase = phase)
<1>1. turn' = [turn EXCEPT ![k] = [turn[k] EXCEPT !.phase = phase]]
  BY DEF Goes
<1>2. turn \in [Lanes -> TurnType] /\ turn[k] \in TurnType
  BY DEF WorkType
<1>3. [turn[k] EXCEPT !.phase = phase].phase = phase
  BY <1>2 DEF TurnType
<1>4. QED
  BY <1>1, <1>2, <1>3

LEMMA BrainBegins ==
  ASSUME JournalInv, [Next]_vars, NEW l \in Lanes, BrainStarts(l)
  PROVE  turn[l].phase \in {"fetch", "begin", "result"} /\ Current(turn[l].msg, turn[l].rev)
<1>1. /\ turn'[l].phase = "brain" /\ turn[l].phase # "brain" /\ WorkType
      /\ ~ UNCHANGED turn /\ ~ UNCHANGED vars
  BY DEF BrainStarts, JournalInv, vars, work
<1>2. /\ \A M : turn' # Aborted(M)
      /\ \A k \in Lanes : turn' # [turn EXCEPT ![k] = NoTurn]
      /\ turn' # [k \in Lanes |-> NoTurn]
  <2>1. turn' # [k \in Lanes |-> NoTurn]
    BY <1>1 DEF NoTurn
  <2>2. QED
    BY <1>1, <2>1, AbortKeepsPhase, EndsInIdle
<1>3. /\ \A k \in Lanes, on \in BOOLEAN : ~TaskEnds(k, on)
      /\ \A k \in Lanes : ~EndsAt(k)
      /\ \A k \in Lanes, phase \in {"begin", "result", "part", "uploaded", "sent", "complete", "remove", "defer", "dead"} :
           ~Goes(k, phase) /\ ~Mutates(k, phase)
      /\ ~Restored
  <2>1. \A k \in Lanes, phase \in {"begin", "result", "part", "uploaded", "sent", "complete", "remove", "defer", "dead"} :
           ~Goes(k, phase)
    BY <1>1, GoesOn
  <2>2. QED
    BY <1>2, <2>1 DEF TaskEnds, EndsAt, Mutates, Restored
<1>4. ~Microtask
  <2>1. \A k \in Lanes : ~MutationSuperseded(k)
    BY <1>2 DEF MutationSuperseded, TaskEnds
  <2>2. \A k \in Lanes : ~MutationRuns(k)
    <3> SUFFICES ASSUME NEW k \in Lanes, MutationRuns(k) PROVE FALSE
      OBVIOUS
    <3>1. Goes(k, "remove")
      BY <1>1 DEF MutationRuns, Goes
    <3>2. QED
      BY <1>3, <3>1
  <2>3. ~CommitHistory /\ ~Admit /\ ~AdmitFull /\ ~SaveLifecycle /\ ~RetryRuns
    BY <1>1 DEF CommitHistory, Admit, AdmitFull, SaveLifecycle, RetryRuns, work
  <2>4. ~Cancel /\ ~Reconcile
    BY <1>1, <1>2 DEF Cancel, Reconcile
  <2>5. QED
    BY <2>1, <2>2, <2>3, <2>4 DEF Microtask
<1>5. ~Fault
  <2>1. \A k \in Lanes : ~TurnFails(k)
    BY <1>3 DEF TurnFails, Catch
  <2>2. \A k \in Lanes : ~MutationUnsaved(k)
    BY <1>3 DEF MutationUnsaved
  <2>3. ~CallbackUnsaved /\ ~RetryUnsaved /\ ~Crash
    BY <1>1, <1>3 DEF CallbackUnsaved, RetryUnsaved, Crash, work
  <2>4. QED
    BY <2>1, <2>2, <2>3 DEF Fault
<1>6. ~ \E m \in Messages : Revise(m)
  BY <1>1 DEF Revise, work
<1>7. Event
  BY <1>1, <1>4, <1>5, <1>6 DEF Next
<1>8. PICK k \in Lanes : TurnStep(k)
  <2>1. ~Write /\ ~CallbackFlushed /\ ~DurabilityRetry /\ ~RetryFlushed /\ ~RetryThrows
    BY <1>1, <1>3 DEF Write, CallbackFlushed, DurabilityRetry, RetryFlushed, RetryThrows, work
  <2>2. ~ \E m \in Messages : MessageArrives(m) \/ OperationArrives(m) \/ RetryDue(m)
    BY <1>1, <1>2 DEF MessageArrives, OperationArrives, RetryDue, work
  <2>3. QED
    BY <1>7, <2>1, <2>2 DEF Event
<1>9. ~TaskStarts(k)
  <2> SUFFICES ASSUME TaskStarts(k) PROVE FALSE
    OBVIOUS
  <2> DEFINE msg == Head(tasks[k])[1]
             starts == [NoTurn EXCEPT !.msg = msg, !.rev = Head(tasks[k])[2], !.ver = entry[msg].ver]
  <2>1. \/ turn' = turn
        \/ turn' = [turn EXCEPT ![k] = [starts EXCEPT !.phase = "complete"]]
        \/ turn' = [turn EXCEPT ![k] = [starts EXCEPT !.phase = Plan(msg)]]
    BY DEF TaskStarts
  <2>2. \A phase : [starts EXCEPT !.phase = phase].phase = phase
    BY DEF NoTurn
  <2> HIDE DEF starts
  <2>3. Plan(msg) # "brain"
    BY DEF Plan
  <2>4. turn'[l].phase \in {turn[l].phase, "complete", Plan(msg)}
    BY <1>1, <2>1, <2>2 DEF WorkType
  <2>5. QED
    BY <1>1, <2>3, <2>4
<1>10. ~BrainAnswers(k)
  <2> SUFFICES ASSUME BrainAnswers(k) PROVE FALSE
    OBVIOUS
  <2>1. \E file : turn' = [turn EXCEPT ![k] = [[turn[k] EXCEPT !.phase = "prepare"] EXCEPT !.file = file]]
    BY <1>3 DEF BrainAnswers
  <2>2. QED
    BY <1>1, <2>1 DEF WorkType, TurnType
<1>11. ~Analyzed(k) /\ ~SendPart(k) /\ ~Confirm(k) /\ ~Upload(k) /\ ~SendFile(k) /\ ~Delivered(k) /\ ~MarkFlushed(k)
  BY <1>3 DEF Analyzed, SendPart, Confirm, Upload, SendFile, Delivered, MarkFlushed
<1>12. CASE Fetched(k)
  <2>1. TurnCurrent(k) /\ Goes(k, "brain") /\ At(k, "fetch")
    BY <1>3, <1>12 DEF Fetched
  <2>2. k = l
    BY <1>1, <2>1, GoesOn
  <2>3. QED
    BY <2>1, <2>2 DEF TurnCurrent, At
<1>13. CASE MutationFlushed(k)
  <2>1. /\ Goes(k, After(k))
        /\ ~ \/ turn[k].phase \in {"remove", "dead", "defer"}
             \/ turn[k].phase \in {"begin", "result"} /\ ~TurnCurrent(k)
    BY <1>3, <1>13 DEF MutationFlushed
  <2>2. k = l /\ After(k) = "brain"
    BY <1>1, <2>1, GoesOn
  <2>3. turn[k].phase \in {"begin", "result"}
    BY <2>2 DEF After, At
  <2>4. QED
    BY <2>1, <2>2, <2>3 DEF TurnCurrent
<1>14. QED
  BY <1>8, <1>9, <1>10, <1>11, <1>12, <1>13 DEF TurnStep

LEMMA NoAnswerIsMadeTwice ==
  ASSUME JournalInv, [Next]_vars, NEW l \in Lanes, BrainStarts(l)
  PROVE  ~ /\ Contains(disk.ingress, turn[l].msg)
           /\ disk.entry[turn[l].msg].rev = turn[l].rev
           /\ disk.entry[turn[l].msg].box # NoOutbox
<1> SUFFICES ASSUME Contains(disk.ingress, turn[l].msg), disk.entry[turn[l].msg].rev = turn[l].rev,
                    disk.entry[turn[l].msg].box # NoOutbox
             PROVE  FALSE
  OBVIOUS
<1>1. turn[l].phase \in {"fetch", "begin", "result"} /\ Current(turn[l].msg, turn[l].rev)
  BY BrainBegins
<1>2. TurnKnows(l)
  BY <1>1 DEF JournalInv, TurnsInv, Current, RowOf, At
<1>3. entry[turn[l].msg].box = NoOutbox /\ entry[turn[l].msg].rev = turn[l].rev
  BY <1>1, <1>2 DEF TurnKnows, RowOf, Fresh, At, Current
<1>4. turn[l].msg \in disk.seen
  BY DEF Contains, JournalInv, ClaimsInv, Honest
<1>5. AheadRow(disk.entry[turn[l].msg], entry[turn[l].msg])
  BY <1>4 DEF JournalInv, ClaimsInv, Ahead
<1>6. QED
  BY <1>3, <1>5 DEF AheadRow

-----------------------------------------------------------------------------
(* A claim in the state file always has its row there, an answer on T3ams, *)
(* or a reason to have none: no failed write, crash, edit or /stop loses a *)
(* message (index.mjs:474-478, 2087-2091).                                 *)
THEOREM ClaimsAreNeverLost == Spec => []NothingClaimedIsLost
  BY JournalHolds, ClaimsAreKept, PTL

(* The oldest message of a lane never waits for nobody: there is a task, a *)
(* timer, or a mutation that pumps (index.mjs:825-845, 3513-3565), unless  *)
(* a durability retry threw and the pump has not run since (646-647).      *)
THEOREM LanesAreNeverForgotten == Spec => []NoLaneForgotten
  BY JournalHolds, LanesAreWoken, PTL

(* What goes out answers the prompt as it is journaled, however edits and  *)
(* retries interleave with the submits (index.mjs:2310-2312).              *)
THEOREM NothingStaleIsSent == Spec => NoStaleAnswer
<1>1. JournalInv /\ [Next]_vars => [\A x \in out' \ out : Journaled(x[1]) /\ entry[x[1]].ver = x[2]]_vars
  BY OnlyTheCurrentIsSent
<1>2. QED
  BY <1>1, JournalHolds, PTL DEF Spec, NoStaleAnswer

(* An answer that the state file holds is not asked for again, across      *)
(* crashes, delayed retries and failed writes (index.mjs:3375-3378).       *)
THEOREM AnswersAreMadeOnce == Spec => NoRerunAfterHandoff
<1>1. JournalInv /\ [Next]_vars =>
        [\A l \in Lanes : BrainStarts(l) =>
           ~ /\ Contains(disk.ingress, turn[l].msg)
             /\ disk.entry[turn[l].msg].rev = turn[l].rev
             /\ disk.entry[turn[l].msg].box # NoOutbox]_vars
  BY NoAnswerIsMadeTwice
<1>2. QED
  BY <1>1, JournalHolds, PTL DEF Spec, NoRerunAfterHandoff
=============================================================================
