------------------------ MODULE OwedReplies_proofs -------------------------
(***************************************************************************)
(* What the reply pipeline never loses and never says twice, and what the  *)
(* downloads of files survive, for every value of the constants of         *)
(* OwedReplies and Transport.                                              *)
(*                                                                         *)
(* KeptInv relates the memory, the state file and what every handler holds *)
(* at each of its steps; each action has a lemma that it is kept. OnceInv  *)
(* follows the parts of one answer from the journal to the peer. FilesInv  *)
(* says what a download has and finds, while the network is calm enough.   *)
(***************************************************************************)
EXTENDS OwedReplies, Transport, FiniteSetTheorems, SequenceTheorems, TLAPS

SnapshotType == [owed : SUBSET Msg, answer : [Msg -> EntryParts], seen : SUBSET Msg, ackDue : SUBSET Msg]
TurnType == [phase : {"idle", "brain", "journal", "submit", "resend"},
             part : 1 .. Parts, io : {"none", "wait", "ok", "failed"}]

JournalType == /\ owed \subseteq Msg /\ answer \in [Msg -> EntryParts]
               /\ seen \subseteq Msg /\ ackDue \subseteq Msg
               /\ disk \in SnapshotType
HandlersType == /\ opener \in HandlerType({"idle", "persist", "accept", "marker"})
                /\ session \in [Peers -> HandlerType({"idle", "persist", "ack"})]
                /\ admitting \subseteq Msg
WorkType == /\ queued \subseteq Msg /\ work \in [Peers -> Seq(Msg)]
            /\ turn \in [Peers -> TurnType] /\ turns \in [Msg -> Nat]
NetworkType == /\ posted \subseteq Msg /\ acked \subseteq Msg /\ accepted \subseteq Peers
               /\ out \subseteq Msg \X Nat \X (1 .. Parts)
               /\ risky \subseteq Msg /\ unsent \subseteq Msg
FaultsType == faults \in [crashes : 0 .. MaxCrashes, disk : 0 .. MaxDisk, fails : 0 .. MaxFails]
TypeInv == JournalType /\ HandlersType /\ WorkType /\ NetworkType /\ FaultsType

(* The state file is what the memory was when the last save was written:   *)
(* every change of the journal is saved.                                   *)
SavedInv ==
  /\ pending = None \/ pending = Snapshot
  /\ pending = None => disk = Snapshot

(* The work of a peer is its own, queued, and nothing of it twice.         *)
WorkOf(p, w, Q) ==
  /\ w \in Seq(Msg)
  /\ \A i \in 1 .. Len(w) : w[i] \in Q /\ w[i][1] = p
  /\ \A i, j \in 1 .. Len(w) : w[i] = w[j] => i = j
WorkInv == \A p \in Peers : WorkOf(p, work[p], queued)

(* What was seen is owed, or the answer was given; nothing else is owed    *)
(* or to be acknowledged, and parts are journaled of what is owed only.    *)
Honest(o, a, s, d) ==
  /\ o \subseteq s /\ d \subseteq s
  /\ s \subseteq o \cup Given
  /\ \A m \in Msg : a[m] # {} => m \in o

(* A peer is told only of what the file and the memory have seen.          *)
TakenInv ==
  /\ Honest(owed, answer, seen, ackDue)
  /\ Honest(disk.owed, disk.answer, disk.seen, disk.ackDue)
  /\ Taken \cup ackDue \subseteq seen \cap disk.seen

(* What an opener's or a session's handler holds at each of its steps.     *)
OpenerInv ==
  /\ \A m \in opener.msgs \cup ackDue \cup disk.ackDue : IsOpener(m)
  /\ opener.phase = "persist" =>
       /\ opener.msgs \subseteq seen /\ opener.msgs \cap (ackDue \cup Taken) = {}
       /\ opener.io = "ok" => opener.msgs \subseteq disk.seen
  /\ opener.phase = "accept" => opener.msgs \subseteq seen \cap disk.seen

FreshOf(p) == IF session[p].phase = "persist" THEN session[p].fresh ELSE {}

SessionInv ==
  \A p \in Peers :
    /\ \A m \in session[p].msgs \cup session[p].fresh : m[1] = p /\ ~IsOpener(m)
    /\ session[p].phase # "idle" => session[p].msgs \subseteq seen
    /\ session[p].phase = "ack" => session[p].msgs \subseteq disk.seen
    /\ FreshOf(p) \subseteq (owed \cap admitting) \ (queued \cup Taken)
    /\ \A m \in FreshOf(p) : answer[m] = {} /\ disk.answer[m] = {}
    /\ session[p].io = "ok" => FreshOf(p) \subseteq disk.seen

(* A session message that was seen is being made durable or is durable, it *)
(* is queued only while it is owed, and its answer only after it was seen. *)
SeenInv ==
  \A m \in Msg : ~IsOpener(m) =>
    /\ m \in seen => m \in disk.seen \/ m \in FreshOf(m[1])
    /\ m \in queued => m \in owed
    /\ m \notin seen => disk.answer[m] = {}

(* The turn of a peer's work: a re-send has something to send and nothing  *)
(* takes it away; an opener whose journal is being written has parts only  *)
(* from the turn that runs.                                                *)
Runs(p, m, phases) == work[p] # <<>> /\ Running(p) = m /\ turn[p].phase \in phases
TurnInv ==
  \A p \in Peers :
    /\ turn[p].phase # "idle" => work[p] # <<>>
    /\ turn[p].phase = "resend" => Running(p) \in owed /\ answer[Running(p)] # {}
    /\ turn[p].phase # "resend" \/ opener.phase # "persist" \/ Running(p) \notin opener.msgs
    /\ \A m \in opener.msgs :
         opener.phase = "persist" /\ answer[m] # {} /\ m[1] = p =>
           Runs(p, m, {"brain", "journal", "submit"})

KeptInv == TypeInv /\ SavedInv /\ WorkInv /\ TakenInv /\ OpenerInv /\ SessionInv /\ SeenInv /\ TurnInv

(* The turns of the brain whose parts of an answer the peer has, and those *)
(* whose parts are in the journal or in the state file; what runs for it.  *)
OutTurns(m) == {x[2] : x \in {y \in out : y[1] = m}}
TurnsOf(m)  == {a[1] : a \in answer[m] \cup disk.answer[m]} \cup OutTurns(m)
PhaseOf(m)  == IF work[m[1]] # <<>> /\ Running(m[1]) = m THEN turn[m[1]].phase ELSE "idle"
Repeats(m)  == PhaseOf(m) = "brain" /\ turn[m[1]].part > 1

(* All are of one turn, the one that runs; what the peer has parts of is   *)
(* journaled for as long as it is owed.                                    *)
OnceOf(m) ==
  /\ \A t, u \in TurnsOf(m) : t = u
  /\ OutTurns(m) # {} => /\ m \in seen \cap disk.seen
                         /\ m \in owed => answer[m] # {}
                         /\ m \in disk.owed => disk.answer[m] # {}
  /\ m \in owed /\ disk.answer[m] # {} => answer[m] # {}
  /\ answer[m] # {} /\ disk.answer[m] = {} => PhaseOf(m) \in {"brain", "journal"}
  /\ PhaseOf(m) = "brain" /\ turn[m[1]].part = 1 => answer[m] = {}
  /\ Repeats(m) \/ PhaseOf(m) = "submit" \/ (PhaseOf(m) = "journal" /\ turn[m[1]].io = "ok") =>
       disk.answer[m] # {}
  /\ Repeats(m) \/ PhaseOf(m) \in {"journal", "submit"} =>
       answer[m] # {} /\ \A t \in TurnsOf(m) : t = turns[m]

OnceInv == \A m \in Msg \ risky : ~IsOpener(m) => OnceOf(m)

-----------------------------------------------------------------------------
(* InOrder puts the messages of one peer in a sequence, none of them twice. *)
Of(p) == {m \in Msg : m[1] = p}

LEMMA OfFinite ==
  ASSUME ConstantsAssumption, NEW p \in Peers, NEW S \in SUBSET Of(p)
  PROVE  IsFiniteSet(S)
<1> DEFINE f == [m \in Of(p) |-> m[2]]
<1>1. f \in Injection(Of(p), 0 .. Follow)
  <2>1. f \in [Of(p) -> 0 .. Follow]
    BY DEF Of, Msg
  <2>2. \A a, b \in Of(p) : f[a] = f[b] => a = b
    BY DEF Of, Msg
  <2>3. QED
    BY <2>1, <2>2 DEF Injection, IsInjective
<1>2. IsFiniteSet(0 .. Follow)
  BY FS_Interval DEF ConstantsAssumption
<1>3. IsFiniteSet(Of(p))
  BY <1>1, <1>2, FS_Injection
<1>4. QED
  BY <1>3, FS_Subset

LEMMA InOrderFacts ==
  ASSUME ConstantsAssumption, NEW p \in Peers, NEW S \in SUBSET Of(p)
  PROVE  /\ Cardinality(S) \in Nat
         /\ InOrder(S) \in [1 .. Cardinality(S) -> S]
         /\ \A i, j \in 1 .. Cardinality(S) : i < j => InOrder(S)[i][2] < InOrder(S)[j][2]
<1> DEFINE n == Cardinality(S)
           below(x) == {y \in S : y[2] <= x[2]}
           f == [x \in S |-> Cardinality(below(x))]
           s == [i \in 1 .. n |-> CHOOSE x \in S : f[x] = i]
<1>1. IsFiniteSet(S) /\ n \in Nat
  BY OfFinite, FS_CardinalityType
<1>2. \A x \in S : x[2] \in Nat
  BY DEF Of, Msg
<1>3. ASSUME NEW x \in S
      PROVE  IsFiniteSet(below(x)) /\ f[x] \in 1 .. n
  <2>1. below(x) \in SUBSET S /\ x \in below(x)
    BY <1>2
  <2>2. IsFiniteSet(below(x)) /\ Cardinality(below(x)) \in Nat /\ Cardinality(below(x)) <= n
    BY <1>1, <2>1, FS_Subset, FS_CardinalityType
  <2>3. Cardinality(below(x)) # 0
    BY <2>1, <2>2, FS_EmptySet
  <2> HIDE DEF below
  <2>4. QED
    BY <1>1, <2>2, <2>3
<1>4. ASSUME NEW x \in S, NEW y \in S, x[2] < y[2]
      PROVE  f[x] < f[y]
  <2>1. below(x) \in SUBSET below(y) /\ y \in below(y) /\ y \notin below(x)
    BY <1>2, <1>4
  <2>2. IsFiniteSet(below(y)) /\ f[x] \in 1 .. n /\ f[y] \in 1 .. n
    BY <1>3
  <2>3. Cardinality(below(x)) <= Cardinality(below(y)) /\ Cardinality(below(x)) # Cardinality(below(y))
    BY <2>1, <2>2, FS_Subset
  <2> HIDE DEF below
  <2>4. QED
    BY <1>1, <2>2, <2>3
<1>5. \A x, y \in S : x[2] = y[2] => x = y
  BY DEF Of, Msg
<1>6. f \in [S -> 1 .. n]
  BY <1>3
<1> HIDE DEF f
<1>7. \A x, y \in S : f[x] = f[y] => x = y
  <2> SUFFICES ASSUME NEW x \in S, NEW y \in S, f[x] = f[y], x[2] # y[2] PROVE FALSE
    BY <1>5
  <2>1. x[2] < y[2] \/ y[2] < x[2]
    BY <1>2
  <2>2. f[x] \in Nat /\ f[y] \in Nat
    BY <1>1, <1>6
  <2>3. QED
    BY <1>4, <2>1, <2>2
<1>8. f \in Injection(S, 1 .. n)
  BY <1>6, <1>7 DEF Injection, IsInjective
<1>9. IsFiniteSet(1 .. n) /\ Cardinality(1 .. n) = n
  BY <1>1, FS_Interval
<1>10. f \in Surjection(S, 1 .. n)
  BY <1>8, <1>9, FS_Injection
<1>11. \A i \in 1 .. n : s[i] \in S /\ f[s[i]] = i
  BY <1>10 DEF Surjection
<1>12. s \in [1 .. n -> S]
  BY <1>11
<1> HIDE DEF s
<1>13. ASSUME NEW i \in 1 .. n, NEW j \in 1 .. n, i < j
       PROVE  s[i][2] < s[j][2]
  <2>1. s[i] \in S /\ s[j] \in S /\ f[s[i]] = i /\ f[s[j]] = j
    BY <1>11
  <2>2. s[i][2] \in Nat /\ s[j][2] \in Nat
    BY <1>2, <2>1
  <2>3. s[i] # s[j]
    BY <1>13, <2>1
  <2>4. ~(s[j][2] < s[i][2])
    BY <1>1, <1>4, <1>13, <2>1
  <2>5. s[i][2] # s[j][2]
    BY <1>5, <2>1, <2>3
  <2>6. QED
    BY <2>2, <2>4, <2>5
<1>14. \E t \in [1 .. n -> S] : \A i, j \in 1 .. n : i < j => t[i][2] < t[j][2]
  BY <1>12, <1>13
<1>15. QED
  BY <1>1, <1>14 DEF InOrder

(* So it is work of that peer, which can be appended and finished.         *)
LEMMA InOrderWork ==
  ASSUME ConstantsAssumption, NEW p \in Peers, NEW S \in SUBSET Of(p)
  PROVE  WorkOf(p, InOrder(S), S)
<1> DEFINE n == Cardinality(S)
<1>1. /\ n \in Nat /\ InOrder(S) \in [1 .. n -> S]
      /\ \A i, j \in 1 .. n : i < j => InOrder(S)[i][2] < InOrder(S)[j][2]
  BY InOrderFacts
<1>2. S \subseteq Msg /\ \A m \in S : m[1] = p /\ m[2] \in Nat
  BY DEF Of, Msg
<1> HIDE DEF n
<1>3. InOrder(S) \in Seq(Msg) /\ Len(InOrder(S)) = n
  BY <1>1, <1>2
<1>4. ASSUME NEW i \in 1 .. n, NEW j \in 1 .. n, InOrder(S)[i] = InOrder(S)[j]
      PROVE  i = j
  <2>1. InOrder(S)[i][2] \in Nat
    BY <1>1, <1>2
  <2>2. ~(i < j) /\ ~(j < i)
    BY <1>1, <1>4, <2>1
  <2>3. QED
    BY <1>1, <2>2
<1>5. QED
  BY <1>1, <1>2, <1>3, <1>4 DEF WorkOf

LEMMA Appended ==
  ASSUME NEW p, NEW w, NEW v, NEW Q, NEW R, WorkOf(p, w, Q), WorkOf(p, v, R), Q \cap R = {}
  PROVE  /\ WorkOf(p, w \o v, Q \cup R)
         /\ w # <<>> => w \o v # <<>> /\ (w \o v)[1] = w[1]
<1>1. w \in Seq(Msg) /\ v \in Seq(Msg)
  BY DEF WorkOf
<1>2. /\ w \o v \in Seq(Msg) /\ Len(w \o v) = Len(w) + Len(v)
      /\ \A i \in 1 .. Len(w) + Len(v) :
           (w \o v)[i] = IF i <= Len(w) THEN w[i] ELSE v[i - Len(w)]
  BY <1>1
<1>3. Len(w) \in Nat /\ Len(v) \in Nat
  BY <1>1
<1>4. ASSUME NEW i \in 1 .. Len(w \o v)
      PROVE  \/ i \in 1 .. Len(w) /\ (w \o v)[i] = w[i]
             \/ i - Len(w) \in 1 .. Len(v) /\ (w \o v)[i] = v[i - Len(w)]
  BY <1>2, <1>3
<1>5. \A i \in 1 .. Len(w \o v) : (w \o v)[i] \in Q \cup R /\ (w \o v)[i][1] = p
  BY <1>4 DEF WorkOf
<1>6. ASSUME NEW i \in 1 .. Len(w \o v), NEW j \in 1 .. Len(w \o v), (w \o v)[i] = (w \o v)[j]
      PROVE  i = j
  <2>1. CASE i \in 1 .. Len(w) /\ j \in 1 .. Len(w)
    BY <1>2, <1>3, <1>6, <2>1 DEF WorkOf
  <2>2. CASE i \notin 1 .. Len(w) /\ j \notin 1 .. Len(w)
    <3>1. i - Len(w) = j - Len(w)
      BY <1>4, <1>6, <2>2 DEF WorkOf
    <3>2. QED
      BY <1>3, <3>1
  <2>3. CASE ~(i \in 1 .. Len(w) <=> j \in 1 .. Len(w))
    BY <1>4, <1>6, <2>3 DEF WorkOf
  <2>4. QED
    BY <2>1, <2>2, <2>3
<1>7. w # <<>> => w \o v # <<>> /\ (w \o v)[1] = w[1]
  BY <1>1, <1>2, <1>3
<1>8. QED
  BY <1>2, <1>5, <1>6, <1>7 DEF WorkOf

LEMMA Finished ==
  ASSUME NEW p, NEW w, NEW Q, WorkOf(p, w, Q), w # <<>>
  PROVE  /\ w[1] \in Q /\ w[1] \in Msg /\ w[1][1] = p
         /\ WorkOf(p, Tail(w), Q \ {w[1]})
<1>1. /\ Len(w) \in Nat /\ Len(w) > 0 /\ Tail(w) \in Seq(Msg) /\ Len(Tail(w)) = Len(w) - 1
      /\ \A i \in 1 .. Len(w) - 1 : Tail(w)[i] = w[i + 1]
  BY DEF WorkOf
<1>2. \A i \in 1 .. Len(w) - 1 : i + 1 \in 1 .. Len(w) /\ i + 1 # 1
  BY <1>1
<1>3. 1 \in 1 .. Len(w)
  BY <1>1
<1>4. \A i \in 1 .. Len(Tail(w)) : Tail(w)[i] \in Q \ {w[1]} /\ Tail(w)[i][1] = p
  BY <1>1, <1>2, <1>3 DEF WorkOf
<1>5. \A i, j \in 1 .. Len(Tail(w)) : Tail(w)[i] = Tail(w)[j] => i = j
  BY <1>1, <1>2 DEF WorkOf
<1>6. w[1] \in Msg
  BY <1>1, <1>3 DEF WorkOf
<1>7. QED
  BY <1>1, <1>3, <1>4, <1>5, <1>6 DEF WorkOf

(* The other queues keep their messages when one message of p leaves.      *)
LEMMA OthersKeep ==
  ASSUME NEW p, NEW q, NEW w, NEW Q, NEW R, WorkOf(q, w, Q), q # p, \A m \in Q \ R : m[1] = p
  PROVE  WorkOf(q, w, R)
BY DEF WorkOf

HeadsKept(P) ==
  \A q \in P : work[q] # <<>> => work'[q] # <<>> /\ work'[q][1] = work[q][1]

(* Enqueueing keeps the queues in order, and what each of them runs.       *)
LEMMA Enqueued ==
  ASSUME ConstantsAssumption, TypeInv, WorkInv, NEW p \in Peers, NEW S \in SUBSET Of(p),
         EnqueueOwed(p, S), S \cap queued = {}
  PROVE  WorkInv' /\ work' \in [Peers -> Seq(Msg)] /\ queued' = queued \cup S /\ HeadsKept(Peers)
<1>1. work \in [Peers -> Seq(Msg)]
  BY DEF TypeInv, WorkType
<1>2. /\ S \ queued = S
      /\ queued' = queued \cup S
      /\ work' = [work EXCEPT ![p] = work[p] \o InOrder(S)]
  BY <1>1 DEF EnqueueOwed
<1>3. /\ WorkOf(p, work[p] \o InOrder(S), queued \cup S)
      /\ work[p] # <<>> => work[p] \o InOrder(S) # <<>> /\ (work[p] \o InOrder(S))[1] = work[p][1]
  BY InOrderWork, Appended DEF WorkInv
<1>4. \A q \in Peers : WorkOf(q, work'[q], queued')
  <2> SUFFICES ASSUME NEW q \in Peers PROVE WorkOf(q, work'[q], queued')
    OBVIOUS
  <2>1. CASE q = p
    BY <1>1, <1>2, <1>3, <2>1
  <2>2. CASE q # p
    <3>1. work'[q] = work[q] /\ \A m \in queued \ queued' : m[1] = p
      BY <1>1, <1>2, <2>2
    <3>2. WorkOf(q, work[q], queued)
      BY DEF WorkInv
    <3>3. WorkOf(q, work[q], queued')
      BY <2>2, <3>1, <3>2, OthersKeep
    <3>4. QED
      BY <3>1, <3>3
  <2>3. QED
    BY <2>1, <2>2
<1>5. work' \in [Peers -> Seq(Msg)]
  BY <1>1, <1>2, <1>3 DEF WorkOf
<1>6. HeadsKept(Peers)
  BY <1>1, <1>2, <1>3 DEF HeadsKept
<1>7. QED
  BY <1>2, <1>4, <1>5, <1>6 DEF WorkInv

(* The end of p's work takes its head away and may add what is owed.       *)
LEMMA WorkEnds ==
  ASSUME ConstantsAssumption, TypeInv, WorkInv, NEW p \in Peers, Busy(p),
         NEW added \in [Peers -> SUBSET Msg],
         \A q \in Peers : added[q] \subseteq Of(q) \ queued,
         work' = [q \in Peers |-> IF q = p THEN Tail(work[q] \o InOrder(added[q]))
                                           ELSE work[q] \o InOrder(added[q])],
         queued' = (queued \ {Running(p)}) \cup UNION {added[q] : q \in Peers}
  PROVE  WorkInv' /\ work' \in [Peers -> Seq(Msg)] /\ HeadsKept(Peers \ {p})
<1>1. work \in [Peers -> Seq(Msg)] /\ \A q \in Peers : added[q] \in SUBSET Of(q)
  BY DEF TypeInv, WorkType, Of
<1>2. \A q \in Peers :
        /\ WorkOf(q, work[q] \o InOrder(added[q]), queued \cup added[q])
        /\ work[q] # <<>> => /\ work[q] \o InOrder(added[q]) # <<>>
                             /\ (work[q] \o InOrder(added[q]))[1] = work[q][1]
  <2> TAKE q \in Peers
  <2>1. queued \cap added[q] = {}
    OBVIOUS
  <2>2. WorkOf(q, work[q], queued)
    BY DEF WorkInv
  <2>3. WorkOf(q, InOrder(added[q]), added[q])
    BY <1>1, InOrderWork
  <2>4. QED
    BY <2>1, <2>2, <2>3, Appended
<1>3. Running(p) \in Msg /\ Running(p)[1] = p /\ Running(p) \in queued
  BY Finished DEF WorkInv, Busy, Running
<1>4. \A q \in Peers : (queued \cup added[q]) \ {Running(p)} \subseteq queued'
  OBVIOUS
<1>5. ASSUME NEW q \in Peers
      PROVE  WorkOf(q, work'[q], queued')
  <2>1. CASE q = p
    <3>1. WorkOf(p, Tail(work[p] \o InOrder(added[p])), (queued \cup added[p]) \ {Running(p)})
      <4> DEFINE w == work[p] \o InOrder(added[p])
      <4>1. WorkOf(p, w, queued \cup added[p]) /\ w # <<>> /\ w[1] = Running(p)
        BY <1>2 DEF Busy, Running
      <4> HIDE DEF w
      <4>2. WorkOf(p, Tail(w), (queued \cup added[p]) \ {w[1]})
        BY <4>1, Finished
      <4>3. QED
        BY <4>1, <4>2 DEF w
    <3>2. work'[q] = Tail(work[p] \o InOrder(added[p]))
      BY <2>1
    <3>3. WorkOf(p, work'[q], (queued \cup added[p]) \ {Running(p)})
      BY <3>1, <3>2
    <3>4. WorkOf(p, work'[q], queued')
      BY <1>4, <3>3 DEF WorkOf
    <3>5. QED
      BY <2>1, <3>4
  <2>2. CASE q # p
    <3>1. work'[q] = work[q] \o InOrder(added[q])
      BY <2>2
    <3>2. \A m \in (queued \cup added[q]) \ queued' : m[1] = p
      BY <1>3, <1>4
    <3>3. WorkOf(q, work'[q], queued \cup added[q])
      BY <1>2, <3>1
    <3>4. \A m \in queued \cup added[q] : m[1] = q => m \in queued'
      BY <2>2, <3>2
    <3>5. QED
      BY <3>3, <3>4 DEF WorkOf
  <2>3. QED
    BY <2>1, <2>2
<1>6. work' \in [Peers -> Seq(Msg)]
  BY <1>5 DEF WorkOf
<1>7. HeadsKept(Peers \ {p})
  BY <1>2 DEF HeadsKept
<1>8. QED
  BY <1>5, <1>6, <1>7 DEF WorkInv

LEMMA SettleFacts ==
  ASSUME ConstantsAssumption, TypeInv, WorkInv, NEW p \in Peers, Busy(p), SettleOwed(p)
  PROVE  /\ WorkInv' /\ work' \in [Peers -> Seq(Msg)] /\ HeadsKept(Peers \ {p})
         /\ Running(p) \in Msg /\ Running(p)[1] = p /\ Running(p) \notin queued'
         /\ queued' \subseteq queued \cup (owed' \ admitting)
         /\ owed' = owed \ {Running(p)} /\ seen' = seen /\ ackDue' = ackDue
         /\ \A m \in Msg : answer'[m] = IF m = Running(p) /\ m \in owed THEN {} ELSE answer[m]
         /\ answer' \in [Msg -> EntryParts]
         /\ \/ Running(p) \in owed /\ Saved
            \/ Running(p) \notin owed /\ UNCHANGED <<memory, pending>>
<1> DEFINE m == Running(p)
           o == owed \ {m}
           q == queued \ {m}
<1>1. m \in Msg /\ m[1] = p /\ m \in queued
  BY Finished DEF WorkInv, Busy, Running
<1>2. /\ owed \subseteq Msg /\ queued \subseteq Msg /\ answer \in [Msg -> EntryParts]
      /\ work \in [Peers -> Seq(Msg)]
  BY DEF TypeInv, JournalType, WorkType
<1>3. CASE m \in owed
  <2> DEFINE added == [r \in Peers |-> Pumpable(r, o, q, work)]
  <2>1. \A r \in Peers : added[r] \subseteq Of(r) \ queued /\ added[r] \subseteq o \ admitting
    BY <1>1, <1>2 DEF Pumpable, Idle, Of
  <2>2. queued' = q \cup UNION {added[r] : r \in Peers}
    BY <1>3 DEF SettleOwed, PumpedQueued
  <2>3. work' = [r \in Peers |-> IF r = p THEN Tail(work[r] \o InOrder(added[r]))
                                          ELSE work[r] \o InOrder(added[r])]
    BY <1>3 DEF SettleOwed, PumpedWork
  <2>4. added \in [Peers -> SUBSET Msg]
    BY <1>2, <2>1
  <2> HIDE DEF added
  <2>5. WorkInv' /\ work' \in [Peers -> Seq(Msg)] /\ HeadsKept(Peers \ {p})
    BY <2>1, <2>2, <2>3, <2>4, WorkEnds
  <2>6. m \notin queued' /\ queued' \subseteq queued \cup (o \ admitting)
    BY <2>1, <2>2
  <2>7. owed' = o /\ seen' = seen /\ ackDue' = ackDue /\ answer' = [answer EXCEPT ![m] = {}] /\ Saved
    BY <1>3 DEF SettleOwed
  <2>8. {} \in EntryParts
    BY DEF EntryParts
  <2> HIDE DEF m
  <2>9. /\ \A k \in Msg : answer'[k] = IF k = m /\ k \in owed THEN {} ELSE answer[k]
        /\ answer' \in [Msg -> EntryParts]
    BY <1>1, <1>2, <1>3, <2>7, <2>8
  <2>10. QED
    BY <1>1, <1>3, <2>5, <2>6, <2>7, <2>9 DEF m
<1>4. CASE m \notin owed
  <2> DEFINE added == [r \in Peers |-> {}]
  <2>1. queued' = q /\ work' = [work EXCEPT ![p] = Tail(@)] /\ UNCHANGED <<memory, pending>>
    BY <1>4 DEF SettleOwed
  <2>2. \A r \in Peers : WorkOf(r, work'[r], q) /\ (r # p => work'[r] = work[r])
    <3> TAKE r \in Peers
    <3>1. CASE r = p
      BY <1>2, <2>1, <3>1, Finished DEF WorkInv, Busy, Running
    <3>2. CASE r # p
      <4>1. \A k \in queued \ q : k[1] = p
        BY <1>1
      <4>2. work'[r] = work[r]
        BY <1>2, <2>1, <3>2
      <4>3. QED
        BY <3>2, <4>1, <4>2, OthersKeep DEF WorkInv
    <3>3. QED
      BY <3>1, <3>2
  <2>3. WorkInv' /\ HeadsKept(Peers \ {p})
    BY <2>1, <2>2 DEF WorkInv, HeadsKept
  <2>4. work' \in [Peers -> Seq(Msg)]
    BY <1>2, <2>1, <2>2 DEF WorkOf
  <2>5. QED
    BY <1>1, <1>2, <1>4, <2>1, <2>3, <2>4 DEF memory
<1>5. QED
  BY <1>3, <1>4
-----------------------------------------------------------------------------
(* What an action leaves alone keeps its part of the invariant.            *)
LEMMA Frames ==
  ASSUME KeptInv
  PROVE  /\ UNCHANGED <<owed, answer, seen, ackDue, disk>> => JournalType'
         /\ UNCHANGED <<opener, session, admitting>> => HandlersType'
         /\ UNCHANGED <<queued, work, turn, turns>> => WorkType'
         /\ UNCHANGED <<network, risky, unsent>> => NetworkType'
         /\ UNCHANGED faults => FaultsType'
         /\ UNCHANGED <<owed, answer, seen, ackDue, pending, disk>> => SavedInv'
         /\ UNCHANGED <<queued, work>> => WorkInv'
         /\ UNCHANGED <<owed, answer, seen, ackDue, disk, acked, accepted, out, unsent>> => TakenInv'
         /\ UNCHANGED <<opener, seen, ackDue, disk, acked, accepted>> => OpenerInv'
         /\ UNCHANGED <<session, owed, answer, seen, disk, admitting, queued, acked, accepted>> => SessionInv'
         /\ UNCHANGED <<session, owed, seen, disk, queued>> => SeenInv'
         /\ UNCHANGED <<turn, work, owed, answer, opener>> => TurnInv'
<1>1. /\ UNCHANGED <<owed, answer, seen, ackDue, disk>> => JournalType'
      /\ UNCHANGED <<opener, session, admitting>> => HandlersType'
      /\ UNCHANGED <<queued, work, turn, turns>> => WorkType'
      /\ UNCHANGED <<network, risky, unsent>> => NetworkType'
      /\ UNCHANGED faults => FaultsType'
  BY DEF KeptInv, TypeInv, JournalType, HandlersType, WorkType, NetworkType, network, FaultsType
<1>2. UNCHANGED <<owed, answer, seen, ackDue, pending, disk>> => SavedInv'
  BY DEF KeptInv, SavedInv, Snapshot
<1>3. UNCHANGED <<queued, work>> => WorkInv'
  BY DEF KeptInv, WorkInv
<1>4. UNCHANGED <<owed, answer, seen, ackDue, disk, acked, accepted, out, unsent>> => TakenInv'
  BY DEF KeptInv, TakenInv, Honest, Taken, Given
<1>5. UNCHANGED <<opener, seen, ackDue, disk, acked, accepted>> => OpenerInv'
  BY DEF KeptInv, OpenerInv, Taken
<1>6. UNCHANGED <<session, owed, answer, seen, disk, admitting, queued, acked, accepted>> => SessionInv'
  BY DEF KeptInv, SessionInv, FreshOf, Taken
<1>7. UNCHANGED <<session, owed, seen, disk, queued>> => SeenInv'
  BY DEF KeptInv, SeenInv, FreshOf
<1>8. UNCHANGED <<turn, work, owed, answer, opener>> => TurnInv'
  BY DEF KeptInv, TurnInv, Runs, Running
<1>9. QED
  BY <1>1, <1>2, <1>3, <1>4, <1>5, <1>6, <1>7, <1>8

(* A save makes memory the newest snapshot.                                *)
LEMMA SaveKeeps ==
  ASSUME Saved
  PROVE  SavedInv'
BY DEF Saved, SavedInv, Snapshot, None

LEMMA GivenGrows ==
  ASSUME out \subseteq out', unsent \subseteq unsent'
  PROVE  Given \subseteq Given'
BY DEF Given

-----------------------------------------------------------------------------
LEMMA WriteKeeps ==
  ASSUME ConstantsAssumption, KeptInv, Write
  PROVE  KeptInv'
<1>1. /\ disk' = Snapshot /\ pending' = None
      /\ disk'.owed = owed /\ disk'.answer = answer /\ disk'.seen = seen /\ disk'.ackDue = ackDue
  BY DEF Write, KeptInv, SavedInv, Snapshot
<1>2. /\ UNCHANGED <<owed, answer, seen, ackDue, posted, accepted, acked, out, queued, admitting>>
      /\ UNCHANGED <<opener, session, work, turn, turns, risky, unsent, faults>>
  BY DEF Write, memory, network
<1>3. HandlersType' /\ WorkType' /\ NetworkType' /\ FaultsType' /\ WorkInv' /\ TurnInv'
  BY <1>2, Frames DEF network
<1>4. JournalType'
  BY <1>1, <1>2 DEF KeptInv, TypeInv, JournalType, Snapshot, SnapshotType
<1>5. SavedInv'
  BY <1>1, <1>2 DEF SavedInv, Snapshot
<1>6. TakenInv'
  <2>1. Given' = Given /\ Taken' = Taken
    BY <1>2 DEF Given, Taken
  <2>2. QED
    BY <1>1, <1>2, <2>1 DEF KeptInv, TakenInv, Honest
<1>7. OpenerInv'
  BY <1>1, <1>2 DEF KeptInv, OpenerInv, Taken
<1>8. Honest(owed, answer, seen, ackDue)
  BY DEF KeptInv, TakenInv
<1>9. SessionInv'
  BY <1>1, <1>2, <1>8 DEF KeptInv, SessionInv, FreshOf, Taken, Honest
<1>10. SeenInv'
  BY <1>1, <1>2, <1>8 DEF KeptInv, SeenInv, FreshOf, Honest
<1>11. QED
  BY <1>3, <1>4, <1>5, <1>6, <1>7, <1>9, <1>10 DEF KeptInv, TypeInv

(* A drain that ends tells those who wait for it, and nobody else.         *)
LEMMA AnsweredFacts ==
  ASSUME KeptInv, NEW result \in {"ok", "failed"}, Answered(result),
         UNCHANGED <<admitting, queued, work, turns>>
  PROVE  /\ HandlersType' /\ WorkType'
         /\ opener'.phase = opener.phase /\ opener'.msgs = opener.msgs
         /\ opener'.io = opener.io \/ opener'.io = result
         /\ \A p \in Peers :
              /\ session'[p].phase = session[p].phase /\ session'[p].msgs = session[p].msgs
              /\ session'[p].fresh = session[p].fresh
              /\ session'[p].io = session[p].io \/ session'[p].io = result
              /\ turn'[p].phase = turn[p].phase /\ turn'[p].part = turn[p].part
              /\ turn'[p].io = turn[p].io \/ (turn[p].io = "wait" /\ turn'[p].io = result)
<1>1. /\ opener \in HandlerType({"idle", "persist", "accept", "marker"})
      /\ session \in [Peers -> HandlerType({"idle", "persist", "ack"})]
      /\ turn \in [Peers -> TurnType]
  BY DEF KeptInv, TypeInv, HandlersType, WorkType
<1>2. ASSUME NEW phases, NEW h \in HandlerType(phases)
      PROVE  LET g == Settled(h, result)
             IN  /\ g \in HandlerType(phases)
                 /\ g.phase = h.phase /\ g.msgs = h.msgs /\ g.fresh = h.fresh
                 /\ g.io = h.io \/ g.io = result
  BY <1>2 DEF HandlerType, Settled, Waiting
<1>3. ASSUME NEW h \in TurnType
      PROVE  LET g == Settled(h, result)
             IN  /\ g \in TurnType
                 /\ g.phase = h.phase /\ g.part = h.part
                 /\ g.io = h.io \/ (h.io = "wait" /\ g.io = result)
  BY DEF TurnType, Settled, Waiting
<1>4. /\ opener' = Settled(opener, result)
      /\ session' = [p \in Peers |-> Settled(session[p], result)]
      /\ turn' = [p \in Peers |-> Settled(turn[p], result)]
  BY DEF Answered
<1>5. HandlersType'
  BY <1>1, <1>2, <1>4 DEF HandlersType, KeptInv, TypeInv
<1>6. WorkType'
  BY <1>1, <1>3, <1>4 DEF WorkType, KeptInv, TypeInv
<1>7. QED
  BY <1>1, <1>2, <1>3, <1>4, <1>5, <1>6

LEMMA AnsweredTurns ==
  ASSUME KeptInv, NEW result \in {"ok", "failed"}, Answered(result),
         UNCHANGED <<owed, answer, admitting, queued, work, turns>>
  PROVE  TurnInv'
<1>1. /\ opener'.phase = opener.phase /\ opener'.msgs = opener.msgs
      /\ \A p \in Peers : turn'[p].phase = turn[p].phase
  BY AnsweredFacts
<1>2. \A p \in Peers : \A m, S : Runs(p, m, S)' <=> Runs(p, m, S)
  BY <1>1 DEF Runs, Running
<1>3. QED
  BY <1>1, <1>2 DEF KeptInv, TurnInv, Running
LEMMA DrainEndsKeeps ==
  ASSUME ConstantsAssumption, KeptInv, DrainEnds
  PROVE  KeptInv'
<1>1. /\ Answered("ok")
      /\ UNCHANGED <<owed, answer, seen, ackDue, posted, accepted, acked, out, queued, admitting>>
      /\ UNCHANGED <<work, turns, pending, disk, risky, unsent, faults>>
  BY DEF DrainEnds, memory, network
<1>2. JournalType' /\ NetworkType' /\ FaultsType' /\ SavedInv' /\ WorkInv' /\ TakenInv'
  BY <1>1, Frames DEF network
<1>3. HandlersType' /\ WorkType' /\ TurnInv'
  BY <1>1, AnsweredFacts, AnsweredTurns
<1>4. disk.seen = seen /\ disk.answer = answer
  BY DEF KeptInv, SavedInv, DrainEnds, Snapshot
<1>5. /\ opener'.phase = opener.phase /\ opener'.msgs = opener.msgs
      /\ \A p \in Peers : /\ session'[p].phase = session[p].phase /\ session'[p].msgs = session[p].msgs
                          /\ session'[p].fresh = session[p].fresh
  BY <1>1, AnsweredFacts
<1>6. OpenerInv'
  BY <1>1, <1>4, <1>5 DEF KeptInv, OpenerInv, Taken
<1>7. \A p \in Peers : FreshOf(p)' = FreshOf(p) /\ FreshOf(p) \subseteq owed
  BY <1>5 DEF FreshOf, KeptInv, SessionInv
<1>8. owed \subseteq seen
  BY DEF KeptInv, TakenInv, Honest
<1>9. SessionInv'
  BY <1>1, <1>4, <1>5, <1>7, <1>8 DEF KeptInv, SessionInv, Taken
<1>10. SeenInv'
  BY <1>1, <1>4, <1>7 DEF KeptInv, SeenInv, TakenInv, Honest
<1>11. QED
  BY <1>2, <1>3, <1>6, <1>9, <1>10 DEF KeptInv, TypeInv

LEMMA DrainFailsKeeps ==
  ASSUME ConstantsAssumption, KeptInv, DrainFails
  PROVE  KeptInv'
<1>1. /\ Answered("failed")
      /\ faults.disk < MaxDisk /\ faults' = [faults EXCEPT !.disk = @ + 1]
      /\ UNCHANGED <<owed, answer, seen, ackDue, posted, accepted, acked, out, queued, admitting>>
      /\ UNCHANGED <<work, turns, pending, disk, risky, unsent>>
  BY DEF DrainFails, memory, network
<1>2. JournalType' /\ NetworkType' /\ SavedInv' /\ WorkInv' /\ TakenInv'
  BY <1>1, Frames DEF network
<1>3. HandlersType' /\ WorkType' /\ TurnInv'
  BY <1>1, AnsweredFacts, AnsweredTurns
<1>4. FaultsType'
  BY <1>1 DEF FaultsType, KeptInv, TypeInv, ConstantsAssumption
<1>5. /\ opener'.phase = opener.phase /\ opener'.msgs = opener.msgs
      /\ opener'.io = "ok" => opener.io = "ok"
      /\ \A p \in Peers : /\ session'[p].phase = session[p].phase /\ session'[p].msgs = session[p].msgs
                          /\ session'[p].fresh = session[p].fresh
                          /\ session'[p].io = "ok" => session[p].io = "ok"
  BY <1>1, AnsweredFacts
<1>6. OpenerInv'
  BY <1>1, <1>5 DEF KeptInv, OpenerInv, Taken
<1>7. \A p \in Peers : FreshOf(p)' = FreshOf(p)
  BY <1>5 DEF FreshOf
<1>8. SessionInv'
  BY <1>1, <1>5, <1>7 DEF KeptInv, SessionInv, Taken
<1>9. SeenInv'
  <2>1. \A m \in Msg : m[1] \in Peers
    BY DEF Msg
  <2>2. QED
    BY <1>1, <1>7, <2>1 DEF KeptInv, SeenInv
<1>10. QED
  BY <1>2, <1>3, <1>4, <1>6, <1>8, <1>9 DEF KeptInv, TypeInv

-----------------------------------------------------------------------------
LEMMA OpenerArrivesKeeps ==
  ASSUME ConstantsAssumption, KeptInv, NEW p \in Peers, OpenerArrives(p)
  PROVE  KeptInv'
<1> DEFINE m == OpenerOf(p)
<1>1. /\ opener.phase = "idle"
      /\ UNCHANGED <<posted, accepted, acked, out, queued, admitting, session>>
      /\ UNCHANGED <<work, turn, turns, disk, risky, unsent, faults, answer, ackDue>>
  BY DEF OpenerArrives, memory, network
<1>2. m \in Msg /\ IsOpener(m)
  BY DEF OpenerOf, Msg, IsOpener, ConstantsAssumption
<1>3. WorkType' /\ NetworkType' /\ FaultsType' /\ WorkInv'
  BY <1>1, Frames DEF network
<1>4. CASE /\ m \in ackDue
           /\ opener' = [phase |-> "accept", msgs |-> {m}, fresh |-> {}, io |-> "none"]
           /\ UNCHANGED <<memory, pending>>
  <2>1. JournalType' /\ SavedInv' /\ TakenInv' /\ SessionInv' /\ SeenInv'
    BY <1>1, <1>4, Frames DEF memory
  <2>2. HandlersType'
    BY <1>1, <1>2, <1>4 DEF KeptInv, TypeInv, HandlersType, HandlerType
  <2>3. OpenerInv'
    BY <1>1, <1>2, <1>4 DEF KeptInv, TakenInv, OpenerInv, memory
  <2>4. TurnInv'
    BY <1>1, <1>4 DEF KeptInv, TurnInv, Runs, Running, memory
  <2>5. QED
    BY <1>3, <2>1, <2>2, <2>3, <2>4 DEF KeptInv, TypeInv
<1>5. CASE /\ m \notin ackDue \cup seen
           /\ owed' = owed \cup {m} /\ seen' = seen \cup {m}
           /\ opener' = [phase |-> "persist", msgs |-> {m}, fresh |-> {m}, io |-> "wait"]
           /\ Saved
  <2>1. JournalType' /\ HandlersType'
    BY <1>1, <1>2, <1>5 DEF KeptInv, TypeInv, JournalType, HandlersType, HandlerType
  <2>2. SavedInv'
    BY <1>5, SaveKeeps
  <2>3. TakenInv'
    BY <1>1, <1>5 DEF KeptInv, TakenInv, Honest, Taken, Given
  <2>4. OpenerInv'
    BY <1>1, <1>2, <1>5 DEF KeptInv, TakenInv, OpenerInv, Taken
  <2>5. \A q \in Peers : FreshOf(q)' = FreshOf(q)
    BY <1>1 DEF FreshOf
  <2>6. SessionInv'
    BY <1>1, <1>5, <2>5 DEF KeptInv, SessionInv, Taken
  <2>7. SeenInv'
    BY <1>1, <1>2, <1>5 DEF KeptInv, SeenInv, FreshOf
  <2>8. answer[m] = {}
    BY <1>2, <1>5 DEF KeptInv, TakenInv, Honest
  <2>9. TurnInv'
    BY <1>1, <1>5, <2>8 DEF KeptInv, TurnInv, Runs, Running
  <2>10. QED
    BY <1>3, <2>1, <2>2, <2>3, <2>4, <2>6, <2>7, <2>9 DEF KeptInv, TypeInv
<1>6. QED
  BY <1>4, <1>5 DEF OpenerArrives

LEMMA OpenerPersistedKeeps ==
  ASSUME ConstantsAssumption, KeptInv, OpenerPersisted
  PROVE  KeptInv'
<1>1. /\ opener.phase = "persist"
      /\ UNCHANGED <<posted, accepted, acked, out, queued, admitting, session>>
      /\ UNCHANGED <<work, turn, turns, disk, risky, unsent, faults, ackDue>>
  BY DEF OpenerPersisted, memory, network
<1>2. WorkType' /\ NetworkType' /\ FaultsType' /\ WorkInv'
  BY <1>1, Frames DEF network
<1>3. opener \in HandlerType({"idle", "persist", "accept", "marker"})
  BY DEF KeptInv, TypeInv, HandlersType
<1>4. CASE /\ opener.io = "ok"
           /\ opener' = [opener EXCEPT !.phase = "accept", !.io = "none"]
           /\ UNCHANGED <<memory, pending>>
  <2>1. JournalType' /\ SavedInv' /\ TakenInv' /\ SessionInv' /\ SeenInv'
    BY <1>1, <1>4, Frames DEF memory
  <2>2. opener'.phase = "accept" /\ opener'.msgs = opener.msgs /\ opener' \in HandlerType({"idle", "persist", "accept", "marker"})
    BY <1>3, <1>4 DEF HandlerType
  <2>3. HandlersType'
    BY <1>1, <2>2 DEF KeptInv, TypeInv, HandlersType
  <2>4. OpenerInv'
    BY <1>1, <1>4, <2>2 DEF KeptInv, OpenerInv, memory
  <2>5. TurnInv'
    BY <1>1, <1>4, <2>2 DEF KeptInv, TurnInv, Runs, Running, memory
  <2>6. QED
    BY <1>2, <2>1, <2>3, <2>4, <2>5 DEF KeptInv, TypeInv
<1>5. CASE /\ opener.io = "failed"
           /\ opener' = Handler
           /\ seen' = seen \ opener.msgs
           /\ owed' = owed \ opener.msgs
           /\ answer' = [m \in Msg |-> IF m \in opener.msgs THEN {} ELSE answer[m]]
           /\ Saved
  <2>1. opener'.phase = "idle" /\ opener'.msgs = {} /\ opener' \in HandlerType({"idle", "persist", "accept", "marker"})
    BY <1>5 DEF Handler, HandlerType
  <2>2. \A m \in opener.msgs : IsOpener(m) /\ m \notin ackDue \cup Taken
    BY <1>1 DEF KeptInv, OpenerInv
  <2>3. {} \in EntryParts
    BY DEF EntryParts
  <2>4. JournalType' /\ HandlersType'
    BY <1>1, <1>5, <2>1, <2>3 DEF KeptInv, TypeInv, JournalType, HandlersType
  <2>5. SavedInv'
    BY <1>5, SaveKeeps
  <2>6. TakenInv'
    BY <1>1, <1>5, <2>2 DEF KeptInv, TakenInv, Honest, Taken, Given
  <2>7. OpenerInv'
    BY <1>1, <1>5, <2>1 DEF KeptInv, OpenerInv
  <2>8. SessionInv'
    <3>1. \A q \in Peers : FreshOf(q)' = FreshOf(q)
      BY <1>1 DEF FreshOf
    <3>2. \A q \in Peers : \A m \in session[q].msgs \cup FreshOf(q) : ~IsOpener(m)
      BY DEF KeptInv, SessionInv, FreshOf
    <3>3. \A q \in Peers : FreshOf(q) \subseteq Msg
      BY DEF KeptInv, SessionInv, TypeInv, JournalType
    <3>4. QED
      BY <1>1, <1>5, <2>2, <3>1, <3>2, <3>3 DEF KeptInv, SessionInv, Taken
  <2>9. SeenInv'
    BY <1>1, <1>5, <2>2 DEF KeptInv, SeenInv, FreshOf
  <2>10. TurnInv'
    <3>1. ASSUME NEW q \in Peers, turn[q].phase = "resend"
          PROVE  Running(q) \in owed' /\ answer'[Running(q)] # {}
      <4>1. Running(q) \in owed /\ answer[Running(q)] # {} /\ Running(q) \notin opener.msgs
        BY <1>1, <3>1 DEF KeptInv, TurnInv
      <4>2. owed \subseteq Msg
        BY DEF KeptInv, TypeInv, JournalType
      <4>3. QED
        BY <1>5, <4>1, <4>2
    <3>2. QED
      BY <1>1, <2>1, <3>1 DEF KeptInv, TurnInv, Running
  <2>11. QED
    BY <1>2, <2>4, <2>5, <2>6, <2>7, <2>8, <2>9, <2>10 DEF KeptInv, TypeInv
<1>6. QED
  BY <1>4, <1>5 DEF OpenerPersisted

LEMMA OpenerDeferredKeeps ==
  ASSUME ConstantsAssumption, KeptInv, OpenerDeferred
  PROVE  KeptInv'
<1>1. /\ opener' = Handler
      /\ UNCHANGED <<memory, network, queued, admitting, session, work, turn, turns, pending, disk,
                     risky, unsent, faults>>
  BY DEF OpenerDeferred
<1>2. /\ JournalType' /\ WorkType' /\ NetworkType' /\ FaultsType' /\ WorkInv'
      /\ SavedInv' /\ TakenInv' /\ SessionInv' /\ SeenInv'
  BY <1>1, Frames DEF network, memory
<1>3. HandlersType' /\ OpenerInv' /\ TurnInv'
  BY <1>1 DEF KeptInv, TypeInv, HandlersType, HandlerType, Handler, OpenerInv, TurnInv, Running, memory
<1>4. QED
  BY <1>2, <1>3 DEF KeptInv, TypeInv

LEMMA OpenerAcceptFailsKeeps ==
  ASSUME ConstantsAssumption, KeptInv, NEW p \in Peers, OpenerAcceptFails(p)
  PROVE  KeptInv'
<1> DEFINE m == OpenerOf(p)
<1>1. /\ opener.phase = "accept" /\ opener.msgs = {m}
      /\ faults.fails < MaxFails /\ faults' = [faults EXCEPT !.fails = @ + 1]
      /\ accepted' \in {accepted, accepted \cup {p}} /\ ackDue' = ackDue \cup {m}
      /\ opener' = [opener EXCEPT !.phase = "marker", !.io = "wait"]
      /\ UNCHANGED <<posted, acked, out, queued, admitting, session, owed, answer, seen>>
      /\ UNCHANGED <<work, turn, turns, disk, risky, unsent>>
      /\ Saved
  BY DEF OpenerAcceptFails
<1>2. m \in Msg /\ m \in seen \cap disk.seen
  BY <1>1 DEF KeptInv, OpenerInv, OpenerOf, Msg, ConstantsAssumption
<1>3. WorkType' /\ WorkInv' /\ SeenInv'
  BY <1>1, Frames
<1>4. JournalType' /\ NetworkType' /\ FaultsType'
  BY <1>1, <1>2 DEF KeptInv, TypeInv, JournalType, NetworkType, FaultsType, ConstantsAssumption
<1>5. opener'.phase = "marker" /\ opener'.msgs = {m} /\ opener' \in HandlerType({"idle", "persist", "accept", "marker"})
  BY <1>1 DEF KeptInv, TypeInv, HandlersType, HandlerType
<1>6. HandlersType'
  BY <1>1, <1>5 DEF KeptInv, TypeInv, HandlersType
<1>7. SavedInv'
  BY <1>1, SaveKeeps
<1>8. Taken' \subseteq Taken \cup {m}
  BY <1>1 DEF Taken
<1>9. TakenInv'
  <2>1. Given' = Given
    BY <1>1 DEF Given
  <2>2. QED
    BY <1>1, <1>2, <1>8, <2>1 DEF KeptInv, TakenInv, Honest
<1>10. OpenerInv'
  BY <1>1, <1>5 DEF KeptInv, OpenerInv
<1>11. SessionInv'
  <2>1. IsOpener(m)
    BY DEF OpenerOf, IsOpener
  <2>2. \A q \in Peers : FreshOf(q)' = FreshOf(q) /\ m \notin FreshOf(q)
    BY <1>1, <2>1 DEF FreshOf, KeptInv, SessionInv
  <2>3. QED
    BY <1>1, <1>8, <2>2 DEF KeptInv, SessionInv
<1>12. TurnInv'
  BY <1>1, <1>5 DEF KeptInv, TurnInv, Running
<1>13. QED
  BY <1>3, <1>4, <1>6, <1>7, <1>9, <1>10, <1>11, <1>12 DEF KeptInv, TypeInv

LEMMA OpenerAcceptedKeeps ==
  ASSUME ConstantsAssumption, KeptInv, NEW p \in Peers, OpenerAccepted(p)
  PROVE  KeptInv'
<1> DEFINE m == OpenerOf(p)
<1>1. /\ opener.phase = "accept" /\ opener.msgs = {m}
      /\ accepted' = accepted \cup {p} /\ ackDue' = ackDue \ {m}
      /\ opener' = Handler
      /\ UNCHANGED <<posted, acked, out, admitting, session, owed, answer, seen>>
      /\ UNCHANGED <<turn, turns, disk, risky, unsent, faults>>
      /\ IF m \in ackDue THEN Saved ELSE UNCHANGED pending
      /\ \/ m \notin queued /\ EnqueueOwed(p, {m})
         \/ UNCHANGED <<queued, work>>
  BY DEF OpenerAccepted
<1>2. m \in Msg /\ IsOpener(m) /\ m[1] = p /\ m \in seen \cap disk.seen
  BY <1>1 DEF KeptInv, OpenerInv, OpenerOf, Msg, IsOpener, ConstantsAssumption
<1>3. /\ WorkInv' /\ work' \in [Peers -> Seq(Msg)] /\ HeadsKept(Peers)
      /\ queued' \subseteq queued \cup {m}
  <2>1. CASE m \notin queued /\ EnqueueOwed(p, {m})
    <3>1. {m} \in SUBSET Of(p) /\ {m} \cap queued = {}
      BY <1>2, <2>1 DEF Of
    <3>2. QED
      BY <2>1, <3>1, Enqueued DEF KeptInv
  <2>2. CASE UNCHANGED <<queued, work>>
    BY <2>2, Frames DEF KeptInv, TypeInv, WorkType, HeadsKept
  <2>3. QED
    BY <1>1, <2>1, <2>2
<1>4. WorkType'
  BY <1>1, <1>2, <1>3 DEF KeptInv, TypeInv, WorkType
<1>5. JournalType' /\ NetworkType' /\ FaultsType'
  BY <1>1, <1>2 DEF KeptInv, TypeInv, JournalType, NetworkType, FaultsType
<1>6. opener'.phase = "idle" /\ opener'.msgs = {} /\ opener' \in HandlerType({"idle", "persist", "accept", "marker"})
  BY <1>1 DEF Handler, HandlerType
<1>7. HandlersType'
  BY <1>1, <1>6 DEF KeptInv, TypeInv, HandlersType
<1>8. SavedInv'
  <2>1. CASE m \in ackDue
    BY <1>1, <2>1, SaveKeeps
  <2>2. CASE m \notin ackDue
    <3>1. UNCHANGED <<owed, answer, seen, ackDue, pending, disk>>
      BY <1>1, <2>2
    <3>2. QED
      BY <3>1, Frames
  <2>3. QED
    BY <2>1, <2>2
<1>9. Taken' \subseteq Taken \cup {m}
  BY <1>1 DEF Taken
<1>10. TakenInv'
  <2>1. Given' = Given
    BY <1>1 DEF Given
  <2>2. QED
    BY <1>1, <1>2, <1>9, <2>1 DEF KeptInv, TakenInv, Honest
<1>11. OpenerInv'
  BY <1>1, <1>6 DEF KeptInv, OpenerInv
<1>12. \A q \in Peers : FreshOf(q)' = FreshOf(q) /\ m \notin FreshOf(q)
  BY <1>1, <1>2 DEF FreshOf, KeptInv, SessionInv
<1>13. SessionInv'
  BY <1>1, <1>3, <1>9, <1>12 DEF KeptInv, SessionInv
<1>14. SeenInv'
  BY <1>1, <1>2, <1>3 DEF KeptInv, SeenInv, FreshOf
<1>15. TurnInv'
  <2>1. \A q \in Peers : work[q] # <<>> => work'[q] # <<>> /\ Running(q)' = Running(q)
    BY <1>3 DEF HeadsKept, Running
  <2>2. QED
    BY <1>1, <1>6, <2>1 DEF KeptInv, TurnInv
<1>16. QED
  BY <1>3, <1>4, <1>5, <1>7, <1>8, <1>10, <1>11, <1>13, <1>14, <1>15 DEF KeptInv, TypeInv

-----------------------------------------------------------------------------
LEMMA SessionArrivesKeeps ==
  ASSUME ConstantsAssumption, KeptInv, NEW p \in Peers, SessionArrives(p)
  PROVE  KeptInv'
<1> DEFINE fresh == Batch(p) \ seen
<1>1. /\ session[p].phase = "idle" /\ Batch(p) # {}
      /\ owed' = owed \cup fresh /\ admitting' = admitting \cup fresh /\ seen' = seen \cup fresh
      /\ UNCHANGED <<answer, ackDue, posted, accepted, acked, out, queued, opener>>
      /\ UNCHANGED <<work, turn, turns, disk, risky, unsent, faults>>
  BY DEF SessionArrives, network
<1>2. \A m \in Batch(p) : m \in Msg /\ m[1] = p /\ ~IsOpener(m)
  BY DEF Batch, KeptInv, TypeInv, NetworkType
<1>3. WorkType' /\ NetworkType' /\ FaultsType' /\ WorkInv'
  BY <1>1, Frames DEF network
<1>4. \E h \in HandlerType({"idle", "persist", "ack"}) :
        /\ session' = [session EXCEPT ![p] = h]
        /\ h.msgs = Batch(p) /\ h.fresh = fresh /\ h.io # "ok"
        /\ h.phase = IF fresh = {} THEN "ack" ELSE "persist"
  <2>1. Batch(p) \in SUBSET Msg /\ fresh \in SUBSET Msg
    BY <1>2
  <2>2. CASE fresh = {}
    <3>1. [phase |-> "ack", msgs |-> Batch(p), fresh |-> {}, io |-> "none"]
            \in HandlerType({"idle", "persist", "ack"})
      BY <2>1 DEF HandlerType
    <3>2. QED
      BY <2>2, <3>1 DEF SessionArrives
  <2>3. CASE fresh # {}
    <3>1. [phase |-> "persist", msgs |-> Batch(p), fresh |-> fresh, io |-> "wait"]
            \in HandlerType({"idle", "persist", "ack"})
      BY <2>1 DEF HandlerType
    <3>2. QED
      BY <2>3, <3>1 DEF SessionArrives
  <2>4. QED
    BY <2>2, <2>3
<1>5. session \in [Peers -> HandlerType({"idle", "persist", "ack"})]
  BY DEF KeptInv, TypeInv, HandlersType
<1>6. /\ session'[p].msgs = Batch(p) /\ session'[p].fresh = fresh /\ session'[p].io # "ok"
      /\ session'[p].phase = IF fresh = {} THEN "ack" ELSE "persist"
      /\ \A q \in Peers \ {p} : session'[q] = session[q]
      /\ session' \in [Peers -> HandlerType({"idle", "persist", "ack"})]
  BY <1>4, <1>5
<1> HIDE DEF fresh
<1>7. \A m \in fresh : m \in Msg /\ m[1] = p /\ ~IsOpener(m) /\ m \notin seen
  BY <1>2 DEF fresh
<1>8. JournalType' /\ HandlersType'
  BY <1>1, <1>6, <1>7 DEF KeptInv, TypeInv, JournalType, HandlersType
<1>9. SavedInv'
  <2>1. CASE fresh = {}
    <3>1. UNCHANGED <<owed, answer, seen, ackDue, pending, disk>>
      BY <1>1, <2>1 DEF SessionArrives, fresh
    <3>2. QED
      BY <3>1, Frames
  <2>2. CASE fresh # {}
    BY <2>2, SaveKeeps DEF SessionArrives, fresh
  <2>3. QED
    BY <2>1, <2>2
<1>10. TakenInv'
  BY <1>1 DEF KeptInv, TakenInv, Honest, Taken, Given
<1>11. OpenerInv'
  BY <1>1 DEF KeptInv, OpenerInv, Taken
<1>12. /\ FreshOf(p) = {} /\ FreshOf(p)' = fresh
       /\ \A q \in Peers \ {p} : FreshOf(q)' = FreshOf(q)
  BY <1>1, <1>6 DEF FreshOf
<1>13. \A m \in fresh : m \notin queued \cup Taken /\ answer[m] = {} /\ disk.answer[m] = {}
  BY <1>7 DEF KeptInv, SeenInv, TakenInv, Honest
<1>14. \A m \in Batch(p) : m \in seen => m \in disk.seen
  BY <1>2, <1>12 DEF KeptInv, SeenInv
<1>15. SessionInv'
  <2>1. Taken' = Taken
    BY <1>1 DEF Taken
  <2>2. ASSUME NEW q \in Peers, q # p
        PROVE  /\ session'[q] = session[q] /\ FreshOf(q)' = FreshOf(q)
    BY <1>6, <1>12, <2>2
  <2>3. Batch(p) \subseteq seen' /\ (fresh = {} => Batch(p) \subseteq disk.seen)
    BY <1>1, <1>14 DEF fresh
  <2>4. \A m \in session'[p].msgs \cup session'[p].fresh : m[1] = p /\ ~IsOpener(m)
    BY <1>2, <1>6, <1>7
  <2>5. /\ FreshOf(p)' \subseteq (owed' \cap admitting') \ (queued' \cup Taken')
        /\ \A m \in FreshOf(p)' : answer'[m] = {} /\ disk'.answer[m] = {}
    BY <1>1, <1>12, <1>13, <2>1
  <2>6. QED
    BY <1>1, <1>6, <2>1, <2>2, <2>3, <2>4, <2>5 DEF KeptInv, SessionInv
<1>16. SeenInv'
  <2>1. \A m \in Msg : m[1] \in Peers
    BY DEF Msg
  <2>2. \A m \in Msg : FreshOf(m[1]) \subseteq FreshOf(m[1])'
    BY <1>12, <2>1
  <2>3. \A m \in fresh : m \in FreshOf(m[1])'
    BY <1>7, <1>12
  <2>4. QED
    BY <1>1, <2>2, <2>3 DEF KeptInv, SeenInv
<1>17. TurnInv'
  BY <1>1 DEF KeptInv, TurnInv, Runs, Running
<1>18. QED
  BY <1>3, <1>8, <1>9, <1>10, <1>11, <1>15, <1>16, <1>17 DEF KeptInv, TypeInv

LEMMA SessionPersistedKeeps ==
  ASSUME ConstantsAssumption, KeptInv, NEW p \in Peers, SessionPersisted(p)
  PROVE  KeptInv'
<1> DEFINE h == session[p]
<1>1. /\ h.phase = "persist" /\ admitting' = admitting \ h.fresh
      /\ UNCHANGED <<ackDue, posted, accepted, acked, out, opener>>
      /\ UNCHANGED <<turn, turns, disk, risky, unsent, faults>>
  BY DEF SessionPersisted, network
<1>2. FreshOf(p) = h.fresh /\ session \in [Peers -> HandlerType({"idle", "persist", "ack"})]
  BY <1>1 DEF FreshOf, KeptInv, TypeInv, HandlersType
<1>3. h.fresh \subseteq Msg
  BY <1>2 DEF HandlerType
<1>4. NetworkType' /\ FaultsType'
  BY <1>1, Frames DEF network
<1>5. /\ \A m \in h.fresh : m[1] = p /\ ~IsOpener(m) /\ m \notin queued \cup Taken
      /\ \A m \in h.fresh : m \in owed /\ answer[m] = {} /\ disk.answer[m] = {}
      /\ \A m \in h.msgs : m[1] = p /\ ~IsOpener(m) /\ m \in seen
      /\ \A m \in h.fresh : h.io = "ok" => m \in disk.seen
  BY <1>1, <1>2 DEF KeptInv, SessionInv
<1>6. ASSUME NEW q \in Peers, NEW m \in FreshOf(q)
      PROVE  m[1] = q /\ (q # p => m \notin h.fresh)
  BY <1>5 DEF KeptInv, SessionInv, FreshOf
<1>7. CASE /\ h.io = "ok" /\ EnqueueOwed(p, h.fresh)
           /\ session' = [session EXCEPT ![p] = [@ EXCEPT !.phase = "ack", !.io = "none"]]
           /\ UNCHANGED <<owed, answer, seen, pending>>
  <2>1. /\ session'[p].phase = "ack" /\ session'[p].msgs = h.msgs /\ session'[p].fresh = h.fresh
        /\ session'[p].io = "none"
        /\ \A q \in Peers \ {p} : session'[q] = session[q]
        /\ session' \in [Peers -> HandlerType({"idle", "persist", "ack"})]
    BY <1>2, <1>7 DEF HandlerType
  <2>2. /\ WorkInv' /\ work' \in [Peers -> Seq(Msg)] /\ HeadsKept(Peers)
        /\ queued' = queued \cup h.fresh
    <3>1. h.fresh \in SUBSET Of(p) /\ h.fresh \cap queued = {}
      BY <1>3, <1>5 DEF Of
    <3>2. QED
      BY <1>7, <3>1, Enqueued DEF KeptInv
  <2>3. JournalType' /\ SavedInv' /\ TakenInv' /\ OpenerInv'
    BY <1>1, <1>7, Frames
  <2>4. HandlersType' /\ WorkType'
    BY <1>1, <1>3, <2>1, <2>2 DEF KeptInv, TypeInv, HandlersType, WorkType
  <2>5. FreshOf(p)' = {} /\ \A q \in Peers \ {p} : FreshOf(q)' = FreshOf(q)
    BY <2>1 DEF FreshOf
  <2>6. h.msgs \subseteq disk.seen
    BY <1>2, <1>5, <1>7 DEF KeptInv, SeenInv, HandlerType
  <2>7. SessionInv'
    <3>1. Taken' = Taken
      BY <1>1 DEF Taken
    <3>2. ASSUME NEW q \in Peers, q # p
          PROVE  /\ session'[q] = session[q] /\ FreshOf(q)' = FreshOf(q)
                 /\ FreshOf(q)' \subseteq (owed' \cap admitting') \ (queued' \cup Taken')
      BY <1>1, <1>6, <1>7, <2>1, <2>2, <2>5, <3>1, <3>2 DEF KeptInv, SessionInv
    <3>3. QED
      BY <1>1, <1>5, <1>7, <2>1, <2>5, <2>6, <3>1, <3>2 DEF KeptInv, SessionInv
  <2>8. SeenInv'
    <3>1. \A m \in Msg : m[1] \in Peers
      BY DEF Msg
    <3>2. QED
      BY <1>1, <1>2, <1>5, <1>7, <2>2, <2>5, <3>1 DEF KeptInv, SeenInv
  <2>9. TurnInv'
    <3>1. \A q \in Peers : work[q] # <<>> => work'[q] # <<>> /\ Running(q)' = Running(q)
      BY <2>2 DEF HeadsKept, Running
    <3>2. \A q \in Peers : \A m, S : Runs(q, m, S) => Runs(q, m, S)'
      BY <1>1, <3>1 DEF Runs
    <3>3. QED
      BY <1>1, <1>7, <3>1, <3>2 DEF KeptInv, TurnInv
  <2>10. QED
    BY <1>4, <2>2, <2>3, <2>4, <2>7, <2>8, <2>9 DEF KeptInv, TypeInv
<1>8. CASE /\ seen' = seen \ h.fresh /\ owed' = owed \ h.fresh
           /\ answer' = [m \in Msg |-> IF m \in h.fresh THEN {} ELSE answer[m]]
           /\ session' = [session EXCEPT ![p] = Handler]
           /\ UNCHANGED <<queued, work>>
           /\ Saved
  <2>1. /\ session'[p] = Handler
        /\ \A q \in Peers \ {p} : session'[q] = session[q]
        /\ session' \in [Peers -> HandlerType({"idle", "persist", "ack"})]
    BY <1>2, <1>8 DEF HandlerType, Handler
  <2>2. answer' = answer
    BY <1>5, <1>8 DEF KeptInv, TypeInv, JournalType
  <2>3. WorkInv' /\ WorkType'
    BY <1>1, <1>8, Frames
  <2>4. JournalType' /\ HandlersType'
    BY <1>1, <1>8, <2>1, <2>2 DEF KeptInv, TypeInv, JournalType, HandlersType
  <2>5. SavedInv'
    BY <1>8, SaveKeeps
  <2>6. \A m \in h.fresh : m \notin ackDue /\ m \notin Taken
    BY <1>1, <1>5 DEF KeptInv, OpenerInv
  <2>7. TakenInv'
    BY <1>1, <1>5, <1>8, <2>2, <2>6 DEF KeptInv, TakenInv, Honest, Taken, Given
  <2>8. OpenerInv'
    BY <1>1, <1>5, <1>8 DEF KeptInv, OpenerInv, Taken
  <2>9. FreshOf(p)' = {} /\ \A q \in Peers \ {p} : FreshOf(q)' = FreshOf(q)
    BY <2>1 DEF FreshOf, Handler
  <2>10. SessionInv'
    <3>1. Taken' = Taken
      BY <1>1 DEF Taken
    <3>2. ASSUME NEW q \in Peers, q # p
          PROVE  /\ session'[q] = session[q] /\ FreshOf(q)' = FreshOf(q)
                 /\ FreshOf(q)' \subseteq (owed' \cap admitting') \ (queued' \cup Taken')
                 /\ session[q].msgs \cap h.fresh = {}
      BY <1>1, <1>5, <1>6, <1>8, <2>1, <2>9, <3>1, <3>2 DEF KeptInv, SessionInv
    <3>3. session'[p].msgs = {} /\ session'[p].fresh = {} /\ session'[p].phase = "idle"
      BY <2>1 DEF Handler
    <3>4. ASSUME NEW q \in Peers, q # p, session[q].phase # "idle"
          PROVE  session[q].msgs \subseteq seen'
      BY <1>8, <3>2, <3>4 DEF KeptInv, SessionInv
    <3>5. QED
      BY <1>1, <2>2, <2>9, <3>1, <3>2, <3>3, <3>4 DEF KeptInv, SessionInv
  <2>11. SeenInv'
    <3>1. \A m \in Msg : m[1] \in Peers
      BY DEF Msg
    <3>2. \A m \in Msg : m \in FreshOf(m[1]) => m \in h.fresh \/ m \in FreshOf(m[1])'
      BY <1>2, <2>9, <3>1
    <3>3. QED
      BY <1>1, <1>5, <1>8, <3>2 DEF KeptInv, SeenInv
  <2>12. TurnInv'
    <3>1. \A q \in Peers : turn[q].phase = "resend" => Running(q) \in owed'
      BY <1>5, <1>8 DEF KeptInv, TurnInv
    <3>2. \A q \in Peers : Running(q)' = Running(q) /\ \A k, S : Runs(q, k, S)' <=> Runs(q, k, S)
      BY <1>1, <1>8 DEF Runs, Running
    <3>3. QED
      BY <1>1, <1>8, <2>2, <3>1, <3>2 DEF KeptInv, TurnInv
  <2>13. QED
    BY <1>4, <2>3, <2>4, <2>5, <2>7, <2>8, <2>10, <2>11, <2>12 DEF KeptInv, TypeInv
<1>9. QED
  BY <1>7, <1>8 DEF SessionPersisted

LEMMA SessionAcksKeeps ==
  ASSUME ConstantsAssumption, KeptInv, NEW p \in Peers, SessionAcks(p)
  PROVE  KeptInv'
<1> DEFINE h == session[p]
<1>1. /\ h.phase = "ack" /\ session' = [session EXCEPT ![p] = Handler]
      /\ acked' = acked \cup h.msgs \/ UNCHANGED acked
      /\ \/ UNCHANGED faults
         \/ faults.fails < MaxFails /\ faults' = [faults EXCEPT !.fails = @ + 1]
      /\ UNCHANGED <<memory, queued, admitting, opener, work, turn, turns, pending, disk, posted,
                     accepted, out, risky, unsent>>
  BY DEF SessionAcks
<1>2. /\ JournalType' /\ WorkType' /\ WorkInv' /\ SavedInv' /\ TurnInv'
  BY <1>1, Frames DEF memory
<1>3. /\ session'[p] = Handler
      /\ \A q \in Peers \ {p} : session'[q] = session[q]
      /\ session' \in [Peers -> HandlerType({"idle", "persist", "ack"})]
  BY <1>1 DEF KeptInv, TypeInv, HandlersType, HandlerType, Handler
<1>4. h.msgs \subseteq Msg /\ FaultsType'
  BY <1>1 DEF KeptInv, TypeInv, HandlersType, HandlerType, FaultsType, ConstantsAssumption
<1>5. HandlersType' /\ NetworkType'
  BY <1>1, <1>3, <1>4 DEF KeptInv, TypeInv, HandlersType, NetworkType
<1>6. /\ h.msgs \subseteq seen \cap disk.seen
      /\ \A m \in h.msgs : m[1] = p /\ ~IsOpener(m)
  BY <1>1 DEF KeptInv, SessionInv
<1>7. Taken' \subseteq Taken \cup h.msgs /\ Given' = Given
  BY <1>1 DEF Taken, Given
<1>8. TakenInv'
  BY <1>1, <1>6, <1>7 DEF KeptInv, TakenInv, Honest, memory
<1>9. OpenerInv'
  BY <1>1, <1>6, <1>7 DEF KeptInv, OpenerInv, memory
<1>10. FreshOf(p)' = {} /\ FreshOf(p) = {} /\ \A q \in Peers \ {p} : FreshOf(q)' = FreshOf(q)
  BY <1>1, <1>3 DEF FreshOf, Handler
<1>11. SessionInv'
  <2>1. ASSUME NEW q \in Peers, q # p
        PROVE  /\ session'[q] = session[q] /\ FreshOf(q)' = FreshOf(q)
               /\ FreshOf(q)' \subseteq (owed' \cap admitting') \ (queued' \cup Taken')
    <3>1. \A m \in FreshOf(q) : m[1] = q
      BY DEF FreshOf, KeptInv, SessionInv
    <3>2. QED
      BY <1>1, <1>3, <1>6, <1>7, <1>10, <2>1, <3>1 DEF KeptInv, SessionInv, memory
  <2>2. session'[p].msgs = {} /\ session'[p].fresh = {} /\ session'[p].phase = "idle"
    BY <1>3 DEF Handler
  <2>3. QED
    BY <1>1, <1>10, <2>1, <2>2 DEF KeptInv, SessionInv, memory
<1>12. SeenInv'
  <2>1. \A m \in Msg : m[1] \in Peers
    BY DEF Msg
  <2>2. \A m \in Msg : FreshOf(m[1])' = FreshOf(m[1])
    BY <1>10, <2>1
  <2>3. QED
    BY <1>1, <2>2 DEF KeptInv, SeenInv, memory
<1>13. QED
  BY <1>2, <1>4, <1>5, <1>8, <1>9, <1>11, <1>12 DEF KeptInv, TypeInv

-----------------------------------------------------------------------------
LEMMA WorkStartsKeeps ==
  ASSUME ConstantsAssumption, KeptInv, NEW p \in Peers, WorkStarts(p)
  PROVE  KeptInv'
<1> DEFINE m == Running(p)
<1>1. /\ Busy(p) /\ turn[p].phase = "idle"
      /\ UNCHANGED <<memory, network, queued, admitting, opener, session, work, pending, disk,
                     risky, unsent, faults>>
  BY DEF WorkStarts
<1>2. /\ JournalType' /\ HandlersType' /\ NetworkType' /\ FaultsType' /\ SavedInv' /\ WorkInv'
      /\ TakenInv' /\ OpenerInv' /\ SessionInv' /\ SeenInv'
  BY <1>1, Frames DEF memory, network
<1>3. m \in Msg /\ m[1] = p
  BY <1>1, Finished DEF KeptInv, WorkInv, Busy, Running
<1>4. \E ph \in {"resend", "brain"} :
        /\ turn' = [turn EXCEPT ![p] = [phase |-> ph, part |-> 1, io |-> "none"]]
        /\ ph = "resend" <=> m \in owed /\ answer[m] # {}
  BY DEF WorkStarts, NoTurn
<1>5. /\ turn'[p].phase \in {"resend", "brain"}
      /\ turn'[p].phase = "resend" <=> m \in owed /\ answer[m] # {}
      /\ turn' \in [Peers -> TurnType]
      /\ \A q \in Peers \ {p} : turn'[q] = turn[q]
  <2>1. 1 \in 1 .. Parts
    BY DEF ConstantsAssumption
  <2>2. QED
    BY <1>4, <2>1 DEF KeptInv, TypeInv, WorkType, TurnType
<1>6. WorkType'
  <2>1. turns' \in [Msg -> Nat]
    BY <1>3 DEF WorkStarts, KeptInv, TypeInv, WorkType
  <2>2. QED
    BY <1>1, <1>5, <2>1 DEF KeptInv, TypeInv, WorkType
<1>7. TurnInv'
  <2>1. opener.phase = "persist" /\ m \in opener.msgs => answer[m] = {}
    BY <1>1, <1>3 DEF KeptInv, TurnInv, Runs
  <2>2. \A q \in Peers : \A k, S : q # p => (Runs(q, k, S)' <=> Runs(q, k, S))
    BY <1>1, <1>5 DEF Runs, Running
  <2>3. \A k : ~Runs(p, k, {"brain", "journal", "submit"})
    BY <1>1 DEF Runs
  <2>4. QED
    BY <1>1, <1>5, <2>1, <2>2, <2>3 DEF KeptInv, TurnInv, Running, Busy, memory
<1>8. QED
  BY <1>2, <1>6, <1>7 DEF KeptInv, TypeInv

LEMMA JournalPartKeeps ==
  ASSUME ConstantsAssumption, KeptInv, NEW p \in Peers, JournalPart(p)
  PROVE  KeptInv'
<1> DEFINE m == Running(p)
<1>1. /\ turn[p].phase = "brain"
      /\ UNCHANGED <<owed, seen, ackDue, posted, accepted, acked, out, queued, admitting, opener>>
      /\ UNCHANGED <<session, work, turns, disk, risky, unsent, faults>>
  BY DEF JournalPart, memory, network
<1>2. work[p] # <<>>
  BY <1>1 DEF KeptInv, TurnInv
<1>3. m \in Msg /\ m[1] = p /\ m \in queued
  BY <1>2, Finished DEF KeptInv, WorkInv, Running
<1>4. HandlersType' /\ NetworkType' /\ FaultsType' /\ WorkInv' /\ OpenerInv' /\ SeenInv'
  BY <1>1, Frames DEF network
<1>5. /\ turn'[p].phase \in {"journal", "submit"}
      /\ turn' \in [Peers -> TurnType]
      /\ \A q \in Peers \ {p} : turn'[q] = turn[q]
  <2>1. turn \in [Peers -> TurnType]
    BY DEF KeptInv, TypeInv, WorkType
  <2>2. PICK io \in {turn[p].io, "wait"}, ph \in {"journal", "submit"} :
          turn' = [turn EXCEPT ![p] = [phase |-> ph, part |-> turn[p].part, io |-> io]]
    BY <2>1 DEF JournalPart, TurnType
  <2>3. QED
    BY <2>1, <2>2 DEF TurnType
<1>6. WorkType'
  BY <1>1, <1>5 DEF KeptInv, TypeInv, WorkType
<1>7. \A q \in Peers : \A k : Runs(q, k, {"brain", "journal", "submit"}) => Runs(q, k, {"brain", "journal", "submit"})'
  BY <1>1, <1>5 DEF Runs, Running
<1>8. CASE m \notin owed
  <2>1. UNCHANGED <<answer, pending>>
    BY <1>8 DEF JournalPart, memory
  <2>2. JournalType' /\ SavedInv' /\ TakenInv' /\ SessionInv'
    BY <1>1, <2>1, Frames
  <2>3. TurnInv'
    BY <1>1, <1>5, <1>7, <2>1 DEF KeptInv, TurnInv, Running
  <2>4. QED
    BY <1>4, <1>6, <2>2, <2>3 DEF KeptInv, TypeInv
<1>9. CASE m \in owed
  <2> DEFINE a == <<turns[m], turn[p].part>>
  <2>1. answer' = [answer EXCEPT ![m] = @ \cup {a}] /\ Saved
    BY <1>9 DEF JournalPart
  <2>2. a \in Nat \X (1 .. Parts)
    BY <1>3 DEF KeptInv, TypeInv, WorkType, TurnType
  <2> HIDE DEF a
  <2>3. /\ answer' \in [Msg -> EntryParts]
        /\ answer'[m] # {}
        /\ \A k \in Msg : k # m => answer'[k] = answer[k]
    BY <1>3, <2>1, <2>2 DEF KeptInv, TypeInv, JournalType, EntryParts
  <2>4. JournalType'
    BY <1>1, <2>3 DEF KeptInv, TypeInv, JournalType
  <2>5. SavedInv'
    BY <2>1, SaveKeeps
  <2>6. TakenInv'
    <3>1. Taken' = Taken /\ Given' = Given
      BY <1>1 DEF Taken, Given
    <3>2. QED
      BY <1>1, <1>9, <2>3, <3>1 DEF KeptInv, TakenInv, Honest
  <2>7. SessionInv'
    <3>1. \A q \in Peers : m \notin FreshOf(q) /\ FreshOf(q)' = FreshOf(q) /\ FreshOf(q) \subseteq Msg
      BY <1>1, <1>3 DEF KeptInv, SessionInv, FreshOf, TypeInv, JournalType
    <3>2. QED
      BY <1>1, <2>3, <3>1 DEF KeptInv, SessionInv, Taken
  <2>8. TurnInv'
    <3>1. ASSUME NEW q \in Peers, turn'[q].phase = "resend"
          PROVE  Running(q)' \in owed' /\ answer'[Running(q)'] # {}
      <4>1. q # p /\ turn[q].phase = "resend" /\ Running(q)' = Running(q)
        BY <1>1, <1>5, <3>1 DEF Running
      <4>2. Running(q) \in owed /\ answer[Running(q)] # {}
        BY <4>1 DEF KeptInv, TurnInv
      <4>3. Running(q) \in Msg
        BY <4>2 DEF KeptInv, TypeInv, JournalType
      <4>4. QED
        BY <1>1, <2>3, <4>1, <4>2, <4>3
    <3>2. ASSUME NEW q \in Peers, NEW k \in opener.msgs, opener.phase = "persist", answer'[k] # {}, k[1] = q
          PROVE  Runs(q, k, {"brain", "journal", "submit"})
      <4>1. k \in Msg
        BY DEF KeptInv, TypeInv, HandlersType, HandlerType
      <4>2. CASE k = m
        BY <1>1, <1>2, <1>3, <3>2, <4>2 DEF Runs
      <4>3. CASE k # m
        BY <2>3, <3>2, <4>1, <4>3 DEF KeptInv, TurnInv
      <4>4. QED
        BY <4>2, <4>3
    <3>3. \A q \in Peers : turn'[q].phase # "idle" => work'[q] # <<>>
      BY <1>1, <1>2, <1>5 DEF KeptInv, TurnInv
    <3>4. \A q \in Peers : \/ turn'[q].phase # "resend" \/ opener'.phase # "persist"
                           \/ Running(q)' \notin opener'.msgs
      BY <1>1, <1>5 DEF KeptInv, TurnInv, Running
    <3>5. QED
      BY <1>1, <1>7, <3>1, <3>2, <3>3, <3>4 DEF TurnInv
  <2>9. QED
    BY <1>4, <1>6, <2>4, <2>5, <2>6, <2>7, <2>8 DEF KeptInv, TypeInv
<1>10. QED
  BY <1>8, <1>9

LEMMA PartJournaledKeeps ==
  ASSUME ConstantsAssumption, KeptInv, NEW p \in Peers, PartJournaled(p)
  PROVE  KeptInv'
<1>1. /\ turn[p].phase = "journal"
      /\ turn' = [turn EXCEPT ![p] = [@ EXCEPT !.phase = "submit", !.io = "none"]]
      /\ UNCHANGED <<owed, answer, seen, ackDue, posted, accepted, acked, out, queued, admitting, opener>>
      /\ UNCHANGED <<session, work, turns, pending, disk, unsent, faults>>
  BY DEF PartJournaled, memory, network
<1>2. /\ JournalType' /\ HandlersType' /\ FaultsType' /\ SavedInv' /\ WorkInv' /\ TakenInv'
      /\ OpenerInv' /\ SessionInv' /\ SeenInv'
  BY <1>1, Frames
<1>3. Running(p) \in Msg
  BY <1>1, Finished DEF KeptInv, TurnInv, WorkInv, Running
<1>4. NetworkType'
  BY <1>1, <1>3 DEF PartJournaled, KeptInv, TypeInv, NetworkType
<1>5. /\ turn'[p].phase = "submit" /\ turn' \in [Peers -> TurnType]
      /\ \A q \in Peers \ {p} : turn'[q] = turn[q]
  BY <1>1 DEF KeptInv, TypeInv, WorkType, TurnType
<1>6. WorkType'
  BY <1>1, <1>5 DEF KeptInv, TypeInv, WorkType
<1>7. TurnInv'
  <2>1. \A q \in Peers : \A k : Runs(q, k, {"brain", "journal", "submit"}) => Runs(q, k, {"brain", "journal", "submit"})'
    BY <1>1, <1>5 DEF Runs, Running
  <2>2. QED
    BY <1>1, <1>5, <2>1 DEF KeptInv, TurnInv, Running
<1>8. QED
  BY <1>2, <1>4, <1>6, <1>7 DEF KeptInv, TypeInv

LEMMA PartLandsKeeps ==
  ASSUME ConstantsAssumption, KeptInv, NEW p \in Peers, PartLands(p)
  PROVE  KeptInv'
<1> DEFINE part == <<Running(p), turns[Running(p)], turn[p].part>>
<1>1. /\ turn[p].phase = "submit" /\ out' = out \cup {part}
      /\ UNCHANGED <<owed, answer, seen, ackDue, queued, admitting, opener, session, work, turn, turns>>
      /\ UNCHANGED <<pending, disk, posted, accepted, acked, risky, unsent, faults>>
  BY DEF PartLands, memory
<1>2. /\ JournalType' /\ HandlersType' /\ WorkType' /\ FaultsType' /\ SavedInv' /\ WorkInv'
      /\ OpenerInv' /\ SessionInv' /\ SeenInv' /\ TurnInv'
  BY <1>1, Frames
<1>3. Running(p) \in Msg
  BY <1>1, Finished DEF KeptInv, TurnInv, WorkInv, Running
<1>4. part \in Msg \X Nat \X (1 .. Parts)
  BY <1>3 DEF KeptInv, TypeInv, WorkType, TurnType
<1> HIDE DEF part
<1>5. NetworkType'
  BY <1>1, <1>4 DEF KeptInv, TypeInv, NetworkType
<1>6. TakenInv'
  <2>1. Given \subseteq Given' /\ Taken' = Taken
    BY <1>1, GivenGrows DEF Taken
  <2>2. QED
    BY <1>1, <2>1 DEF KeptInv, TakenInv, Honest
<1>7. QED
  BY <1>2, <1>5, <1>6 DEF KeptInv, TypeInv

(* The end of a turn: the entry leaves the journal if its answer was given *)
(* or given up, and the pump may take what else is owed.                   *)
LEMMA TurnEnds ==
  ASSUME ConstantsAssumption, KeptInv, NEW p \in Peers, turn[p].phase # "idle", SettleOwed(p),
         turn' = [turn EXCEPT ![p] = NoTurn],
         out \subseteq out', unsent \subseteq unsent', Running(p) \in Given', NetworkType', FaultsType',
         UNCHANGED <<posted, accepted, acked, admitting, opener, session, turns, disk>>
  PROVE  KeptInv'
<1> DEFINE m == Running(p)
<1>1. Busy(p) /\ (m \in opener.msgs => turn[p].phase # "resend" \/ opener.phase # "persist")
  BY DEF KeptInv, TurnInv, Busy
<1>2. /\ WorkInv' /\ work' \in [Peers -> Seq(Msg)] /\ HeadsKept(Peers \ {p})
      /\ m \in Msg /\ m[1] = p /\ m \notin queued'
      /\ queued' \subseteq queued \cup (owed' \ admitting)
      /\ owed' = owed \ {m} /\ seen' = seen /\ ackDue' = ackDue
      /\ \A k \in Msg : answer'[k] = IF k = m /\ k \in owed THEN {} ELSE answer[k]
      /\ answer' \in [Msg -> EntryParts]
      /\ \/ m \in owed /\ Saved
         \/ m \notin owed /\ UNCHANGED <<memory, pending>>
  BY <1>1, SettleFacts DEF KeptInv
<1>3. m \in queued
  BY <1>1, Finished DEF KeptInv, WorkInv, Busy, Running
<1>4. Given \subseteq Given' /\ m \in Given' /\ Taken' = Taken
  BY GivenGrows DEF Taken
<1>5. JournalType' /\ HandlersType'
  BY <1>2 DEF KeptInv, TypeInv, JournalType, HandlersType
<1>6. /\ turn'[p] = NoTurn /\ turn' \in [Peers -> TurnType]
      /\ \A q \in Peers \ {p} : turn'[q] = turn[q]
  BY DEF KeptInv, TypeInv, WorkType, TurnType, NoTurn, ConstantsAssumption
<1>7. WorkType'
  BY <1>2, <1>5, <1>6 DEF KeptInv, TypeInv, WorkType, JournalType
<1> HIDE DEF m
<1>8. SavedInv'
  <2>1. CASE Saved
    BY <2>1, SaveKeeps
  <2>2. CASE UNCHANGED <<memory, pending>>
    BY <2>2, Frames DEF memory
  <2>3. QED
    BY <1>2, <2>1, <2>2
<1>9. TakenInv'
  <2>1. Honest(owed, answer, seen, ackDue)'
    BY <1>2, <1>4 DEF KeptInv, TakenInv, Honest
  <2>2. Honest(disk.owed, disk.answer, disk.seen, disk.ackDue)'
    BY <1>4 DEF KeptInv, TakenInv, Honest
  <2>3. QED
    BY <1>2, <1>4, <2>1, <2>2 DEF KeptInv, TakenInv
<1>10. OpenerInv'
  BY <1>2, <1>4 DEF KeptInv, OpenerInv
<1>11. \A q \in Peers : FreshOf(q)' = FreshOf(q) /\ FreshOf(q) \subseteq Msg /\ m \notin FreshOf(q)
  BY <1>3 DEF FreshOf, KeptInv, SessionInv, TypeInv, JournalType
<1>12. SessionInv'
  <2>1. ASSUME NEW q \in Peers
        PROVE  /\ FreshOf(q)' \subseteq (owed' \cap admitting') \ (queued' \cup Taken')
               /\ \A k \in FreshOf(q)' : answer'[k] = {} /\ disk'.answer[k] = {}
    BY <1>2, <1>4, <1>11 DEF KeptInv, SessionInv
  <2>2. QED
    BY <1>2, <1>11, <2>1 DEF KeptInv, SessionInv
<1>13. SeenInv'
  <2>1. \A k \in Msg : FreshOf(k[1])' = FreshOf(k[1])
    BY <1>11 DEF Msg
  <2>2. QED
    BY <1>2, <2>1 DEF KeptInv, SeenInv
<1>14. TurnInv'
  <2>1. turn'[p].phase = "idle"
    BY <1>6 DEF NoTurn
  <2>2. ASSUME NEW q \in Peers, q # p, turn[q].phase # "idle"
        PROVE  work'[q] # <<>> /\ Running(q)' = Running(q) /\ Running(q) # m
    <3>1. work[q] # <<>> /\ Running(q)[1] = q
      BY <2>2, Finished DEF KeptInv, TurnInv, WorkInv, Running
    <3>2. QED
      BY <1>2, <2>2, <3>1 DEF HeadsKept, Running
  <2>3. ASSUME NEW q \in Peers, turn'[q].phase = "resend"
        PROVE  Running(q)' \in owed' /\ answer'[Running(q)'] # {}
    <3>1. q # p /\ turn[q].phase = "resend"
      BY <1>6, <2>1, <2>3
    <3>2. Running(q) \in owed /\ answer[Running(q)] # {} /\ Running(q)' = Running(q) /\ Running(q) # m
      BY <2>2, <3>1 DEF KeptInv, TurnInv
    <3>3. Running(q) \in Msg
      BY <3>2 DEF KeptInv, TypeInv, JournalType
    <3>4. QED
      BY <1>2, <3>2, <3>3
  <2>4. ASSUME NEW q \in Peers, NEW k \in opener.msgs,
               opener.phase = "persist", answer'[k] # {}, k[1] = q
        PROVE  Runs(q, k, {"brain", "journal", "submit"})'
    <3>1. k \in Msg
      BY DEF KeptInv, TypeInv, HandlersType, HandlerType
    <3>2. answer[k] # {} /\ Runs(q, k, {"brain", "journal", "submit"})
      BY <1>2, <2>4, <3>1 DEF KeptInv, TurnInv
    <3>3. q # p
      <4>1. SUFFICES ASSUME q = p PROVE FALSE
        OBVIOUS
      <4>2. k = m
        BY <3>2, <4>1 DEF Runs, m
      <4>3. k \in owed
        BY <3>1, <3>2 DEF KeptInv, TakenInv, Honest
      <4>4. QED
        BY <1>2, <2>4, <4>2, <4>3
    <3>4. QED
      BY <1>6, <2>2, <3>2, <3>3 DEF Runs
  <2>5. QED
    BY <1>6, <2>1, <2>2, <2>3, <2>4 DEF KeptInv, TurnInv
<1>15. QED
  BY <1>2, <1>5, <1>7, <1>8, <1>9, <1>10, <1>12, <1>13, <1>14 DEF KeptInv, TypeInv

LEMMA PartSubmittedKeeps ==
  ASSUME ConstantsAssumption, KeptInv, NEW p \in Peers, PartSubmitted(p)
  PROVE  KeptInv'
<1>1. /\ turn[p].phase = "submit" /\ <<Running(p), turns[Running(p)], turn[p].part>> \in out
      /\ UNCHANGED <<posted, accepted, acked, out, admitting, opener, session, turns, disk>>
      /\ UNCHANGED <<risky, unsent, faults>>
  BY DEF PartSubmitted, network
<1>2. NetworkType' /\ FaultsType'
  BY <1>1, Frames DEF network
<1>3. CASE /\ turn' = [turn EXCEPT ![p].phase = "brain", ![p].part = @ + 1]
           /\ turn[p].part < Parts
           /\ UNCHANGED <<memory, pending, queued, work>>
  <2>1. /\ JournalType' /\ HandlersType' /\ SavedInv' /\ WorkInv' /\ TakenInv'
        /\ OpenerInv' /\ SessionInv' /\ SeenInv'
    BY <1>1, <1>3, Frames DEF memory
  <2>2. /\ turn'[p].phase = "brain" /\ turn' \in [Peers -> TurnType]
        /\ \A q \in Peers \ {p} : turn'[q] = turn[q]
    <3>1. turn \in [Peers -> TurnType] /\ turn[p].part + 1 \in 1 .. Parts
      BY <1>3 DEF KeptInv, TypeInv, WorkType, TurnType, ConstantsAssumption
    <3>2. turn[p] \in TurnType
      BY <3>1
    <3>3. /\ turn'[p].phase = "brain" /\ turn'[p].part = turn[p].part + 1 /\ turn'[p].io = turn[p].io
          /\ turn'[p] = [phase |-> turn'[p].phase, part |-> turn'[p].part, io |-> turn'[p].io]
      BY <1>3, <3>1, <3>2 DEF TurnType
    <3>4. turn'[p] \in TurnType
      BY <3>1, <3>2, <3>3 DEF TurnType
    <3>5. QED
      BY <1>3, <3>1, <3>3, <3>4
  <2>3. WorkType'
    BY <1>1, <1>3, <2>2 DEF KeptInv, TypeInv, WorkType
  <2>4. \A q \in Peers : \A k : Runs(q, k, {"brain", "journal", "submit"}) => Runs(q, k, {"brain", "journal", "submit"})'
    BY <1>1, <1>3, <2>2 DEF Runs, Running
  <2>5. TurnInv'
    BY <1>1, <1>3, <2>2, <2>4 DEF KeptInv, TurnInv, Running, memory
  <2>6. QED
    BY <1>2, <2>1, <2>3, <2>5 DEF KeptInv, TypeInv
<1>4. CASE turn' = [turn EXCEPT ![p] = NoTurn] /\ SettleOwed(p)
  <2>1. Running(p) \in Given'
    BY <1>1 DEF Given
  <2>2. QED
    BY <1>1, <1>2, <1>4, <2>1, TurnEnds
<1>5. QED
  BY <1>3, <1>4 DEF PartSubmitted

LEMMA PartFailsKeeps ==
  ASSUME ConstantsAssumption, KeptInv, NEW p \in Peers, PartFails(p)
  PROVE  KeptInv'
<1>1. /\ turn[p].phase = "submit" /\ SettleOwed(p)
      /\ faults.fails < MaxFails /\ faults' = [faults EXCEPT !.fails = @ + 1]
      /\ turn' = [turn EXCEPT ![p] = NoTurn]
      /\ unsent' = unsent \cup {Running(p)}
      /\ UNCHANGED <<posted, accepted, acked, out, admitting, opener, session, turns, disk, risky>>
  BY DEF PartFails, network
<1>2. Running(p) \in Given' /\ Running(p) \in Msg
  BY <1>1, Finished DEF KeptInv, TurnInv, WorkInv, Running, Given
<1>3. NetworkType' /\ FaultsType'
  BY <1>1, <1>2 DEF KeptInv, TypeInv, NetworkType, FaultsType, ConstantsAssumption
<1>4. QED
  BY <1>1, <1>2, <1>3, TurnEnds

LEMMA ResentKeeps ==
  ASSUME ConstantsAssumption, KeptInv, NEW p \in Peers, Resent(p)
  PROVE  KeptInv'
<1> DEFINE m == Running(p)
           again == {<<m, a[1], a[2]>> : a \in answer[m]}
<1>1. /\ turn[p].phase = "resend" /\ SettleOwed(p)
      /\ out' = out \cup again
      /\ turn' = [turn EXCEPT ![p] = NoTurn]
      /\ UNCHANGED <<posted, accepted, acked, admitting, opener, session, turns, disk>>
      /\ UNCHANGED <<risky, unsent, faults>>
  BY DEF Resent
<1>2. m \in Msg /\ answer[m] # {} /\ answer[m] \in EntryParts
  BY <1>1, Finished DEF KeptInv, TypeInv, JournalType, TurnInv, WorkInv, Running
<1>3. again \subseteq Msg \X Nat \X (1 .. Parts)
  BY <1>2 DEF EntryParts
<1>4. m \in Given'
  <2>1. PICK a \in answer[m] : TRUE
    BY <1>2
  <2>2. <<m, a[1], a[2]>> \in out'
    BY <1>1, <2>1
  <2>3. QED
    BY <2>2 DEF Given
<1> HIDE DEF again
<1>5. NetworkType' /\ FaultsType'
  BY <1>1, <1>3, Frames DEF KeptInv, TypeInv, NetworkType
<1>6. QED
  BY <1>1, <1>4, <1>5, TurnEnds

LEMMA ResendFailsKeeps ==
  ASSUME ConstantsAssumption, KeptInv, NEW p \in Peers, ResendFails(p)
  PROVE  KeptInv'
<1> DEFINE m == Running(p)
<1>1. /\ turn[p].phase = "resend"
      /\ faults.fails < MaxFails /\ faults' = [faults EXCEPT !.fails = @ + 1]
      /\ turn' = [turn EXCEPT ![p] = NoTurn]
      /\ queued' = queued \ {m} /\ work' = [work EXCEPT ![p] = Tail(@)]
      /\ unsent' = unsent \cup {m}
      /\ UNCHANGED <<owed, answer, seen, ackDue, posted, accepted, acked, out, admitting, opener>>
      /\ UNCHANGED <<session, turns, pending, disk, risky>>
  BY DEF ResendFails, memory, network
<1>2. work \in [Peers -> Seq(Msg)] /\ work[p] # <<>>
  BY <1>1 DEF KeptInv, TypeInv, WorkType, TurnInv
<1>3. m \in Msg /\ m[1] = p /\ m \in queued /\ WorkOf(p, Tail(work[p]), queued \ {m})
  BY <1>2, Finished DEF KeptInv, WorkInv, Running
<1>4. JournalType' /\ HandlersType' /\ SavedInv' /\ OpenerInv'
  BY <1>1, Frames
<1>5. NetworkType' /\ FaultsType'
  BY <1>1, <1>3 DEF KeptInv, TypeInv, NetworkType, FaultsType, ConstantsAssumption
<1>6. WorkInv' /\ work' \in [Peers -> Seq(Msg)]
  <2>1. \A q \in Peers : WorkOf(q, work'[q], queued')
    <3> TAKE q \in Peers
    <3>1. CASE q = p
      BY <1>1, <1>2, <1>3, <3>1
    <3>2. CASE q # p
      <4>1. work'[q] = work[q] /\ WorkOf(q, work[q], queued)
        BY <1>1, <1>2, <3>2 DEF KeptInv, WorkInv
      <4>2. \A k \in queued \ queued' : k[1] = p
        BY <1>1, <1>3
      <4>3. QED
        BY <3>2, <4>1, <4>2, OthersKeep
    <3>3. QED
      BY <3>1, <3>2
  <2>2. work' \in [Peers -> Seq(Msg)]
    BY <1>1, <1>2, <2>1 DEF WorkOf
  <2>3. QED
    BY <2>1, <2>2 DEF WorkInv
<1>7. /\ turn'[p].phase = "idle" /\ turn' \in [Peers -> TurnType]
      /\ \A q \in Peers \ {p} : turn'[q] = turn[q] /\ work'[q] = work[q]
  BY <1>1, <1>2 DEF KeptInv, TypeInv, WorkType, TurnType, NoTurn, ConstantsAssumption
<1>8. WorkType'
  BY <1>1, <1>6, <1>7 DEF KeptInv, TypeInv, WorkType
<1>9. TakenInv'
  <2>1. Given \subseteq Given' /\ Taken' = Taken
    BY <1>1, GivenGrows DEF Taken
  <2>2. QED
    BY <1>1, <2>1 DEF KeptInv, TakenInv, Honest
<1>10. SessionInv'
  <2>1. \A q \in Peers : FreshOf(q)' = FreshOf(q)
    BY <1>1 DEF FreshOf
  <2>2. QED
    BY <1>1, <2>1 DEF KeptInv, SessionInv, Taken
<1>11. SeenInv'
  BY <1>1 DEF KeptInv, SeenInv, FreshOf
<1>12. TurnInv'
  <2>1. \A q \in Peers \ {p} : Running(q)' = Running(q) /\ \A k, S : Runs(q, k, S) => Runs(q, k, S)'
    BY <1>7 DEF Running, Runs
  <2>2. \A k : ~Runs(p, k, {"brain", "journal", "submit"})
    BY <1>1 DEF Runs
  <2>3. QED
    BY <1>1, <1>7, <2>1, <2>2 DEF KeptInv, TurnInv
<1>13. QED
  BY <1>4, <1>5, <1>6, <1>8, <1>9, <1>10, <1>11, <1>12 DEF KeptInv, TypeInv

-----------------------------------------------------------------------------
LEMMA PeerPostsKeeps ==
  ASSUME ConstantsAssumption, KeptInv, NEW m \in Msg, PeerPosts(m)
  PROVE  KeptInv'
<1>1. /\ posted' = posted \cup {m}
      /\ UNCHANGED <<owed, answer, seen, ackDue, queued, admitting, opener, session, work, turn, turns>>
      /\ UNCHANGED <<pending, disk, accepted, acked, out, risky, unsent, faults>>
  BY DEF PeerPosts, memory
<1>2. /\ JournalType' /\ HandlersType' /\ WorkType' /\ FaultsType' /\ SavedInv' /\ WorkInv'
      /\ TakenInv' /\ OpenerInv' /\ SessionInv' /\ SeenInv' /\ TurnInv'
  BY <1>1, Frames
<1>3. NetworkType'
  BY <1>1 DEF KeptInv, TypeInv, NetworkType
<1>4. QED
  BY <1>2, <1>3 DEF KeptInv, TypeInv

LEMMA CrashKeeps ==
  ASSUME ConstantsAssumption, KeptInv, Crash
  PROVE  KeptInv'
<1>1. /\ faults.crashes < MaxCrashes /\ faults' = [faults EXCEPT !.crashes = @ + 1]
      /\ owed' = disk.owed /\ answer' = disk.answer /\ seen' = disk.seen /\ ackDue' = disk.ackDue
      /\ admitting' = {} /\ opener' = Handler /\ session' = [p \in Peers |-> Handler]
      /\ queued' = UNION {Restarted(p) : p \in Peers}
      /\ work' = [p \in Peers |-> InOrder(Restarted(p))]
      /\ turn' = [p \in Peers |-> NoTurn]
      /\ pending' = None
      /\ UNCHANGED <<posted, accepted, acked, out, turns, disk, risky, unsent>>
  BY DEF Crash, network
<1>2. disk \in SnapshotType
  BY DEF KeptInv, TypeInv, JournalType
<1>3. \A p \in Peers : Restarted(p) \in SUBSET Of(p) /\ Restarted(p) \subseteq disk.owed
  BY <1>2 DEF Restarted, Of, SnapshotType
<1>4. NetworkType' /\ FaultsType'
  BY <1>1 DEF KeptInv, TypeInv, NetworkType, FaultsType, ConstantsAssumption
<1>5. JournalType'
  BY <1>1, <1>2 DEF JournalType, SnapshotType
<1>6. HandlersType'
  BY <1>1 DEF HandlersType, HandlerType, Handler
<1>7. WorkInv'
  <2> SUFFICES ASSUME NEW p \in Peers PROVE WorkOf(p, work'[p], queued')
    BY DEF WorkInv
  <2>1. WorkOf(p, InOrder(Restarted(p)), Restarted(p))
    BY <1>3, InOrderWork
  <2>2. Restarted(p) \subseteq queued' /\ work'[p] = InOrder(Restarted(p))
    BY <1>1
  <2>3. QED
    BY <2>1, <2>2 DEF WorkOf
<1>8. WorkType'
  <2>1. work' \in [Peers -> Seq(Msg)]
    BY <1>1, <1>7 DEF WorkInv, WorkOf
  <2>2. queued' \subseteq Msg
    BY <1>1, <1>3 DEF Of
  <2>3. turn' \in [Peers -> TurnType]
    BY <1>1 DEF TurnType, NoTurn, ConstantsAssumption
  <2>4. QED
    BY <1>1, <2>1, <2>2, <2>3 DEF KeptInv, TypeInv, WorkType
<1>9. SavedInv'
  BY <1>1, <1>2 DEF SavedInv, Snapshot, SnapshotType
<1>10. TakenInv'
  BY <1>1 DEF KeptInv, TakenInv, Honest, Taken, Given
<1>11. OpenerInv'
  BY <1>1 DEF KeptInv, OpenerInv, Handler
<1>12. SessionInv'
  BY <1>1 DEF SessionInv, FreshOf, Handler
<1>13. SeenInv'
  <2>1. queued' \subseteq owed'
    BY <1>1, <1>3
  <2>2. \A m \in Msg : m \notin disk.seen => disk.answer[m] = {}
    BY DEF KeptInv, TakenInv, Honest
  <2>3. QED
    BY <1>1, <2>1, <2>2 DEF SeenInv
<1>14. TurnInv'
  BY <1>1 DEF TurnInv, NoTurn, Handler
<1>15. QED
  BY <1>4, <1>5, <1>6, <1>7, <1>8, <1>9, <1>10, <1>11, <1>12, <1>13, <1>14 DEF KeptInv, TypeInv

LEMMA InitKept ==
  ASSUME ConstantsAssumption, Init
  PROVE  KeptInv
<1>1. TypeInv
  <2>1. 1 \in 1 .. Parts /\ {} \in EntryParts
    BY DEF ConstantsAssumption, EntryParts
  <2>2. JournalType /\ HandlersType /\ NetworkType /\ FaultsType
    BY <2>1 DEF Init, JournalType, Snapshot, SnapshotType, HandlersType, HandlerType, Handler,
                NetworkType, FaultsType, ConstantsAssumption
  <2>3. WorkType
    BY <2>1 DEF Init, WorkType, TurnType, NoTurn
  <2>4. QED
    BY <2>2, <2>3 DEF TypeInv
<1>2. SavedInv
  BY DEF Init, SavedInv, None
<1>3. WorkInv
  BY DEF Init, WorkInv, WorkOf
<1>4. TakenInv /\ OpenerInv
  BY DEF Init, TakenInv, Honest, Taken, Given, OpenerInv, Snapshot, Handler
<1>5. SessionInv /\ SeenInv /\ TurnInv
  BY DEF Init, SessionInv, FreshOf, SeenInv, TurnInv, Snapshot, Handler, NoTurn
<1>6. QED
  BY <1>1, <1>2, <1>3, <1>4, <1>5 DEF KeptInv

LEMMA StutterKeeps ==
  ASSUME KeptInv, UNCHANGED vars
  PROVE  KeptInv'
BY Frames DEF vars, memory, network, KeptInv, TypeInv

LEMMA NextKeeps ==
  ASSUME ConstantsAssumption, KeptInv, [Next]_vars
  PROVE  KeptInv'
<1>1. CASE Write \/ DrainEnds \/ DrainFails \/ OpenerPersisted \/ OpenerDeferred \/ Crash
  BY <1>1, WriteKeeps, DrainEndsKeeps, DrainFailsKeeps, OpenerPersistedKeeps, OpenerDeferredKeeps, CrashKeeps
<1>2. CASE \E p \in Peers : PeerStep(p)
  <2>1. PICK p \in Peers : PeerStep(p)
    BY <1>2
  <2>2. CASE OpenerArrives(p) \/ OpenerAccepted(p) \/ OpenerAcceptFails(p)
    BY <2>2, OpenerArrivesKeeps, OpenerAcceptedKeeps, OpenerAcceptFailsKeeps
  <2>3. CASE SessionArrives(p) \/ SessionPersisted(p) \/ SessionAcks(p)
    BY <2>3, SessionArrivesKeeps, SessionPersistedKeeps, SessionAcksKeeps
  <2>4. CASE WorkStarts(p) \/ JournalPart(p) \/ PartJournaled(p) \/ PartLands(p)
    BY <2>4, WorkStartsKeeps, JournalPartKeeps, PartJournaledKeeps, PartLandsKeeps
  <2>5. CASE PartSubmitted(p) \/ PartFails(p) \/ Resent(p) \/ ResendFails(p)
    BY <2>5, PartSubmittedKeeps, PartFailsKeeps, ResentKeeps, ResendFailsKeeps
  <2>6. QED
    BY <2>1, <2>2, <2>3, <2>4, <2>5 DEF PeerStep
<1>3. CASE \E m \in Msg : PeerPosts(m)
  BY <1>3, PeerPostsKeeps
<1>4. CASE UNCHANGED vars
  BY <1>4, StutterKeeps
<1>5. QED
  BY <1>1, <1>2, <1>3, <1>4 DEF Next

(***************************************************************************)
(* Nothing is acknowledged and then dropped: whatever the peers post and   *)
(* whenever the process crashes, the state file knows what was taken, and  *)
(* owes it unless its answer was given (index.mjs 1700-1760).              *)
(***************************************************************************)
THEOREM NothingTakenIsEverLost == Spec => []NothingTakenIsLost
<1>1. Init => KeptInv
  BY InitKept, ConstantsAssumption
<1>2. KeptInv /\ [Next]_vars => KeptInv'
  BY NextKeeps, ConstantsAssumption
<1>3. KeptInv => NothingTakenIsLost
  BY DEF KeptInv, TakenInv, Honest, NothingTakenIsLost
<1>4. QED
  BY <1>1, <1>2, <1>3, PTL DEF Spec

-----------------------------------------------------------------------------
(* What an action does not touch of m keeps its answer in one piece.       *)
LEMMA OnceQuiet ==
  ASSUME NEW m \in Msg, OnceOf(m),
         answer'[m] = answer[m], disk'.answer[m] = disk.answer[m],
         OutTurns(m)' = OutTurns(m), PhaseOf(m)' = PhaseOf(m),
         m \in owed' <=> m \in owed, m \in seen <=> m \in seen',
         m \in disk'.owed <=> m \in disk.owed, m \in disk.seen <=> m \in disk'.seen,
         PhaseOf(m) # "idle" => /\ turn'[m[1]].part = turn[m[1]].part /\ turns'[m] = turns[m]
                                /\ turn'[m[1]].io = "ok" => turn[m[1]].io = "ok"
  PROVE  OnceOf(m)'
<1>1. TurnsOf(m)' = TurnsOf(m)
  BY DEF TurnsOf
<1>2. Repeats(m)' <=> Repeats(m)
  BY DEF Repeats
<1>3. QED
  BY <1>1, <1>2 DEF OnceOf, Repeats

(* Enqueueing does not change what runs.                                   *)
LEMMA PhaseKept ==
  ASSUME KeptInv, NEW P \in SUBSET Peers, HeadsKept(P), \A q \in P : turn'[q] = turn[q],
         NEW m \in Msg, m[1] \in P
  PROVE  PhaseOf(m)' = PhaseOf(m)
<1>1. work[m[1]] = <<>> => turn[m[1]].phase = "idle"
  BY DEF KeptInv, TurnInv
<1>2. QED
  BY <1>1 DEF PhaseOf, HeadsKept, Running

(* A message whose turn is not idle is owed.                               *)
LEMMA RunningIsOwed ==
  ASSUME KeptInv, NEW p \in Peers, turn[p].phase # "idle"
  PROVE  /\ Running(p) \in Msg /\ Running(p)[1] = p /\ PhaseOf(Running(p)) = turn[p].phase
         /\ ~IsOpener(Running(p)) => Running(p) \in owed /\ Running(p) \in seen
<1>1. work[p] # <<>>
  BY DEF KeptInv, TurnInv
<1>2. Running(p) \in Msg /\ Running(p)[1] = p /\ Running(p) \in queued
  BY <1>1, Finished DEF KeptInv, WorkInv, Running
<1>3. QED
  BY <1>1, <1>2 DEF PhaseOf, KeptInv, SeenInv, TakenInv, Honest

(* The openers' handler and the peers leave the session messages alone.    *)
LEMMA OnceFrame ==
  ASSUME KeptInv, OnceInv, HeadsKept(Peers), UNCHANGED <<turn, turns, out, risky, disk>>,
         \A m \in Msg : ~IsOpener(m) =>
           /\ answer'[m] = answer[m]
           /\ m \in owed' <=> m \in owed
           /\ m \in seen' <=> m \in seen
  PROVE  OnceInv'
<1> SUFFICES ASSUME NEW m \in Msg \ risky, ~IsOpener(m) PROVE OnceOf(m)'
  BY DEF OnceInv
<1>1. m[1] \in Peers
  BY DEF Msg
<1>2. PhaseOf(m)' = PhaseOf(m)
  BY <1>1, PhaseKept
<1>3. OutTurns(m)' = OutTurns(m)
  BY DEF OutTurns
<1>4. OnceOf(m)
  BY DEF OnceInv
<1>5. QED
  BY <1>2, <1>3, <1>4, OnceQuiet

LEMMA OpenerOnce ==
  ASSUME ConstantsAssumption, KeptInv, OnceInv,
         \/ OpenerPersisted \/ OpenerDeferred
         \/ \E p \in Peers : OpenerArrives(p) \/ OpenerAccepted(p) \/ OpenerAcceptFails(p) \/ SessionAcks(p)
         \/ \E m \in Msg : PeerPosts(m)
  PROVE  OnceInv'
<1>1. CASE OpenerPersisted
  <2>1. /\ UNCHANGED <<turn, turns, out, risky, disk, work>>
        /\ \/ UNCHANGED <<owed, seen, answer>>
           \/ /\ seen' = seen \ opener.msgs /\ owed' = owed \ opener.msgs
              /\ answer' = [m \in Msg |-> IF m \in opener.msgs THEN {} ELSE answer[m]]
    BY <1>1 DEF OpenerPersisted, memory, network
  <2>2. \A m \in opener.msgs : IsOpener(m)
    BY DEF KeptInv, OpenerInv
  <2>3. QED
    BY <2>1, <2>2, OnceFrame DEF HeadsKept
<1>2. CASE OpenerDeferred \/ (\E p \in Peers : SessionAcks(p)) \/ (\E m \in Msg : PeerPosts(m))
  <2>1. UNCHANGED <<turn, turns, out, risky, disk, work, owed, answer, seen>>
    BY <1>2 DEF OpenerDeferred, SessionAcks, PeerPosts, memory, network
  <2>2. QED
    BY <2>1, OnceFrame DEF HeadsKept
<1>3. ASSUME NEW p \in Peers, OpenerArrives(p) \/ OpenerAcceptFails(p)
      PROVE  OnceInv'
  <2>1. /\ UNCHANGED <<turn, turns, out, risky, disk, work, answer>>
        /\ \/ UNCHANGED <<owed, seen>>
           \/ seen' = seen \cup {OpenerOf(p)} /\ owed' = owed \cup {OpenerOf(p)}
    BY <1>3 DEF OpenerArrives, OpenerAcceptFails, memory, network
  <2>2. IsOpener(OpenerOf(p))
    BY DEF IsOpener, OpenerOf
  <2>3. QED
    BY <2>1, <2>2, OnceFrame DEF HeadsKept
<1>4. ASSUME NEW p \in Peers, OpenerAccepted(p)
      PROVE  OnceInv'
  <2> DEFINE m == OpenerOf(p)
  <2>1. /\ UNCHANGED <<turn, turns, out, risky, disk, answer, owed, seen>>
        /\ (m \notin queued /\ EnqueueOwed(p, {m})) \/ UNCHANGED work
    BY <1>4 DEF OpenerAccepted
  <2>2. {m} \in SUBSET Of(p)
    BY DEF Of, OpenerOf, Msg, ConstantsAssumption
  <2>3. HeadsKept(Peers)
    <3>1. CASE m \notin queued /\ EnqueueOwed(p, {m})
      BY <2>2, <3>1, Enqueued DEF KeptInv
    <3>2. CASE UNCHANGED work
      BY <3>2 DEF HeadsKept
    <3>3. QED
      BY <2>1, <3>1, <3>2
  <2>4. QED
    BY <2>1, <2>3, OnceFrame
<1>5. QED
  BY <1>1, <1>2, <1>3, <1>4

LEMMA SessionOnce ==
  ASSUME ConstantsAssumption, KeptInv, OnceInv, NEW p \in Peers, SessionArrives(p) \/ SessionPersisted(p)
  PROVE  OnceInv'
<1>1. CASE SessionArrives(p)
  <2> SUFFICES ASSUME NEW m \in Msg \ risky', ~IsOpener(m) PROVE OnceOf(m)'
    BY DEF OnceInv
  <2>1. /\ UNCHANGED <<turn, turns, out, risky, disk, work, answer>>
        /\ owed' = owed \cup (Batch(p) \ seen) /\ seen' = seen \cup (Batch(p) \ seen)
    BY <1>1 DEF SessionArrives, memory, network
  <2>2. OnceOf(m)
    BY <2>1 DEF OnceInv
  <2>3. OutTurns(m)' = OutTurns(m) /\ PhaseOf(m)' = PhaseOf(m)
    BY <2>1 DEF OutTurns, PhaseOf, Running
  <2>4. CASE m \notin Batch(p) \ seen
    BY <2>1, <2>2, <2>3, <2>4, OnceQuiet
  <2>5. CASE m \in Batch(p) \ seen
    <3>1. m \notin owed /\ answer[m] = {} /\ disk.answer[m] = {} /\ OutTurns(m) = {}
      BY <2>2, <2>5 DEF KeptInv, SeenInv, TakenInv, Honest, OnceOf
    <3>2. TurnsOf(m)' = TurnsOf(m) /\ (Repeats(m)' <=> Repeats(m))
      BY <2>1, <2>3 DEF TurnsOf, Repeats
    <3>3. QED
      BY <2>1, <2>2, <2>3, <3>1, <3>2 DEF OnceOf
  <2>6. QED
    BY <2>4, <2>5
<1>2. CASE SessionPersisted(p)
  <2> DEFINE h == session[p]
  <2>1. /\ h.phase = "persist"
        /\ UNCHANGED <<turn, turns, out, risky, disk>>
        /\ \/ EnqueueOwed(p, h.fresh) /\ UNCHANGED <<owed, answer, seen>>
           \/ /\ seen' = seen \ h.fresh /\ owed' = owed \ h.fresh
              /\ answer' = [m \in Msg |-> IF m \in h.fresh THEN {} ELSE answer[m]]
              /\ UNCHANGED work
    BY <1>2 DEF SessionPersisted, network
  <2>2. /\ \A m \in h.fresh : m[1] = p /\ ~IsOpener(m) /\ m \in owed /\ m \notin queued
        /\ \A m \in h.fresh : answer[m] = {} /\ disk.answer[m] = {}
        /\ h.fresh \in SUBSET Of(p)
    BY <2>1 DEF KeptInv, SessionInv, FreshOf, TypeInv, HandlersType, HandlerType, Of
  <2>3. CASE EnqueueOwed(p, h.fresh) /\ UNCHANGED <<owed, answer, seen>>
    <3>1. h.fresh \cap queued = {}
      BY <2>2
    <3>2. HeadsKept(Peers)
      BY <2>2, <2>3, <3>1, Enqueued DEF KeptInv
    <3>3. QED
      BY <2>1, <2>3, <3>2, OnceFrame
  <2>4. CASE /\ seen' = seen \ h.fresh /\ owed' = owed \ h.fresh
             /\ answer' = [m \in Msg |-> IF m \in h.fresh THEN {} ELSE answer[m]]
             /\ UNCHANGED work
    <3> SUFFICES ASSUME NEW m \in Msg \ risky', ~IsOpener(m) PROVE OnceOf(m)'
      BY DEF OnceInv
    <3>1. OnceOf(m)
      BY <2>1 DEF OnceInv
    <3>2. OutTurns(m)' = OutTurns(m) /\ PhaseOf(m)' = PhaseOf(m) /\ answer'[m] = answer[m]
      BY <2>1, <2>2, <2>4 DEF OutTurns, PhaseOf, Running
    <3>3. CASE m \notin h.fresh
      BY <2>1, <2>4, <3>1, <3>2, <3>3, OnceQuiet
    <3>4. CASE m \in h.fresh
      <4>1. OutTurns(m) = {}
        BY <2>2, <3>1, <3>4 DEF OnceOf
      <4>2. TurnsOf(m)' = TurnsOf(m) /\ (Repeats(m)' <=> Repeats(m))
        BY <2>1, <3>2 DEF TurnsOf, Repeats
      <4>3. QED
        BY <2>1, <2>2, <2>4, <3>1, <3>2, <3>4, <4>1, <4>2 DEF OnceOf
    <3>5. QED
      BY <3>3, <3>4
  <2>5. QED
    BY <2>1, <2>3, <2>4
<1>3. QED
  BY <1>1, <1>2

LEMMA StoreOnce ==
  ASSUME ConstantsAssumption, KeptInv, OnceInv, Write \/ DrainEnds \/ DrainFails
  PROVE  OnceInv'
<1> SUFFICES ASSUME NEW m \in Msg \ risky', ~IsOpener(m) PROVE OnceOf(m)'
  BY DEF OnceInv
<1>1. UNCHANGED <<owed, answer, seen, work, turns, out, risky>>
  BY DEF Write, DrainEnds, DrainFails, memory, network
<1>2. m[1] \in Peers
  BY DEF Msg
<1>3. OnceOf(m) /\ OutTurns(m)' = OutTurns(m)
  BY <1>1 DEF OnceInv, OutTurns
<1>4. CASE Write
  <2>1. /\ disk'.owed = owed /\ disk'.answer = answer /\ disk'.seen = seen /\ turn' = turn
    BY <1>4 DEF Write, KeptInv, SavedInv, Snapshot
  <2>2. PhaseOf(m)' = PhaseOf(m) /\ (Repeats(m)' <=> Repeats(m))
    BY <1>1, <2>1 DEF PhaseOf, Running, Repeats
  <2>3. TurnsOf(m)' \subseteq TurnsOf(m)
    BY <1>1, <1>3, <2>1 DEF TurnsOf
  <2>4. QED
    BY <1>1, <1>3, <2>1, <2>2, <2>3 DEF OnceOf
<1>5. CASE DrainEnds \/ DrainFails
  <2>1. PICK result \in {"ok", "failed"} :
          /\ Answered(result) /\ UNCHANGED <<admitting, queued, disk>>
          /\ result = "ok" => disk = Snapshot
    BY <1>5 DEF DrainEnds, DrainFails, KeptInv, SavedInv
  <2>2. \A q \in Peers : /\ turn'[q].phase = turn[q].phase /\ turn'[q].part = turn[q].part
                         /\ turn'[q].io = turn[q].io \/ turn'[q].io = result
    BY <1>1, <2>1, AnsweredFacts
  <2>3. PhaseOf(m)' = PhaseOf(m) /\ (Repeats(m)' <=> Repeats(m)) /\ TurnsOf(m)' = TurnsOf(m)
    BY <1>1, <1>2, <1>3, <2>1, <2>2 DEF PhaseOf, Running, Repeats, TurnsOf
  <2>4. CASE result = "failed"
    <3>1. turn'[m[1]].io = "ok" => turn[m[1]].io = "ok"
      BY <1>2, <2>2, <2>4
    <3>2. QED
      BY <1>1, <1>2, <1>3, <2>1, <2>2, <2>3, <3>1, OnceQuiet
  <2>5. CASE result = "ok"
    <3>1. disk'.answer = answer /\ disk'.owed = owed /\ disk'.seen = seen /\ disk' = disk
      BY <2>1, <2>5 DEF Snapshot
    <3>2. PhaseOf(m) = "journal" => answer[m] # {}
      BY <1>3 DEF OnceOf
    <3>3. QED
      BY <1>1, <1>2, <1>3, <2>2, <2>3, <3>1, <3>2 DEF OnceOf
  <2>6. QED
    BY <2>1, <2>4, <2>5
<1>6. QED
  BY <1>4, <1>5

(* A step of one peer's turn leaves the messages of the others alone.      *)
LEMMA OthersOnce ==
  ASSUME KeptInv, OnceInv, NEW p \in Peers, HeadsKept(Peers \ {p}),
         \A q \in Peers \ {p} : turn'[q] = turn[q],
         NEW m \in Msg \ risky, ~IsOpener(m), m[1] # p \/ m # Running(p) \/ turn[p].phase = "idle",
         m[1] = p => PhaseOf(m)' = "idle",
         answer'[m] = answer[m], OutTurns(m)' = OutTurns(m), turns'[m] = turns[m],
         m \in owed' <=> m \in owed, UNCHANGED <<seen, disk>>
  PROVE  OnceOf(m)'
<1>1. m[1] \in Peers
  BY DEF Msg
<1>2. PhaseOf(m)' = PhaseOf(m)
  <2>1. CASE m[1] = p
    BY <2>1 DEF PhaseOf
  <2>2. CASE m[1] # p
    BY <1>1, <2>2, PhaseKept
  <2>3. QED
    BY <2>1, <2>2
<1>3. PhaseOf(m) # "idle" => m[1] # p
  BY DEF PhaseOf
<1>4. QED
  BY <1>1, <1>2, <1>3, OnceQuiet DEF OnceInv

LEMMA WorkStartsOnce ==
  ASSUME ConstantsAssumption, KeptInv, OnceInv, NEW p \in Peers, WorkStarts(p)
  PROVE  OnceInv'
<1> SUFFICES ASSUME NEW k \in Msg \ risky', ~IsOpener(k) PROVE OnceOf(k)'
  BY DEF OnceInv
<1> DEFINE m == Running(p)
<1>1. /\ Busy(p) /\ turn[p].phase = "idle"
      /\ UNCHANGED <<owed, answer, seen, out, work, disk, risky>>
  BY DEF WorkStarts, memory, network
<1>2. m \in Msg /\ m[1] = p /\ k[1] \in Peers
  BY <1>1, Finished DEF KeptInv, WorkInv, Busy, Running, Msg
<1>3. /\ turn'[p].phase \in {"resend", "brain"} /\ turn'[p].part = 1
      /\ turn'[p].phase = "brain" => m \notin owed \/ answer[m] = {}
      /\ \A q \in Peers \ {p} : turn'[q] = turn[q]
      /\ \A q \in Msg \ {m} : turns'[q] = turns[q]
  BY DEF WorkStarts, NoTurn, KeptInv, TypeInv, WorkType
<1>4. OnceOf(k) /\ OutTurns(k)' = OutTurns(k) /\ TurnsOf(k)' = TurnsOf(k)
  BY <1>1 DEF OnceInv, OutTurns, TurnsOf
<1>5. CASE k # m
  <2>1. PhaseOf(k)' = PhaseOf(k)
    BY <1>1, <1>2, <1>3, <1>5 DEF PhaseOf, Running
  <2>2. PhaseOf(k) # "idle" => k[1] # p
    BY <1>1 DEF PhaseOf
  <2>3. QED
    BY <1>1, <1>2, <1>3, <1>4, <1>5, <2>1, <2>2, OnceQuiet
<1>6. CASE k = m
  <2>1. PhaseOf(k) = "idle" /\ PhaseOf(k)' \in {"resend", "brain"}
        /\ PhaseOf(k)' = turn'[p].phase
    BY <1>1, <1>2, <1>3, <1>6 DEF PhaseOf, Running, Busy
  <2>2. ~Repeats(k)'
    BY <1>2, <1>3, <1>6 DEF Repeats
  <2>3. k \notin owed => answer[k] = {}
    BY DEF KeptInv, TakenInv, Honest
  <2>4. ~(answer[k] # {} /\ disk.answer[k] = {})
    BY <1>4, <2>1 DEF OnceOf
  <2>5. QED
    BY <1>1, <1>2, <1>3, <1>4, <1>6, <2>1, <2>2, <2>3, <2>4 DEF OnceOf
<1>7. QED
  BY <1>5, <1>6

LEMMA JournalPartOnce ==
  ASSUME ConstantsAssumption, KeptInv, OnceInv, NEW p \in Peers, JournalPart(p)
  PROVE  OnceInv'
<1> SUFFICES ASSUME NEW k \in Msg \ risky', ~IsOpener(k) PROVE OnceOf(k)'
  BY DEF OnceInv
<1> DEFINE m == Running(p)
<1>1. /\ turn[p].phase = "brain"
      /\ UNCHANGED <<owed, seen, out, work, turns, disk, risky>>
  BY DEF JournalPart, memory, network
<1>2. /\ m \in Msg /\ m[1] = p /\ k[1] \in Peers /\ PhaseOf(m) = "brain"
      /\ ~IsOpener(m) => m \in owed
  BY <1>1, RunningIsOwed DEF Msg
<1>3. /\ \A q \in Peers \ {p} : turn'[q] = turn[q]
      /\ m \in owed => /\ turn'[p].phase = "journal" /\ turn'[p].io = "wait"
                       /\ answer' = [answer EXCEPT ![m] = @ \cup {<<turns[m], turn[p].part>>}]
      /\ m \notin owed => answer' = answer
  <2>1. turn \in [Peers -> TurnType]
    BY DEF KeptInv, TypeInv, WorkType
  <2>2. /\ \A q \in Peers \ {p} : turn'[q] = turn[q]
        /\ m \in owed => turn'[p].phase = "journal" /\ turn'[p].io = "wait"
    <3>1. CASE m \in owed
      <4>1. turn' = [turn EXCEPT ![p] = [@ EXCEPT !.phase = "journal", !.io = "wait"]]
        BY <3>1 DEF JournalPart
      <4>2. QED
        BY <2>1, <4>1 DEF TurnType
    <3>2. CASE m \notin owed
      BY <2>1, <3>2 DEF JournalPart
    <3>3. QED
      BY <3>1, <3>2
  <2>3. QED
    BY <2>2 DEF JournalPart, memory
<1>4. OnceOf(k) /\ OutTurns(k)' = OutTurns(k)
  BY <1>1 DEF OnceInv, OutTurns
<1>5. \A q \in Msg \ {m} : answer'[q] = answer[q]
  BY <1>3 DEF KeptInv, TypeInv, JournalType
<1>6. CASE k # m
  <2>1. PhaseOf(k)' = PhaseOf(k) /\ (PhaseOf(k) # "idle" => k[1] # p)
    BY <1>1, <1>2, <1>3, <1>6 DEF PhaseOf, Running
  <2>2. QED
    BY <1>1, <1>2, <1>3, <1>4, <1>5, <1>6, <2>1, OnceQuiet
<1>7. CASE k = m
  <2>1. /\ answer'[k] = answer[k] \cup {<<turns[k], turn[p].part>>}
        /\ turn'[p].phase = "journal" /\ turn'[p].io = "wait"
    BY <1>2, <1>3, <1>7 DEF KeptInv, TypeInv, JournalType
  <2>2. PhaseOf(k)' = "journal" /\ ~Repeats(k)'
    BY <1>1, <1>2, <1>7, <2>1 DEF PhaseOf, Running, Repeats
  <2>3. TurnsOf(k)' \subseteq TurnsOf(k) \cup {turns[k]}
    BY <1>1, <1>4, <2>1 DEF TurnsOf
  <2>4. \A t \in TurnsOf(k) : t = turns[k]
    <3>1. CASE turn[p].part = 1
      <4>1. answer[k] = {} /\ k \in owed
        BY <1>2, <1>4, <1>7, <3>1 DEF OnceOf
      <4>2. disk.answer[k] = {} /\ OutTurns(k) = {}
        BY <1>4, <4>1 DEF OnceOf
      <4>3. QED
        BY <4>1, <4>2 DEF TurnsOf
    <3>2. CASE turn[p].part # 1
      <4>1. turn[p].part > 1
        BY <3>2 DEF KeptInv, TypeInv, WorkType, TurnType
      <4>2. QED
        BY <1>2, <1>4, <1>7, <4>1 DEF OnceOf, Repeats
    <3>3. QED
      BY <3>1, <3>2
  <2>5. answer'[k] # {} /\ \A t \in TurnsOf(k)' : t = turns'[k]
    BY <1>1, <2>1, <2>3, <2>4
  <2>6. QED
    BY <1>1, <1>2, <1>4, <1>7, <2>1, <2>2, <2>5 DEF OnceOf
<1>8. QED
  BY <1>6, <1>7

LEMMA PartJournaledOnce ==
  ASSUME ConstantsAssumption, KeptInv, OnceInv, NEW p \in Peers, PartJournaled(p)
  PROVE  OnceInv'
<1> SUFFICES ASSUME NEW k \in Msg \ risky', ~IsOpener(k) PROVE OnceOf(k)'
  BY DEF OnceInv
<1> DEFINE m == Running(p)
<1>1. /\ turn[p].phase = "journal" /\ turn[p].io \in {"ok", "failed"}
      /\ UNCHANGED <<owed, answer, seen, out, work, turns, disk>>
      /\ risky \subseteq risky' /\ (turn[p].io = "failed" => m \in risky')
      /\ turn'[p].phase = "submit"
      /\ \A q \in Peers \ {p} : turn'[q] = turn[q]
  BY DEF PartJournaled, KeptInv, TypeInv, WorkType, TurnType, memory, network
<1>2. m \in Msg /\ m[1] = p /\ k[1] \in Peers /\ PhaseOf(m) = "journal"
  BY <1>1, RunningIsOwed DEF Msg
<1>3. OnceOf(k) /\ OutTurns(k)' = OutTurns(k) /\ TurnsOf(k)' = TurnsOf(k)
  BY <1>1 DEF OnceInv, OutTurns, TurnsOf
<1>4. CASE k # m
  <2>1. PhaseOf(k)' = PhaseOf(k) /\ (PhaseOf(k) # "idle" => k[1] # p)
    BY <1>1, <1>2, <1>4 DEF PhaseOf, Running
  <2>2. QED
    BY <1>1, <1>2, <1>3, <1>4, <2>1, OnceQuiet
<1>5. CASE k = m
  <2>1. PhaseOf(k)' = "submit" /\ ~Repeats(k)' /\ PhaseOf(k) = "journal" /\ turn[k[1]].io = "ok"
    BY <1>1, <1>2, <1>5 DEF PhaseOf, Running, Repeats
  <2>2. QED
    BY <1>1, <1>3, <2>1 DEF OnceOf
<1>6. QED
  BY <1>4, <1>5

LEMMA PartLandsOnce ==
  ASSUME ConstantsAssumption, KeptInv, OnceInv, NEW p \in Peers, PartLands(p)
  PROVE  OnceInv'
<1> SUFFICES ASSUME NEW k \in Msg \ risky', ~IsOpener(k) PROVE OnceOf(k)'
  BY DEF OnceInv
<1> DEFINE m == Running(p)
<1>1. /\ turn[p].phase = "submit" /\ out' = out \cup {<<m, turns[m], turn[p].part>>}
      /\ UNCHANGED <<owed, answer, seen, work, turn, turns, disk, risky>>
  BY DEF PartLands, memory
<1>2. /\ m \in Msg /\ m[1] = p /\ k[1] \in Peers /\ PhaseOf(m) = "submit"
      /\ ~IsOpener(m) => m \in owed /\ m \in seen
  BY <1>1, RunningIsOwed DEF Msg
<1>3. /\ OnceOf(k) /\ PhaseOf(k)' = PhaseOf(k) /\ (Repeats(k)' <=> Repeats(k))
  BY <1>1 DEF OnceInv, PhaseOf, Running, Repeats
<1>4. CASE k # m
  <2>1. OutTurns(k)' = OutTurns(k)
    BY <1>1, <1>4 DEF OutTurns
  <2>2. QED
    BY <1>1, <1>3, <2>1, OnceQuiet
<1>5. CASE k = m
  <2>1. OutTurns(k)' \subseteq OutTurns(k) \cup {turns[k]}
    BY <1>1, <1>5 DEF OutTurns
  <2>2. TurnsOf(k)' \subseteq TurnsOf(k) \cup {turns[k]}
    BY <1>1, <2>1 DEF TurnsOf
  <2>3. /\ disk.answer[k] # {} /\ answer[k] # {} /\ \A t \in TurnsOf(k) : t = turns[k]
    BY <1>2, <1>3, <1>5 DEF OnceOf
  <2>4. k \in seen \cap disk.seen
    BY <1>2, <1>5, <2>3 DEF KeptInv, TakenInv, Honest
  <2>5. \A t \in TurnsOf(k)' : t = turns'[k]
    BY <1>1, <2>2, <2>3
  <2>6. QED
    BY <1>1, <1>2, <1>3, <1>5, <2>3, <2>4, <2>5 DEF OnceOf
<1>6. QED
  BY <1>4, <1>5

(* The end of a turn takes the entry and its answer out of the journal.    *)
LEMMA TurnEndsOnce ==
  ASSUME ConstantsAssumption, KeptInv, OnceInv, NEW p \in Peers, turn[p].phase \in {"submit", "resend"}, SettleOwed(p),
         turn' = [turn EXCEPT ![p] = NoTurn],
         out' \subseteq out \cup {<<Running(p), a[1], a[2]>> : a \in answer[Running(p)]},
         out' # out => turn[p].phase = "resend",
         UNCHANGED <<turns, disk, risky>>, out \subseteq out'
  PROVE  OnceInv'
<1> SUFFICES ASSUME NEW k \in Msg \ risky, ~IsOpener(k) PROVE OnceOf(k)'
  BY DEF OnceInv
<1> DEFINE m == Running(p)
<1>1. Busy(p)
  BY DEF KeptInv, TurnInv, Busy
<1>2. /\ HeadsKept(Peers \ {p}) /\ m \in Msg /\ m[1] = p /\ owed' = owed \ {m} /\ seen' = seen
      /\ \A q \in Msg : answer'[q] = IF q = m /\ q \in owed THEN {} ELSE answer[q]
  BY <1>1, SettleFacts DEF KeptInv
<1>3. turn'[p].phase = "idle" /\ \A q \in Peers \ {p} : turn'[q] = turn[q]
  BY DEF KeptInv, TypeInv, WorkType, NoTurn
<1>4. k[1] = p => PhaseOf(k)' = "idle"
  BY <1>3 DEF PhaseOf
<1>5. CASE k # m
  <2>1. OutTurns(k)' = OutTurns(k)
    BY <1>5 DEF OutTurns
  <2>2. QED
    BY <1>2, <1>3, <1>4, <1>5, <2>1, OthersOnce
<1>6. CASE k = m
  <2>1. k \in owed /\ k \in seen /\ PhaseOf(k) = turn[p].phase /\ OnceOf(k)
    BY <1>6, RunningIsOwed DEF OnceInv
  <2>2. PhaseOf(k)' = "idle" /\ ~Repeats(k)' /\ answer'[k] = {} /\ k \notin owed'
    BY <1>2, <1>4, <1>6, <2>1 DEF Repeats
  <2>3. OutTurns(k)' \subseteq TurnsOf(k)
    BY <1>6 DEF OutTurns, TurnsOf
  <2>4. TurnsOf(k)' \subseteq TurnsOf(k)
    BY <2>2, <2>3 DEF TurnsOf
  <2>5. OutTurns(k)' # {} => k \in disk.seen /\ disk.answer[k] # {}
    <3>1. CASE out' = out
      <4>1. OutTurns(k)' = OutTurns(k)
        BY <3>1 DEF OutTurns
      <4>2. CASE disk.answer[k] # {}
        BY <4>2 DEF KeptInv, TakenInv, Honest
      <4>3. CASE disk.answer[k] = {}
        BY <2>1, <4>1, <4>3 DEF OnceOf
      <4>4. QED
        BY <4>2, <4>3
    <3>2. CASE out' # out
      <4>1. PhaseOf(k) = "resend" /\ answer[k] # {}
        BY <1>6, <2>1, <3>2 DEF KeptInv, TurnInv
      <4>2. disk.answer[k] # {}
        BY <2>1, <4>1 DEF OnceOf
      <4>3. QED
        BY <4>2 DEF KeptInv, TakenInv, Honest
    <3>3. QED
      BY <3>1, <3>2
  <2>6. QED
    BY <1>2, <2>1, <2>2, <2>4, <2>5 DEF OnceOf
<1>7. QED
  BY <1>5, <1>6

LEMMA PartSubmittedOnce ==
  ASSUME ConstantsAssumption, KeptInv, OnceInv, NEW p \in Peers, PartSubmitted(p)
  PROVE  OnceInv'
<1>1. turn[p].phase = "submit" /\ UNCHANGED <<out, turns, disk, risky>>
  BY DEF PartSubmitted, network
<1>2. CASE turn' = [turn EXCEPT ![p] = NoTurn] /\ SettleOwed(p)
  BY <1>1, <1>2, TurnEndsOnce
<1>3. CASE /\ turn' = [turn EXCEPT ![p].phase = "brain", ![p].part = @ + 1]
           /\ UNCHANGED <<memory, pending, queued, work>>
  <2> SUFFICES ASSUME NEW k \in Msg \ risky, ~IsOpener(k) PROVE OnceOf(k)'
    BY <1>1 DEF OnceInv
  <2> DEFINE m == Running(p)
  <2>1. m \in Msg /\ m[1] = p /\ k[1] \in Peers /\ PhaseOf(m) = "submit"
    BY <1>1, RunningIsOwed DEF Msg
  <2>2. /\ turn'[p].phase = "brain" /\ turn'[p].part = turn[p].part + 1 /\ turn[p].part \in Nat \ {0}
        /\ \A q \in Peers \ {p} : turn'[q] = turn[q]
    BY <1>3 DEF KeptInv, TypeInv, WorkType, TurnType
  <2>3. /\ OnceOf(k) /\ OutTurns(k)' = OutTurns(k) /\ TurnsOf(k)' = TurnsOf(k)
        /\ UNCHANGED <<work, owed, answer, seen>>
    BY <1>1, <1>3 DEF OnceInv, OutTurns, TurnsOf, memory
  <2>4. CASE k # m
    <3>1. PhaseOf(k)' = PhaseOf(k) /\ (PhaseOf(k) # "idle" => k[1] # p)
      BY <2>1, <2>2, <2>3, <2>4 DEF PhaseOf, Running
    <3>2. QED
      BY <1>1, <2>1, <2>2, <2>3, <2>4, <3>1, OnceQuiet
  <2>5. CASE k = m
    <3>1. PhaseOf(k)' = "brain" /\ Repeats(k)' /\ PhaseOf(k) = "submit" /\ turn'[k[1]].part # 1
      BY <2>1, <2>2, <2>3, <2>5 DEF PhaseOf, Running, Repeats
    <3>2. QED
      BY <1>1, <2>3, <3>1 DEF OnceOf
  <2>6. QED
    BY <2>4, <2>5
<1>4. QED
  BY <1>2, <1>3 DEF PartSubmitted

LEMMA ResendFailsOnce ==
  ASSUME ConstantsAssumption, KeptInv, OnceInv, NEW p \in Peers, ResendFails(p)
  PROVE  OnceInv'
<1> SUFFICES ASSUME NEW k \in Msg \ risky', ~IsOpener(k) PROVE OnceOf(k)'
  BY DEF OnceInv
<1> DEFINE m == Running(p)
<1>1. /\ turn[p].phase = "resend" /\ turn' = [turn EXCEPT ![p] = NoTurn]
      /\ work' = [work EXCEPT ![p] = Tail(@)]
      /\ UNCHANGED <<owed, answer, seen, out, turns, disk, risky>>
  BY DEF ResendFails, memory, network
<1>2. m \in Msg /\ m[1] = p /\ k[1] \in Peers /\ PhaseOf(m) = "resend"
  BY <1>1, RunningIsOwed DEF Msg
<1>3. turn'[p].phase = "idle" /\ \A q \in Peers \ {p} : turn'[q] = turn[q] /\ work'[q] = work[q]
  BY <1>1 DEF KeptInv, TypeInv, WorkType, NoTurn
<1>4. OnceOf(k) /\ OutTurns(k)' = OutTurns(k) /\ TurnsOf(k)' = TurnsOf(k)
  BY <1>1 DEF OnceInv, OutTurns, TurnsOf
<1>5. HeadsKept(Peers \ {p}) /\ (k[1] = p => PhaseOf(k)' = "idle")
  BY <1>3 DEF HeadsKept, PhaseOf
<1>6. CASE k # m
  BY <1>1, <1>2, <1>3, <1>4, <1>5, <1>6, OthersOnce
<1>7. CASE k = m
  <2>1. PhaseOf(k)' = "idle" /\ ~Repeats(k)' /\ PhaseOf(k) = "resend"
    BY <1>2, <1>5, <1>7 DEF Repeats
  <2>2. QED
    BY <1>1, <1>4, <2>1 DEF OnceOf
<1>8. QED
  BY <1>6, <1>7

LEMMA CrashOnce ==
  ASSUME KeptInv, OnceInv, Crash
  PROVE  OnceInv'
<1> SUFFICES ASSUME NEW k \in Msg \ risky, ~IsOpener(k) PROVE OnceOf(k)'
  BY DEF OnceInv, Crash
<1>1. /\ owed' = disk.owed /\ answer' = disk.answer /\ seen' = disk.seen
      /\ turn' = [p \in Peers |-> NoTurn]
      /\ UNCHANGED <<out, turns, disk, risky>>
  BY DEF Crash, network
<1>2. k[1] \in Peers /\ OnceOf(k) /\ OutTurns(k)' = OutTurns(k)
  BY <1>1 DEF Msg, OnceInv, OutTurns
<1>3. PhaseOf(k)' = "idle" /\ ~Repeats(k)'
  BY <1>1, <1>2 DEF PhaseOf, NoTurn, Repeats
<1>4. TurnsOf(k)' \subseteq TurnsOf(k)
  BY <1>1, <1>2 DEF TurnsOf
<1>5. QED
  BY <1>1, <1>2, <1>3, <1>4 DEF OnceOf

LEMMA NextOnce ==
  ASSUME ConstantsAssumption, KeptInv, OnceInv, [Next]_vars
  PROVE  OnceInv'
<1>1. CASE Write \/ DrainEnds \/ DrainFails \/ OpenerPersisted \/ OpenerDeferred \/ Crash
  BY <1>1, StoreOnce, OpenerOnce, CrashOnce
<1>2. CASE \E p \in Peers : PeerStep(p)
  <2>1. PICK p \in Peers : PeerStep(p)
    BY <1>2
  <2>2. CASE OpenerArrives(p) \/ OpenerAccepted(p) \/ OpenerAcceptFails(p) \/ SessionAcks(p)
    BY <2>2, OpenerOnce
  <2>3. CASE SessionArrives(p) \/ SessionPersisted(p)
    BY <2>3, SessionOnce
  <2>4. CASE WorkStarts(p) \/ JournalPart(p) \/ PartJournaled(p) \/ PartLands(p)
    BY <2>4, WorkStartsOnce, JournalPartOnce, PartJournaledOnce, PartLandsOnce
  <2>5. CASE PartSubmitted(p) \/ ResendFails(p)
    BY <2>5, PartSubmittedOnce, ResendFailsOnce
  <2>6. CASE PartFails(p)
    <3>1. /\ turn[p].phase = "submit" /\ SettleOwed(p) /\ turn' = [turn EXCEPT ![p] = NoTurn]
          /\ UNCHANGED <<out, turns, disk, risky>>
      BY <2>6 DEF PartFails, network
    <3>2. QED
      BY <3>1, TurnEndsOnce
  <2>7. CASE Resent(p)
    <3>1. /\ turn[p].phase = "resend" /\ SettleOwed(p) /\ turn' = [turn EXCEPT ![p] = NoTurn]
          /\ out' = out \cup {<<Running(p), a[1], a[2]>> : a \in answer[Running(p)]}
          /\ UNCHANGED <<turns, disk, risky>>
      BY <2>7 DEF Resent
    <3>2. QED
      BY <3>1, TurnEndsOnce
  <2>8. QED
    BY <2>1, <2>2, <2>3, <2>4, <2>5, <2>6, <2>7 DEF PeerStep
<1>3. CASE \E m \in Msg : PeerPosts(m)
  BY <1>3, OpenerOnce
<1>4. CASE UNCHANGED vars
  BY <1>4, OnceFrame DEF vars, memory, network, HeadsKept
<1>5. QED
  BY <1>1, <1>2, <1>3, <1>4 DEF Next

(***************************************************************************)
(* A session message is answered once: whatever crashes, fails or is sent  *)
(* again, a peer never has parts of two turns of the brain for it, unless  *)
(* a part of the answer could not be journaled (index.mjs 780-830).        *)
(***************************************************************************)
THEOREM SessionsAnsweredOnce == Spec => []SessionAnsweredOnce
<1>1. Init => KeptInv /\ OnceInv
  <2>1. Init => KeptInv
    BY InitKept, ConstantsAssumption
  <2>2. ASSUME Init, NEW m \in Msg PROVE OnceOf(m)
    <3>1. answer[m] = {} /\ disk.answer[m] = {} /\ OutTurns(m) = {} /\ TurnsOf(m) = {}
      BY <2>2 DEF Init, Snapshot, OutTurns, TurnsOf
    <3>2. PhaseOf(m) = "idle"
      BY <2>2 DEF Init, PhaseOf, NoTurn, Msg
    <3>3. QED
      BY <3>1, <3>2 DEF OnceOf, Repeats
  <2>3. QED
    BY <2>1, <2>2 DEF OnceInv
<1>2. KeptInv /\ OnceInv /\ [Next]_vars => KeptInv' /\ OnceInv'
  BY NextKeeps, NextOnce, ConstantsAssumption
<1>3. KeptInv /\ OnceInv => SessionAnsweredOnce
  <2> SUFFICES ASSUME OnceInv, NEW m \in Msg \ risky, ~IsOpener(m),
                      NEW x \in out, NEW y \in out, x[1] = m, y[1] = m
               PROVE  x[2] = y[2]
    BY DEF SessionAnsweredOnce, OneTurn
  <2>1. x[2] \in TurnsOf(m) /\ y[2] \in TurnsOf(m)
    BY DEF TurnsOf, OutTurns
  <2>2. QED
    BY <2>1 DEF OnceInv, OnceOf
<1>4. QED
  BY <1>1, <1>2, <1>3, PTL DEF Spec
-----------------------------------------------------------------------------
(* The files that messages bring. While there was one lost connection at   *)
(* most and nothing worse, and what is sent fits into the cache (Calm),    *)
(* there is one download for each file; what it has still to claim is held *)
(* by the node; and a file that was sent is in the cache, or on its way    *)
(* there, or held by the node as a whole.                                  *)
PlanOk ==
  /\ plan \in [bot : BOOLEAN, files : SUBSET Files, asks : SUBSET Requests,
               faults : [Hop!Kinds -> Nat], room : [pool : Nat, queue : Nat, cache : Nat]]
  /\ left \in [Hop!Kinds -> Nat] /\ \A k \in Hop!Kinds : left[k] <= plan.faults[k]

Calm == plan.bot /\ Hop!Roomy /\ Hop!Lost <= 1 /\ ~Hop!Harmed

InCache(c, f) == \E n \in 1 .. Len(c) : c[n].file = f
HeldFrom(p, f, n) == \A e \in 0 .. ChunksOf[f] : n <= e => p[f][e] = "held"
PartsTo(parts, n) == Len(parts) = n /\ \A k \in 1 .. n : parts[k] = k
SentBy(u, f) == u[f] = ChunksOf[f] + 2

PoolOk(p) == DOMAIN p = Files /\ \A f \in Files : DOMAIN p[f] = 0 .. ChunksOf[f]
CacheOk(c, files) ==
  /\ c \in Seq([file : Files, whole : BOOLEAN])
  /\ \A n \in 1 .. Len(c) : c[n].whole /\ c[n].file \in files
AsksOk(a) == a \in [Requests -> [state : {"none", "waiting", "done"}, on : Requests]]
SharedOk(i) == i \in [Files -> Requests \cup {Nil}]

(* An upload that goes on, or is through.                                  *)
UploadOk(f, u, c, i, p) ==
  /\ u[f] \in 1 .. ChunksOf[f] + 2
  /\ IF SentBy(u, f) THEN InCache(c, f) \/ i[f] # Nil \/ HeldFrom(p, f, 0)
     ELSE ~InCache(c, f) /\ \A e \in 1 .. ChunksOf[f] : e < u[f] => p[f][e] = "held"

UploadsOk(u, c, i, p, files) ==
  /\ u \in [Files -> Nat \cup {Nil}]
  /\ \A f \in Files : u[f] # Nil => f \in files /\ UploadOk(f, u, c, i, p)

(* Where a download is says what it has and what it finds.                 *)
JobOk(f, j, p, lost) ==
  /\ j.on <= ChunksOf[f]
  /\ j.at \in {"queued", "begin"} => j.on = 0
  /\ j.at \in {"queued", "begin", "connect", "claim"} =>
       HeldFrom(p, f, j.on) /\ PartsTo(j.parts, IF j.on = 0 THEN 0 ELSE j.on - 1)
  /\ j.at = "ack" => HeldFrom(p, f, j.on + 1) /\ PartsTo(j.parts, j.on)
  /\ j.at = "save" => PartsTo(j.parts, ChunksOf[f])
  /\ j.try = 2 => lost >= 1
  /\ j.at \in {"claim", "ack", "save"} /\ ~j.open => lost >= j.try

DownloadOk(r, j, u, c, i, a) ==
  /\ i[FileOf[r]] = r /\ SentBy(u, FileOf[r]) /\ ~InCache(c, FileOf[r])
  /\ a[r] = [state |-> "waiting", on |-> r]

DownloadsOk(js, u, c, i, a, p, lost) ==
  /\ js \in [Requests -> Downloads \cup {Nil}]
  /\ \A r \in Requests : js[r] # Nil => DownloadOk(r, js[r], u, c, i, a) /\ JobOk(FileOf[r], js[r], p, lost)

QueueOk(q, js, asks) ==
  /\ q \in Seq(Requests)
  /\ \A m, n \in 1 .. Len(q) : q[m] = q[n] => m = n
  /\ \A n \in 1 .. Len(q) : q[n] \in asks /\ js[q[n]] # Nil /\ js[q[n]].at = "queued"

Quiet ==
  /\ PoolOk(pool) /\ CacheOk(cache, plan.files) /\ AsksOk(ask) /\ SharedOk(inflight)
  /\ UploadsOk(up, cache, inflight, pool, plan.files)
  /\ DownloadsOk(job, up, cache, inflight, ask, pool, Hop!Lost)
  /\ QueueOk(queue, job, plan.asks)

FilesInv == PlanOk /\ (Calm => Quiet)

-----------------------------------------------------------------------------
(* What a sequence has at some of its places.                              *)
LEMMA Ranked ==
  ASSUME NEW len \in Nat, NEW places \in SUBSET (1 .. len)
  PROVE  /\ IsFiniteSet(places) /\ Cardinality(places) \in Nat
         /\ \A n \in 1 .. Cardinality(places) :
              \E i \in places : Cardinality({j \in places : j <= i}) = n
  <1> DEFINE upTo(i) == {j \in places : j <= i}
             rank == [i \in places |-> Cardinality(upTo(i))]
             top == Cardinality(places)
  <1>1. IsFiniteSet(places) /\ top \in Nat
    <2>1. IsFiniteSet(1 .. len) BY FS_Interval
    <2> QED BY <2>1, FS_Subset, FS_CardinalityType
  <1>2. ASSUME NEW i \in places
        PROVE  IsFiniteSet(upTo(i)) /\ Cardinality(upTo(i)) \in 1 .. top
    <2>1. upTo(i) \in SUBSET places /\ i \in upTo(i) BY <1>2
    <2>2. IsFiniteSet(upTo(i)) /\ Cardinality(upTo(i)) <= top BY <1>1, <2>1, FS_Subset
    <2>3. Cardinality(upTo(i)) \in Nat BY <2>2, FS_CardinalityType
    <2>4. Cardinality(upTo(i)) # 0 BY <2>1, <2>2, FS_EmptySet
    <2> QED BY <1>1, <2>2, <2>3, <2>4
  <1>3. ASSUME NEW i \in places, NEW k \in places, i < k
        PROVE  Cardinality(upTo(i)) # Cardinality(upTo(k))
    <2>0. \A j \in places : j \in Int OBVIOUS
    <2>1. k \in upTo(k) /\ k \notin upTo(i) BY <1>3, <2>0
    <2>3. \A j \in places : j <= i => j <= k BY <1>3, <2>0
    <2>4. upTo(i) \in SUBSET upTo(k) BY <2>3
    <2>2. IsFiniteSet(upTo(k)) BY <1>2
    <2> QED BY <2>1, <2>2, <2>4, FS_Subset
  <1>4. rank \in [places -> 1 .. top] BY <1>2
  <1>5. ASSUME NEW i \in places, NEW k \in places, rank[i] = rank[k] PROVE i = k
    <2>1. i \in Int /\ k \in Int BY <1>5
    <2>2. ~(i < k) /\ ~(k < i) BY <1>3, <1>5
    <2> QED BY <2>1, <2>2
  <1>6. rank \in Injection(places, 1 .. top) BY <1>4, <1>5 DEF Injection, IsInjective
  <1>7. IsFiniteSet(1 .. top) /\ Cardinality(1 .. top) = top BY <1>1, FS_Interval
  <1>8. rank \in Surjection(places, 1 .. top) BY <1>6, <1>7, FS_Injection
  <1>9. \A n \in 1 .. top : \E i \in places : rank[i] = n BY <1>8 DEF Surjection
  <1> QED BY <1>1, <1>9

LEMMA CountIsCardinality == \A S : Hop!Cardinality(S) = Cardinality(S)
  BY DEF Hop!Cardinality, Cardinality

LEMMA TakenAt ==
  ASSUME NEW S, NEW s \in Seq(S), NEW places \in SUBSET (1 .. Len(s))
  PROVE  /\ Hop!At(s, places) \in Seq(S)
         /\ \E from \in [1 .. Len(Hop!At(s, places)) -> places] :
              /\ \A n \in 1 .. Len(Hop!At(s, places)) : Hop!At(s, places)[n] = s[from[n]]
              /\ \A m, n \in 1 .. Len(Hop!At(s, places)) : from[m] = from[n] => m = n
  <1> DEFINE upTo(i) == {j \in places : j <= i}
             chosen(n) == CHOOSE i \in places : Hop!Cardinality(upTo(i)) = n
             top == Hop!Cardinality(places)
             at == Hop!At(s, places)
             from == [n \in 1 .. top |-> chosen(n)]
  <1>1. Len(s) \in Nat OBVIOUS
  <1>2. top \in Nat BY <1>1, Ranked, CountIsCardinality
  <1>3. ASSUME NEW n \in 1 .. top PROVE chosen(n) \in places /\ Hop!Cardinality(upTo(chosen(n))) = n
    <2>1. \E i \in places : Cardinality(upTo(i)) = n BY <1>1, <1>3, Ranked, CountIsCardinality
    <2>2. \E i \in places : Hop!Cardinality(upTo(i)) = n BY <2>1, CountIsCardinality
    <2> QED BY <2>2
  <1>4. at = [n \in 1 .. top |-> s[chosen(n)]] BY DEF Hop!At
  <1> HIDE DEF upTo, chosen, at, top
  <1>5. \A n \in 1 .. top : s[chosen(n)] \in S
    <2>1. \A i \in places : s[i] \in S OBVIOUS
    <2> QED BY <1>3, <2>1
  <1>6. at \in Seq(S) /\ Len(at) = top BY <1>2, <1>4, <1>5, IsASeq
  <1>7. \A n \in 1 .. top : at[n] = s[from[n]] BY <1>4
  <1>8. from \in [1 .. top -> places] BY <1>3
  <1>9. \A m, n \in 1 .. top : from[m] = from[n] => m = n
    <2>1. \A n \in 1 .. top : from[n] = chosen(n) OBVIOUS
    <2> QED BY <1>3, <2>1
  <1> HIDE DEF from
  <1> QED BY <1>6, <1>7, <1>8, <1>9 DEF at

-----------------------------------------------------------------------------
(* How much there is of the files.                                         *)
LEMMA ChunksFinite ==
  ASSUME NEW files \in SUBSET Files PROVE IsFiniteSet(Hop!Chunks(files))
  <1> DEFINE of == [f \in files |-> {f} \X (1 .. Hop!Size(f))]
             all == {{f} \X (1 .. Hop!Size(f)) : f \in files}
  <1>1. IsFiniteSet(files) BY FilesAssumption, FS_Subset
  <1>2. of \in Surjection(files, all) BY DEF Surjection
  <1>3. IsFiniteSet(all) BY <1>1, <1>2, FS_Surjection
  <1>4. ASSUME NEW f \in files PROVE IsFiniteSet({f} \X (1 .. Hop!Size(f)))
    <2>1. Hop!Size(f) \in Nat BY FilesAssumption DEF Hop!Size
    <2>2. IsFiniteSet(1 .. Hop!Size(f)) BY <2>1, FS_Interval
    <2>3. IsFiniteSet({f}) BY FS_Singleton
    <2> QED BY <2>2, <2>3, FS_Product
  <1>5. \A T \in all : IsFiniteSet(T) BY <1>4
  <1> QED BY <1>3, <1>5, FS_UNION DEF Hop!Chunks

(* A file that is sent fits into the cache beside all that are there.      *)
LEMMA VolumeFits ==
  ASSUME NEW c, NEW files \in SUBSET Files, CacheOk(c, files), NEW f \in files, ~InCache(c, f)
  PROVE  Hop!Total(c) \in Nat /\ Hop!Total(c) + Hop!Size(f) <= Hop!Cardinality(Hop!Chunks(files))
  <1> DEFINE here == {c[n].file : n \in DOMAIN c}
             these == Hop!Chunks(here)
             new == {f} \X (1 .. Hop!Size(f))
             all == Hop!Chunks(files)
  <1>1. DOMAIN c = 1 .. Len(c) BY DEF CacheOk
  <1>2. here \in SUBSET files /\ f \notin here BY <1>1 DEF CacheOk, InCache
  <1>3. IsFiniteSet(these) /\ IsFiniteSet(all) BY <1>2, ChunksFinite
  <1>4. Hop!Size(f) \in Nat BY FilesAssumption DEF Hop!Size
  <1>5. IsFiniteSet(new) /\ Cardinality(new) = Hop!Size(f)
    <2>1. IsFiniteSet(1 .. Hop!Size(f)) /\ Cardinality(1 .. Hop!Size(f)) = Hop!Size(f) BY <1>4, FS_Interval
    <2>2. [n \in 1 .. Hop!Size(f) |-> <<f, n>>] \in Bijection(1 .. Hop!Size(f), new)
          BY DEF Bijection, Injection, Surjection, IsInjective
    <2>3. ExistsBijection(1 .. Hop!Size(f), new) BY <2>2 DEF ExistsBijection
    <2> QED BY <2>1, <2>3, FS_Bijection
  <1>6. these \cap new = {} BY <1>2 DEF Hop!Chunks
  <1>7. these \cup new \in SUBSET all BY <1>2 DEF Hop!Chunks
  <1> HIDE DEF these, new, all
  <1>8. IsFiniteSet(these \cup new) /\ Cardinality(these \cup new) = Cardinality(these) + Cardinality(new) - Cardinality(these \cap new)
        BY <1>3, <1>5, FS_Union
  <1>9. Cardinality(these \cap new) = 0 BY <1>6, FS_EmptySet
  <1>10. Cardinality(these) \in Nat /\ Cardinality(all) \in Nat /\ Cardinality(these \cup new) <= Cardinality(all)
         BY <1>3, <1>7, FS_CardinalityType, FS_Subset
  <1>11. Hop!Total(c) = Cardinality(these) BY CountIsCardinality DEF Hop!Total, these
  <1>12. Hop!Cardinality(Hop!Chunks(files)) = Cardinality(all) BY CountIsCardinality DEF all
  <1> QED BY <1>4, <1>5, <1>8, <1>9, <1>10, <1>11, <1>12

(* Nothing has to go for a file that comes.                                *)
LEMMA NothingGoes ==
  ASSUME PlanOk, Calm, CacheOk(cache, plan.files), NEW f \in plan.files, ~InCache(cache, f)
  PROVE  Hop!Fits(f) /\ Hop!Stored(f, TRUE) = Append(cache, [file |-> f, whole |-> TRUE])
  <1> DEFINE fits == {k \in 0 .. Len(cache) : Hop!Total(SubSeq(cache, k + 1, Len(cache))) + Hop!Size(f) <= plan.room.cache}
  <1>1. plan.files \in SUBSET Files /\ plan.room.cache \in Nat BY DEF PlanOk
  <1>2. cache \in Seq([file : Files, whole : BOOLEAN]) BY DEF CacheOk
  <1>3. Hop!Total(cache) \in Nat /\ Hop!Total(cache) + Hop!Size(f) <= Hop!Cardinality(Hop!Chunks(plan.files))
        BY <1>1, VolumeFits
  <1>4. Hop!Cardinality(Hop!Chunks(plan.files)) <= plan.room.cache BY DEF Calm, Hop!Roomy
  <1>5. Hop!Cardinality(Hop!Chunks(plan.files)) \in Nat BY <1>1, ChunksFinite, FS_CardinalityType, CountIsCardinality
  <1>6. f \in Files /\ Hop!Size(f) \in Nat BY <1>1, FilesAssumption DEF Hop!Size
  <1>7. SubSeq(cache, 0 + 1, Len(cache)) = cache
    <2>1. SubSeq(cache, 1, Len(cache)) = cache BY <1>2, SubSeqFull
    <2> QED BY <2>1
  <1>8. Len(cache) \in Nat BY <1>2
  <1>9. Hop!Total(cache) + Hop!Size(f) <= plan.room.cache BY <1>1, <1>3, <1>4, <1>5, <1>6
  <1>10. 0 \in fits
    <2>1. 0 \in 0 .. Len(cache) /\ 0 + 1 = 1 BY <1>8
    <2>2. Hop!Total(SubSeq(cache, 0 + 1, Len(cache))) + Hop!Size(f) <= plan.room.cache BY <1>7, <1>9, <2>1
    <2> QED BY <2>1, <2>2
  <1>11. (CHOOSE k \in fits : \A i \in fits : k <= i) = 0
    <2>1. fits \subseteq Nat BY <1>8
    <2>2. 0 \in fits /\ \A i \in fits : 0 <= i BY <1>10, <2>1
    <2>3. \A k \in fits : (\A i \in fits : k <= i) => k = 0 BY <1>10, <2>1
    <2> HIDE DEF fits
    <2> QED BY <2>2, <2>3
  <1> HIDE DEF fits
  <1>12. Hop!RoomFor(cache, Hop!Size(f)) = SubSeq(cache, 0 + 1, Len(cache)) BY <1>11 DEF Hop!RoomFor, fits
  <1>13. Hop!RoomFor(cache, Hop!Size(f)) = cache BY <1>7, <1>12
  <1>14. Hop!Cached(f) = {} BY <1>2 DEF Hop!Cached, InCache
  <1>15. Hop!Others(f) = cache BY <1>14 DEF Hop!Others
  <1>16. Hop!Size(f) <= plan.room.cache BY <1>1, <1>3, <1>6, <1>9
  <1> QED BY <1>13, <1>15, <1>16 DEF Hop!Stored, Hop!Fits, Calm

(* There is room in the queue for whoever is not in it.                    *)
LEMMA QueueHasRoom ==
  ASSUME PlanOk, Calm, NEW js, QueueOk(queue, js, plan.asks), NEW r \in plan.asks, js[r] = Nil
  PROVE  Len(queue) < plan.room.queue
  <1> DEFINE others == plan.asks \ {r}
  <1>1. plan.asks \in SUBSET Requests /\ plan.room.queue \in Nat BY DEF PlanOk
  <1>2. IsFiniteSet(plan.asks) BY <1>1, FilesAssumption, FS_Subset
  <1>3. IsFiniteSet(others) /\ Cardinality(others) = Cardinality(plan.asks) - 1 /\ Cardinality(plan.asks) \in Nat
        BY <1>2, FS_RemoveElement, FS_CardinalityType
  <1>4. Len(queue) \in Nat /\ queue \in [1 .. Len(queue) -> others] BY DEF QueueOk
  <1>5. queue \in Injection(1 .. Len(queue), others) BY <1>4 DEF Injection, IsInjective, QueueOk
  <1>6. Cardinality(1 .. Len(queue)) <= Cardinality(others) BY <1>3, <1>5, FS_Injection
  <1>7. Cardinality(1 .. Len(queue)) = Len(queue) BY <1>4, FS_Interval
  <1>8. Hop!Cardinality(plan.asks) <= plan.room.queue BY DEF Calm, Hop!Roomy
  <1>9. Cardinality(plan.asks) <= plan.room.queue BY <1>8, CountIsCardinality
  <1> QED BY <1>1, <1>3, <1>4, <1>6, <1>7, <1>9

-----------------------------------------------------------------------------
(* The faults.                                                             *)
LEMMA FaultsCount ==
  ASSUME PlanOk, NEW kind \in Hop!Kinds, Hop!Fault(kind), plan' = plan
  PROVE  /\ PlanOk' /\ (Calm' => Calm)
         /\ kind \in {"loss", "refuse"} => Hop!Lost' = Hop!Lost + 1
         /\ kind \notin {"loss", "refuse"} => ~Calm'
  <1> DEFINE n == left[kind] - 1
  <1>1. left \in [Hop!Kinds -> Nat] /\ plan.faults \in [Hop!Kinds -> Nat] /\ \A k \in Hop!Kinds : left[k] <= plan.faults[k]
        BY DEF PlanOk
  <1>2. left[kind] > 0 /\ left' = [left EXCEPT ![kind] = n] BY DEF Hop!Fault
  <1>3. n \in Nat /\ n < left[kind] BY <1>1, <1>2
  <1> HIDE DEF n
  <1>4. left' \in [Hop!Kinds -> Nat] BY <1>1, <1>2, <1>3
  <1>5. left'[kind] = n /\ \A k \in Hop!Kinds \ {kind} : left'[k] = left[k] BY <1>1, <1>2
  <1>6. \A k \in Hop!Kinds : left'[k] <= left[k] /\ left'[k] <= plan.faults[k] BY <1>1, <1>3, <1>4, <1>5
  <1>7. PlanOk' BY <1>4, <1>6 DEF PlanOk
  <1>8. "loss" \in Hop!Kinds /\ "refuse" \in Hop!Kinds BY DEF Hop!Kinds
  <1>9. Hop!Lost' = (plan.faults["loss"] - left'["loss"]) + (plan.faults["refuse"] - left'["refuse"]) BY DEF Hop!Lost
  <1>10. Hop!Lost <= Hop!Lost' BY <1>1, <1>4, <1>6, <1>8, <1>9 DEF Hop!Lost
  <1>11. Hop!Harmed => Hop!Harmed' 
    <2>1. \A k \in Hop!Kinds : left[k] < plan.faults[k] => left'[k] < plan.faults[k] BY <1>1, <1>4, <1>6
    <2> QED BY <2>1 DEF Hop!Harmed
  <1>12. Hop!Roomy' = Hop!Roomy BY DEF Hop!Roomy
  <1>13. Hop!Lost \in Nat /\ Hop!Lost' \in Nat BY <1>1, <1>4, <1>6, <1>8, <1>9 DEF Hop!Lost
  <1>14. Calm' => Calm BY <1>10, <1>11, <1>12, <1>13 DEF Calm
  <1>15. kind \in {"loss", "refuse"} => Hop!Lost' = Hop!Lost + 1
    <2>1. left'[kind] = left[kind] - 1 BY <1>5 DEF n
    <2>2. CASE kind = "loss"
      <3>1. left'["refuse"] = left["refuse"] BY <1>5, <1>8, <2>2
      <3> QED BY <1>1, <1>8, <1>9, <2>1, <2>2, <3>1 DEF Hop!Lost
    <2>3. CASE kind = "refuse"
      <3>1. left'["loss"] = left["loss"] BY <1>5, <1>8, <2>3
      <3> QED BY <1>1, <1>8, <1>9, <2>1, <2>3, <3>1 DEF Hop!Lost
    <2> QED BY <2>2, <2>3
  <1>16. kind \notin {"loss", "refuse"} => ~Calm'
    <2>1. left'[kind] < plan.faults[kind] BY <1>1, <1>3, <1>5
    <2> QED BY <2>1 DEF Calm, Hop!Harmed
  <1> QED BY <1>7, <1>14, <1>15, <1>16

LEMMA NoFault ==
  ASSUME PlanOk, UNCHANGED <<plan, left>>
  PROVE  PlanOk' /\ Calm' = Calm /\ Hop!Lost' = Hop!Lost
  BY DEF PlanOk, Calm, Hop!Roomy, Hop!Lost, Hop!Harmed

LEMMA LostIsNat == ASSUME PlanOk PROVE Hop!Lost \in Nat
  <1>1. left \in [Hop!Kinds -> Nat] /\ plan.faults \in [Hop!Kinds -> Nat] /\ \A k \in Hop!Kinds : left[k] <= plan.faults[k]
        BY DEF PlanOk
  <1>2. "loss" \in Hop!Kinds /\ "refuse" \in Hop!Kinds BY DEF Hop!Kinds
  <1> QED BY <1>1, <1>2 DEF Hop!Lost

(* A download minds neither more faults than it saw nor that the node      *)
(* comes to hold more.                                                     *)
LEMMA JobStays ==
  ASSUME NEW f \in Files, NEW j \in Downloads, NEW p, NEW q, NEW m \in Nat, NEW n \in Nat, m <= n, JobOk(f, j, p, m),
         \A e \in 0 .. ChunksOf[f] : p[f][e] = "held" => q[f][e] = "held"
  PROVE  JobOk(f, j, q, n)
  <1>1. ChunksOf[f] \in Nat /\ j.try \in Nat BY FilesAssumption DEF Downloads
  <1>2. \A k : HeldFrom(p, f, k) => HeldFrom(q, f, k) BY DEF HeldFrom
  <1>3. j.try = 2 => n >= 1 BY <1>1 DEF JobOk
  <1>4. j.at \in {"claim", "ack", "save"} /\ ~j.open => n >= j.try BY <1>1 DEF JobOk
  <1> QED BY <1>2, <1>3, <1>4 DEF JobOk

-----------------------------------------------------------------------------
(* Downloads begin and wait.                                               *)
LEMMA FreshJob ==
  /\ Hop!NewJob = [at |-> "begin", on |-> 0, parts |-> <<>>, try |-> 1, open |-> FALSE]
  /\ Hop!NewJob \in Downloads /\ Hop!NewJob # Nil
  /\ [Hop!NewJob EXCEPT !.at = "queued"] \in Downloads /\ [Hop!NewJob EXCEPT !.at = "queued"] # Nil
  <1>1. Hop!NewJob = [at |-> "begin", on |-> 0, parts |-> <<>>, try |-> 1, open |-> FALSE] BY DEF Hop!NewJob
  <1>2. <<>> \in Seq(Nat) OBVIOUS
  <1>3. Hop!NewJob \in Downloads BY <1>1, <1>2 DEF Downloads
  <1>4. [Hop!NewJob EXCEPT !.at = "queued"] \in Downloads BY <1>3 DEF Downloads
  <1> QED BY <1>1, <1>3, <1>4, FilesAssumption

LEMMA FreshJobOk ==
  ASSUME NEW f \in Files, NEW j, NEW p, NEW n \in Nat, HeldFrom(p, f, 0),
         j.at \in {"queued", "begin"}, j.on = 0, j.parts = <<>>, j.try = 1
  PROVE  JobOk(f, j, p, n)
  <1>1. 0 <= ChunksOf[f] BY FilesAssumption
  <1>2. PartsTo(<<>>, 0) BY DEF PartsTo
  <1> QED BY <1>1, <1>2 DEF JobOk

(* Those that start leave the queue, and nobody else.                      *)
LEMMA DrainKeeps ==
  ASSUME NEW waiting, NEW u, NEW js, NEW asks, NEW n \in Nat,
         NEW up1, NEW c1, NEW i1, NEW a1, NEW p1,
         QueueOk(waiting, js, asks), DownloadsOk(js, up1, c1, i1, a1, p1, n), Hop!Drains(waiting, u, js)
  PROVE  QueueOk(queue', job', asks) /\ DownloadsOk(job', up1, c1, i1, a1, p1, n)
  <1>1. PICK places \in Hop!Admitted(waiting, u) :
          /\ queue' = Hop!At(waiting, DOMAIN waiting \ places)
          /\ job' = [r \in Requests |-> IF r \in {waiting[i] : i \in places} THEN Hop!NewJob ELSE js[r]]
        BY DEF Hop!Drains
  <1> DEFINE rest == DOMAIN waiting \ places
             started == {waiting[i] : i \in places}
             jobs == [r \in Requests |-> IF r \in started THEN Hop!NewJob ELSE js[r]]
             left1 == Hop!At(waiting, rest)
  <1>2. waiting \in Seq(Requests) /\ DOMAIN waiting = 1 .. Len(waiting) /\ Len(waiting) \in Nat BY DEF QueueOk
  <1>3. places \in SUBSET (1 .. Len(waiting)) BY <1>2 DEF Hop!Admitted
  <1>4. rest \in SUBSET (1 .. Len(waiting)) BY <1>2
  <1> HIDE DEF rest, left1
  <1>5. left1 \in Seq(Requests) /\
        \E from \in [1 .. Len(left1) -> rest] :
              /\ \A k \in 1 .. Len(left1) : left1[k] = waiting[from[k]]
              /\ \A m, k \in 1 .. Len(left1) : from[m] = from[k] => m = k
        BY <1>2, <1>4, TakenAt DEF left1
  <1> USE DEF rest
  <1>6. PICK from \in [1 .. Len(left1) -> rest] :
              /\ \A k \in 1 .. Len(left1) : left1[k] = waiting[from[k]]
              /\ \A m, k \in 1 .. Len(left1) : from[m] = from[k] => m = k
        BY <1>5
  <1>7. \A k \in 1 .. Len(left1) : from[k] \in 1 .. Len(waiting) /\ from[k] \notin places BY <1>4, <1>6
  <1>8. started \subseteq Requests BY <1>2, <1>3
  <1>9. \A r \in started : js[r] # Nil /\ js[r].at = "queued" BY <1>3 DEF QueueOk
  <1>10. \A r \in Requests : jobs[r] = IF r \in started THEN Hop!NewJob ELSE js[r] OBVIOUS
  <1>11. queue' = left1 /\ job' = jobs BY <1>1 DEF left1
  <1>12. ASSUME NEW k \in 1 .. Len(left1)
         PROVE  left1[k] \in Requests /\ left1[k] \in asks /\ jobs[left1[k]] # Nil /\ jobs[left1[k]].at = "queued"
    <2>1. left1[k] = waiting[from[k]] /\ from[k] \in 1 .. Len(waiting) /\ from[k] \notin places BY <1>6, <1>7
    <2>2. left1[k] \notin started BY <1>3, <2>1 DEF QueueOk
    <2>3. left1[k] \in Requests BY <1>2, <2>1
    <2>4. jobs[left1[k]] = js[left1[k]] BY <1>10, <2>2, <2>3
    <2> QED BY <2>1, <2>3, <2>4 DEF QueueOk
  <1>13. \A m, k \in 1 .. Len(left1) : left1[m] = left1[k] => m = k
    <2> SUFFICES ASSUME NEW m \in 1 .. Len(left1), NEW k \in 1 .. Len(left1), left1[m] = left1[k] PROVE m = k
        OBVIOUS
    <2>1. waiting[from[m]] = waiting[from[k]] BY <1>6
    <2>2. from[m] = from[k] BY <1>7, <2>1 DEF QueueOk
    <2> QED BY <1>6, <2>2
  <1>14. jobs \in [Requests -> Downloads \cup {Nil}] BY FreshJob DEF DownloadsOk
  <1> HIDE DEF jobs, left1, started, rest
  <1>15. QueueOk(left1, jobs, asks) BY <1>5, <1>12, <1>13 DEF QueueOk
  <1>16. ASSUME NEW r \in Requests, jobs[r] # Nil
         PROVE  DownloadOk(r, jobs[r], up1, c1, i1, a1) /\ JobOk(FileOf[r], jobs[r], p1, n)
    <2>0. FileOf[r] \in Files BY FilesAssumption
    <2>1. CASE r \in started
      <3>1. jobs[r] = Hop!NewJob /\ js[r] # Nil /\ js[r].at = "queued" BY <1>9, <1>10, <2>1
      <3>2. DownloadOk(r, js[r], up1, c1, i1, a1) /\ JobOk(FileOf[r], js[r], p1, n) BY <3>1 DEF DownloadsOk
      <3>3. HeldFrom(p1, FileOf[r], 0) BY <3>1, <3>2 DEF JobOk
      <3>4. JobOk(FileOf[r], Hop!NewJob, p1, n) BY <2>0, <3>3, FreshJob, FreshJobOk
      <3> QED BY <3>1, <3>2, <3>4 DEF DownloadOk
    <2>2. CASE r \notin started
      <3>1. jobs[r] = js[r] BY <1>10, <2>2
      <3> QED BY <1>16, <3>1 DEF DownloadsOk
    <2> QED BY <2>1, <2>2
  <1>17. DownloadsOk(jobs, up1, c1, i1, a1, p1, n) BY <1>14, <1>16 DEF DownloadsOk
  <1> QED BY <1>11, <1>15, <1>17

-----------------------------------------------------------------------------
(* One download goes on.                                                   *)
LEMMA DownloadGoes ==
  ASSUME PlanOk, PlanOk', Quiet, plan' = plan, NEW r \in Requests, job[r] # Nil, job[r].at # "queued",
         NEW j \in Downloads, job' = [job EXCEPT ![r] = j], UNCHANGED <<up, ask, queue, inflight, cache>>,
         PoolOk(pool'), \A g \in Files : g # FileOf[r] => pool'[g] = pool[g],
         Hop!Lost <= Hop!Lost', JobOk(FileOf[r], j, pool', Hop!Lost')
  PROVE  Quiet'
  <1> DEFINE f == FileOf[r]
  <1>0. f \in Files /\ Nil \notin Requests BY FilesAssumption
  <1>1. Hop!Lost \in Nat /\ Hop!Lost' \in Nat
    <2>1. left' \in [Hop!Kinds -> Nat] /\ plan.faults \in [Hop!Kinds -> Nat] /\ \A k \in Hop!Kinds : left'[k] <= plan.faults[k]
          BY DEF PlanOk
    <2>2. "loss" \in Hop!Kinds /\ "refuse" \in Hop!Kinds BY DEF Hop!Kinds
    <2> QED BY <2>1, <2>2, LostIsNat DEF Hop!Lost
  <1>2. job \in [Requests -> Downloads \cup {Nil}] BY DEF Quiet, DownloadsOk
  <1>3. job' \in [Requests -> Downloads \cup {Nil}] /\ job'[r] = j /\ \A q \in Requests \ {r} : job'[q] = job[q]
        BY <1>2
  <1>4. DownloadOk(r, job[r], up, cache, inflight, ask) BY DEF Quiet, DownloadsOk
  <1>5. ASSUME NEW q \in Requests \ {r}, job[q] # Nil PROVE FileOf[q] # f
    <2>1. inflight[FileOf[q]] = q BY <1>5 DEF Quiet, DownloadsOk, DownloadOk
    <2> QED BY <1>4, <1>5, <2>1 DEF DownloadOk
  <1>6. ASSUME NEW g \in Files, UploadOk(g, up, cache, inflight, pool) PROVE UploadOk(g, up, cache, inflight, pool')
    <2>1. CASE g = f BY <1>0, <1>4, <1>6, <2>1 DEF UploadOk, DownloadOk
    <2>2. CASE g # f
      <3>1. pool'[g] = pool[g] BY <2>2
      <3> QED BY <1>6, <3>1 DEF UploadOk, HeldFrom
    <2> QED BY <2>1, <2>2
  <1>7. UploadsOk(up, cache, inflight, pool', plan.files) BY <1>6 DEF Quiet, UploadsOk
  <1>8. ASSUME NEW q \in Requests, job'[q] # Nil
        PROVE  DownloadOk(q, job'[q], up, cache, inflight, ask) /\ JobOk(FileOf[q], job'[q], pool', Hop!Lost')
    <2>1. CASE q = r BY <1>3, <1>4, <2>1 DEF DownloadOk
    <2>2. CASE q # r
      <3>1. job'[q] = job[q] /\ job[q] \in Downloads /\ FileOf[q] \in Files BY <1>2, <1>3, <1>8, <2>2, FilesAssumption
      <3>2. DownloadOk(q, job[q], up, cache, inflight, ask) /\ JobOk(FileOf[q], job[q], pool, Hop!Lost)
            BY <1>8, <3>1 DEF Quiet, DownloadsOk
      <3>3. pool'[FileOf[q]] = pool[FileOf[q]] BY <1>5, <1>8, <2>2, <3>1
      <3>4. \A e \in 0 .. ChunksOf[FileOf[q]] : pool[FileOf[q]][e] = "held" => pool'[FileOf[q]][e] = "held" BY <3>3
      <3>5. JobOk(FileOf[q], job[q], pool', Hop!Lost') BY <1>1, <3>1, <3>2, <3>4, JobStays
      <3> QED BY <3>1, <3>2, <3>5
    <2> QED BY <2>1, <2>2
  <1>9. DownloadsOk(job', up, cache, inflight, ask, pool', Hop!Lost') BY <1>3, <1>8 DEF DownloadsOk
  <1>10. QueueOk(queue, job', plan.asks)
    <2>1. QueueOk(queue, job, plan.asks) BY DEF Quiet
    <2>2. ASSUME NEW n \in 1 .. Len(queue) PROVE queue[n] \in Requests \ {r} BY <2>1 DEF QueueOk
    <2>3. \A n \in 1 .. Len(queue) : job'[queue[n]] = job[queue[n]] BY <1>3, <2>2
    <2> QED BY <2>1, <2>3 DEF QueueOk
  <1> QED BY <1>7, <1>9, <1>10 DEF Quiet

LEMMA BegunOk ==
  ASSUME NEW f \in Files, NEW j \in Downloads, NEW p, NEW n \in Nat, JobOk(f, j, p, n), j.at = "begin"
  PROVE  [j EXCEPT !.at = "connect"] \in Downloads /\ JobOk(f, [j EXCEPT !.at = "connect"], p, n)
  <1> DEFINE k == [j EXCEPT !.at = "connect"]
  <1>1. k \in Downloads BY DEF Downloads
  <1>2. k.at = "connect" /\ k.on = j.on /\ k.parts = j.parts /\ k.try = j.try /\ k.open = j.open BY DEF Downloads
  <1> HIDE DEF k
  <1>3. JobOk(f, k, p, n) BY <1>2 DEF JobOk
  <1> QED BY <1>1, <1>3 DEF k

LEMMA ConnectedOk ==
  ASSUME NEW f \in Files, NEW j \in Downloads, NEW p, NEW n \in Nat, JobOk(f, j, p, n), j.at = "connect"
  PROVE  /\ [j EXCEPT !.at = "claim", !.open = TRUE] \in Downloads
         /\ JobOk(f, [j EXCEPT !.at = "claim", !.open = TRUE], p, n)
  <1> DEFINE k == [j EXCEPT !.at = "claim", !.open = TRUE]
  <1>1. k \in Downloads BY DEF Downloads
  <1>2. k.at = "claim" /\ k.on = j.on /\ k.parts = j.parts /\ k.try = j.try /\ k.open = TRUE BY DEF Downloads
  <1> HIDE DEF k
  <1>3. JobOk(f, k, p, n) BY <1>2 DEF JobOk
  <1> QED BY <1>1, <1>3 DEF k

LEMMA ResumedOk ==
  ASSUME NEW f \in Files, NEW j \in Downloads, NEW p, NEW n \in Nat, NEW m \in Nat, n <= m, m >= 1,
         JobOk(f, j, p, n), j.at \in {"connect", "claim"}
  PROVE  Hop!Resumed(j) \in Downloads /\ JobOk(f, Hop!Resumed(j), p, m)
  <1> DEFINE k == Hop!Resumed(j)
  <1>0. 2 \in 1 .. 2 OBVIOUS
  <1>1. k \in Downloads BY <1>0 DEF Downloads, Hop!Resumed
  <1>2. k.at = "connect" /\ k.on = j.on /\ k.parts = j.parts /\ k.try = 2 BY DEF Downloads, Hop!Resumed
  <1> HIDE DEF k
  <1>3. JobOk(f, k, p, m) BY <1>2 DEF JobOk
  <1> QED BY <1>1, <1>3 DEF k

(* A chunk is added to the chunks before it.                               *)
LEMMA CheckedOk ==
  ASSUME NEW f \in Files, NEW j \in Downloads, NEW p, NEW n \in Nat, JobOk(f, j, p, n), j.at = "claim", j.open
  PROVE  Hop!Checked(j) \in Downloads /\ JobOk(f, Hop!Checked(j), p, n)
  <1> DEFINE k == Hop!Checked(j)
             parts == IF j.on = 0 THEN j.parts ELSE Append(j.parts, j.on)
  <1>0. j.on \in Nat /\ j.parts \in Seq(Nat) /\ ChunksOf[f] \in Nat BY FilesAssumption DEF Downloads
  <1>1. parts \in Seq(Nat) BY <1>0
  <1>2. k = [j EXCEPT !.at = "ack", !.parts = parts] BY DEF Hop!Checked
  <1>3. PartsTo(parts, j.on)
    <2>1. PartsTo(j.parts, IF j.on = 0 THEN 0 ELSE j.on - 1) BY DEF JobOk
    <2>2. CASE j.on = 0 BY <2>1, <2>2
    <2>3. CASE j.on # 0
      <3>1. Len(j.parts) = j.on - 1 /\ \A i \in 1 .. j.on - 1 : j.parts[i] = i BY <2>1, <2>3 DEF PartsTo
      <3>2. parts = Append(j.parts, j.on) BY <2>3
      <3> HIDE DEF parts
      <3>3. Len(parts) = j.on BY <1>0, <3>1, <3>2
      <3>4. ASSUME NEW i \in 1 .. j.on PROVE parts[i] = i
        <4>1. CASE i = j.on BY <1>0, <3>1, <3>2, <4>1
        <4>2. CASE i # j.on
          <5>1. i \in 1 .. Len(j.parts) BY <1>0, <3>1, <4>2
          <5> QED BY <1>0, <3>1, <3>2, <5>1
        <4> QED BY <4>1, <4>2
      <3> QED BY <3>3, <3>4 DEF PartsTo
    <2> QED BY <2>2, <2>3
  <1> HIDE DEF parts
  <1>4. k \in Downloads BY <1>1, <1>2 DEF Downloads
  <1>5. k.at = "ack" /\ k.on = j.on /\ k.parts = parts /\ k.try = j.try /\ k.open = j.open BY <1>1, <1>2 DEF Downloads
  <1>6. HeldFrom(p, f, j.on + 1)
    <2>1. HeldFrom(p, f, j.on) BY DEF JobOk
    <2> QED BY <1>0, <2>1 DEF HeldFrom
  <1> HIDE DEF k
  <1>7. JobOk(f, k, p, n) BY <1>3, <1>5, <1>6 DEF JobOk
  <1> QED BY <1>4, <1>7 DEF k

(* After an acknowledgement, which the rest does not need.                 *)
LEMMA OnwardOk ==
  ASSUME NEW r \in Requests, NEW j \in Downloads, NEW p, NEW q, NEW n \in Nat, NEW m \in Nat, n <= m,
         JobOk(FileOf[r], j, p, n), j.at = "ack",
         \A e \in 0 .. ChunksOf[FileOf[r]] : j.on + 1 <= e => q[FileOf[r]][e] = p[FileOf[r]][e]
  PROVE  /\ Hop!Onward(r, j) \in Downloads /\ JobOk(FileOf[r], Hop!Onward(r, j), q, m)
         /\ Hop!Onward(r, j).try = j.try /\ Hop!Onward(r, j).at \in {"claim", "save"}
  <1> DEFINE f == FileOf[r]
             k == Hop!Onward(r, j)
  <1>0. j.on \in Nat /\ ChunksOf[f] \in Nat /\ j.try \in Nat BY FilesAssumption DEF Downloads
  <1>1. j.on <= ChunksOf[f] /\ HeldFrom(p, f, j.on + 1) /\ PartsTo(j.parts, j.on) BY DEF JobOk
  <1>2. HeldFrom(q, f, j.on + 1) BY <1>1 DEF HeldFrom
  <1>3. (j.try = 2 => m >= 1) /\ (~j.open => m >= j.try) BY <1>0 DEF JobOk
  <1>4. CASE j.on = ChunksOf[f]
    <2>1. k = [j EXCEPT !.at = "save"] BY <1>4 DEF Hop!Onward, Hop!Size
    <2>2. k \in Downloads BY <2>1 DEF Downloads
    <2>3. k.at = "save" /\ k.on = j.on /\ k.parts = j.parts /\ k.try = j.try /\ k.open = j.open BY <2>1 DEF Downloads
    <2> HIDE DEF k
    <2>4. JobOk(f, k, q, m) BY <1>1, <1>3, <1>4, <2>3 DEF JobOk
    <2> QED BY <2>2, <2>3, <2>4 DEF k
  <1>5. CASE j.on # ChunksOf[f]
    <2>1. k = [j EXCEPT !.at = "claim", !.on = j.on + 1] BY <1>5 DEF Hop!Onward, Hop!Size
    <2>0. j.on + 1 \in Nat BY <1>0
    <2>2. k \in Downloads BY <2>0, <2>1 DEF Downloads
    <2>3. k.at = "claim" /\ k.on = j.on + 1 /\ k.parts = j.parts /\ k.try = j.try /\ k.open = j.open BY <2>1 DEF Downloads
    <2>4. k.on <= ChunksOf[f] /\ k.on # 0 /\ k.on - 1 = j.on BY <1>0, <1>1, <1>5, <2>3
    <2> HIDE DEF k
    <2>5. JobOk(f, k, q, m) BY <1>1, <1>2, <1>3, <2>3, <2>4 DEF JobOk
    <2> QED BY <2>2, <2>3, <2>5 DEF k
  <1> QED BY <1>4, <1>5

LEMMA LostStaysNat == ASSUME PlanOk' PROVE Hop!Lost' \in Nat
  <1>1. left' \in [Hop!Kinds -> Nat] /\ plan'.faults \in [Hop!Kinds -> Nat] /\ \A k \in Hop!Kinds : left'[k] <= plan'.faults[k]
        BY DEF PlanOk
  <1>2. "loss" \in Hop!Kinds /\ "refuse" \in Hop!Kinds BY DEF Hop!Kinds
  <1> QED BY <1>1, <1>2 DEF Hop!Lost

(* What is known of a download that works.                                 *)
LEMMA WorkerOk ==
  ASSUME PlanOk, Quiet, NEW r \in Requests, Hop!Working(r)
  PROVE  /\ FileOf[r] \in Files /\ job[r] \in Downloads /\ job[r] # Nil /\ job[r].at # "queued"
         /\ DownloadOk(r, job[r], up, cache, inflight, ask) /\ JobOk(FileOf[r], job[r], pool, Hop!Lost)
         /\ PoolOk(pool) /\ job[r].on \in 0 .. ChunksOf[FileOf[r]]
  <1>1. FileOf[r] \in Files /\ ChunksOf[FileOf[r]] \in Nat BY FilesAssumption
  <1>2. job[r] # Nil /\ job[r].at # "queued" BY DEF Hop!Working
  <1>3. job[r] \in Downloads BY <1>2 DEF Quiet, DownloadsOk
  <1>4. DownloadOk(r, job[r], up, cache, inflight, ask) /\ JobOk(FileOf[r], job[r], pool, Hop!Lost)
        BY <1>2 DEF Quiet, DownloadsOk
  <1>5. job[r].on \in Nat /\ job[r].on <= ChunksOf[FileOf[r]] BY <1>3, <1>4 DEF Downloads, JobOk
  <1> QED BY <1>1, <1>2, <1>3, <1>4, <1>5 DEF Quiet

(* The first trouble of a download is its last.                            *)
LEMMA TroubleIsAbsorbed ==
  ASSUME PlanOk, PlanOk', Quiet, Calm', plan' = plan, NEW r \in Requests, Hop!Working(r), Hop!Troubled(r),
         job[r].at \in {"connect", "claim"}, UNCHANGED <<pool, up, cache>>, Hop!Lost <= Hop!Lost',
         Hop!Lost' >= job[r].try
  PROVE  Quiet'
  <1> DEFINE j == job[r]
  <1>1. Hop!Lost \in Nat /\ Hop!Lost' \in Nat BY LostIsNat, LostStaysNat
  <1>2. Hop!Lost' <= 1 BY DEF Calm
  <1>3. /\ FileOf[r] \in Files /\ j \in Downloads /\ j # Nil /\ j.at # "queued"
        /\ JobOk(FileOf[r], j, pool, Hop!Lost) /\ PoolOk(pool)
        BY WorkerOk
  <1>4. j.try = 1 BY <1>1, <1>2, <1>3 DEF Downloads
  <1>5. Hop!Goes(r, Hop!Resumed(j)) BY <1>4 DEF Hop!Troubled
  <1>6. job' = [job EXCEPT ![r] = Hop!Resumed(j)] /\ UNCHANGED <<ask, queue, inflight>> BY <1>5 DEF Hop!Goes
  <1>7. Hop!Resumed(j) \in Downloads /\ JobOk(FileOf[r], Hop!Resumed(j), pool, Hop!Lost')
        BY <1>1, <1>3, <1>4, ResumedOk
  <1>8. pool' = pool OBVIOUS
  <1>9. JobOk(FileOf[r], Hop!Resumed(j), pool', Hop!Lost') BY <1>7, <1>8
  <1>10. PoolOk(pool') /\ \A g \in Files : g # FileOf[r] => pool'[g] = pool[g] BY <1>3, <1>8
  <1> HIDE DEF j
  <1> QED BY <1>3, <1>6, <1>7, <1>9, <1>10, DownloadGoes DEF j

LEMMA BeginsKeep ==
  ASSUME FilesInv, NEW r \in Requests, Hop!Begins(r) PROVE FilesInv'
  <1>1. PlanOk /\ UNCHANGED <<pool, up, cache, plan, left>> BY DEF FilesInv, Hop!Begins
  <1>2. PlanOk' /\ Calm' = Calm /\ Hop!Lost' = Hop!Lost BY <1>1, NoFault
  <1> SUFFICES ASSUME Calm' PROVE Quiet' BY <1>2 DEF FilesInv
  <1>3. Quiet /\ Hop!Working(r) /\ job[r].at = "begin" BY <1>2 DEF FilesInv, Hop!Begins
  <1>4. /\ FileOf[r] \in Files /\ job[r] \in Downloads /\ job[r] # Nil /\ job[r].at # "queued"
        /\ DownloadOk(r, job[r], up, cache, inflight, ask) /\ JobOk(FileOf[r], job[r], pool, Hop!Lost) /\ PoolOk(pool)
        BY <1>1, <1>3, WorkerOk
  <1>5. Hop!Cached(FileOf[r]) = {}
    <2>1. ~InCache(cache, FileOf[r]) /\ cache \in Seq([file : Files, whole : BOOLEAN]) BY <1>3, <1>4 DEF DownloadOk, Quiet, CacheOk
    <2> QED BY <2>1 DEF Hop!Cached, InCache
  <1>6. Hop!Goes(r, [job[r] EXCEPT !.at = "connect"]) BY <1>5 DEF Hop!Begins
  <1>7. job' = [job EXCEPT ![r] = [job[r] EXCEPT !.at = "connect"]] /\ UNCHANGED <<ask, queue, inflight>> BY <1>6 DEF Hop!Goes
  <1>8. Hop!Lost \in Nat /\ Hop!Lost' \in Nat BY <1>1, <1>2, LostIsNat
  <1> DEFINE j == [job[r] EXCEPT !.at = "connect"]
  <1>9. j \in Downloads /\ JobOk(FileOf[r], j, pool, Hop!Lost) BY <1>3, <1>4, <1>8, BegunOk
  <1>10. JobOk(FileOf[r], j, pool', Hop!Lost') BY <1>1, <1>2, <1>9
  <1>11. job' = [job EXCEPT ![r] = j] BY <1>7
  <1>12. PoolOk(pool') /\ \A g \in Files : g # FileOf[r] => pool'[g] = pool[g] BY <1>1, <1>4
  <1>13. Hop!Lost <= Hop!Lost' BY <1>2, <1>8
  <1> HIDE DEF j
  <1> QED BY <1>1, <1>2, <1>3, <1>4, <1>7, <1>9, <1>10, <1>11, <1>12, <1>13, DownloadGoes

LEMMA ConnectsKeep ==
  ASSUME FilesInv, NEW r \in Requests, Hop!Connects(r) PROVE FilesInv'
  <1>1. PlanOk /\ UNCHANGED <<pool, up, cache, plan>> /\ Hop!Working(r) /\ job[r].at = "connect"
        BY DEF FilesInv, Hop!Connects
  <1>2. CASE Hop!Goes(r, [job[r] EXCEPT !.at = "claim", !.open = TRUE]) /\ UNCHANGED left
    <2>1. PlanOk' /\ Calm' = Calm /\ Hop!Lost' = Hop!Lost BY <1>1, <1>2, NoFault
    <2> SUFFICES ASSUME Calm' PROVE Quiet' BY <2>1 DEF FilesInv
    <2>2. Quiet BY <2>1 DEF FilesInv
    <2>3. /\ FileOf[r] \in Files /\ job[r] \in Downloads /\ job[r] # Nil /\ job[r].at # "queued"
          /\ JobOk(FileOf[r], job[r], pool, Hop!Lost) /\ PoolOk(pool)
          BY <1>1, <2>2, WorkerOk
    <2>4. Hop!Lost \in Nat BY <1>1, LostIsNat
    <2> DEFINE j == [job[r] EXCEPT !.at = "claim", !.open = TRUE]
    <2>5. j \in Downloads /\ JobOk(FileOf[r], j, pool, Hop!Lost) BY <1>1, <2>3, <2>4, ConnectedOk
    <2>6. job' = [job EXCEPT ![r] = j] /\ UNCHANGED <<ask, queue, inflight>> BY <1>2 DEF Hop!Goes
    <2>7. JobOk(FileOf[r], j, pool', Hop!Lost') BY <1>1, <2>1, <2>5
    <2>8. PoolOk(pool') /\ \A g \in Files : g # FileOf[r] => pool'[g] = pool[g] BY <1>1, <2>3
    <2>9. Hop!Lost <= Hop!Lost' BY <2>1, <2>4
    <2> HIDE DEF j
    <2> QED BY <1>1, <2>1, <2>2, <2>3, <2>5, <2>6, <2>7, <2>8, <2>9, DownloadGoes
  <1>3. CASE Hop!Fault("loss") /\ Hop!Troubled(r)
    <2>0. "loss" \in Hop!Kinds BY DEF Hop!Kinds
    <2>1. PlanOk' /\ (Calm' => Calm) /\ Hop!Lost' = Hop!Lost + 1 BY <1>1, <1>3, <2>0, FaultsCount
    <2> SUFFICES ASSUME Calm' PROVE Quiet' BY <2>1 DEF FilesInv
    <2>2. Quiet BY <2>1 DEF FilesInv
    <2>3. Hop!Lost \in Nat BY <1>1, LostIsNat
    <2>4. job[r] \in Downloads /\ JobOk(FileOf[r], job[r], pool, Hop!Lost) BY <1>1, <2>2, WorkerOk
    <2>5. job[r].try \in 1 .. 2 /\ (job[r].try = 2 => Hop!Lost >= 1) BY <2>4 DEF Downloads, JobOk
    <2>6. Hop!Lost <= Hop!Lost' /\ Hop!Lost' >= job[r].try BY <2>1, <2>3, <2>5
    <2> QED BY <1>1, <1>3, <2>1, <2>2, <2>6, TroubleIsAbsorbed
  <1> QED BY <1>2, <1>3 DEF Hop!Connects

LEMMA ClaimsKeep ==
  ASSUME FilesInv, NEW r \in Requests, Hop!ClaimsEntry(r) PROVE FilesInv'
  <1> DEFINE j == job[r]
             there == Hop!NodeHas(FileOf[r], j.on)
  <1>1. PlanOk /\ UNCHANGED <<pool, up, cache, plan>> /\ Hop!Working(r) /\ j.at = "claim"
        BY DEF FilesInv, Hop!ClaimsEntry
  <1>2. Hop!Lost \in Nat BY <1>1, LostIsNat
  <1>3. ASSUME Quiet
        PROVE  /\ FileOf[r] \in Files /\ j \in Downloads /\ j # Nil /\ j.at # "queued"
               /\ JobOk(FileOf[r], j, pool, Hop!Lost) /\ PoolOk(pool)
               /\ there /\ j.try \in 1 .. 2 /\ (j.try = 2 => Hop!Lost >= 1) /\ (~j.open => Hop!Lost >= j.try)
    <2>1. /\ FileOf[r] \in Files /\ j \in Downloads /\ j # Nil /\ j.at # "queued"
          /\ JobOk(FileOf[r], j, pool, Hop!Lost) /\ PoolOk(pool) /\ j.on \in 0 .. ChunksOf[FileOf[r]]
          BY <1>1, <1>3, WorkerOk
    <2>2. HeldFrom(pool, FileOf[r], j.on) BY <1>1, <2>1 DEF JobOk
    <2>3. j.on <= j.on BY <2>1, FilesAssumption
    <2>4. there BY <2>1, <2>2, <2>3 DEF HeldFrom, Hop!NodeHas
    <2>5. j.try \in 1 .. 2 BY <2>1 DEF Downloads
    <2> QED BY <1>1, <2>1, <2>4, <2>5 DEF JobOk
  <1>4. CASE j.open /\ there /\ Hop!Goes(r, Hop!Checked(j)) /\ UNCHANGED left
    <2>1. PlanOk' /\ Calm' = Calm /\ Hop!Lost' = Hop!Lost BY <1>1, <1>4, NoFault
    <2> SUFFICES ASSUME Calm' PROVE Quiet' BY <2>1 DEF FilesInv
    <2>2. Quiet BY <2>1 DEF FilesInv
    <2> DEFINE k == Hop!Checked(j)
    <2>3. k \in Downloads /\ JobOk(FileOf[r], k, pool, Hop!Lost) BY <1>1, <1>2, <1>3, <1>4, <2>2, CheckedOk
    <2>4. job' = [job EXCEPT ![r] = k] /\ UNCHANGED <<ask, queue, inflight>> BY <1>4 DEF Hop!Goes
    <2>5. JobOk(FileOf[r], k, pool', Hop!Lost') BY <1>1, <2>1, <2>3
    <2>6. PoolOk(pool') /\ \A g \in Files : g # FileOf[r] => pool'[g] = pool[g] BY <1>1, <1>3, <2>2
    <2>7. Hop!Lost <= Hop!Lost' BY <1>2, <2>1
    <2>8. job[r] # Nil /\ job[r].at # "queued" BY <1>3, <2>2
    <2> HIDE DEF k
    <2> QED BY <1>1, <2>1, <2>2, <2>3, <2>4, <2>5, <2>6, <2>7, <2>8, DownloadGoes
  <1>5. CASE Hop!TimesOut(r) /\ UNCHANGED left
    <2>1. PlanOk' /\ Calm' = Calm /\ Hop!Lost' = Hop!Lost BY <1>1, <1>5, NoFault
    <2> SUFFICES ASSUME Calm' PROVE Quiet' BY <2>1 DEF FilesInv
    <2>2. Quiet BY <2>1 DEF FilesInv
    <2>3. ~j.open /\ Hop!Troubled(r) BY <1>5 DEF Hop!TimesOut
    <2>4. Hop!Lost <= Hop!Lost' /\ Hop!Lost' >= job[r].try BY <1>2, <1>3, <2>1, <2>2, <2>3
    <2> QED BY <1>1, <2>1, <2>2, <2>3, <2>4, TroubleIsAbsorbed
  <1>6. CASE ~there /\ UNCHANGED left
    <2>1. PlanOk' /\ Calm' = Calm BY <1>1, <1>6, NoFault
    <2> QED BY <1>3, <1>6, <2>1 DEF FilesInv
  <1>7. CASE (Hop!Fault("loss") \/ Hop!Fault("refuse")) /\ Hop!Troubled(r)
    <2>0. "loss" \in Hop!Kinds /\ "refuse" \in Hop!Kinds BY DEF Hop!Kinds
    <2>1. PlanOk' /\ (Calm' => Calm) /\ Hop!Lost' = Hop!Lost + 1 BY <1>1, <1>7, <2>0, FaultsCount
    <2> SUFFICES ASSUME Calm' PROVE Quiet' BY <2>1 DEF FilesInv
    <2>2. Quiet BY <2>1 DEF FilesInv
    <2>3. Hop!Lost <= Hop!Lost' /\ Hop!Lost' >= job[r].try BY <1>2, <1>3, <2>1, <2>2
    <2> QED BY <1>1, <1>7, <2>1, <2>2, <2>3, TroubleIsAbsorbed
  <1>8. CASE Hop!Fault("alter") \/ Hop!Fault("late")
    <2>0. "alter" \in Hop!Kinds /\ "late" \in Hop!Kinds BY DEF Hop!Kinds
    <2>1. PlanOk' /\ ~Calm' BY <1>1, <1>8, <2>0, FaultsCount
    <2> QED BY <2>1 DEF FilesInv
  <1> QED BY <1>4, <1>5, <1>6, <1>7, <1>8 DEF Hop!ClaimsEntry

(* One entry of the pool changes.                                          *)
WithEntry(p, f, e, v) == [p EXCEPT ![f][e] = v]

LEMMA EntryChanges ==
  ASSUME NEW p, PoolOk(p), NEW f \in Files, NEW e \in 0 .. ChunksOf[f], NEW v, NEW q, q = WithEntry(p, f, e, v)
  PROVE  /\ PoolOk(q) /\ q[f][e] = v
         /\ \A d \in 0 .. ChunksOf[f] : d # e => q[f][d] = p[f][d]
         /\ \A g \in Files : g # f => q[g] = p[g]
  <1>1. DOMAIN p = Files /\ \A g \in Files : DOMAIN p[g] = 0 .. ChunksOf[g] BY DEF PoolOk
  <1>2. q = [g \in Files |-> IF g = f THEN [p[f] EXCEPT ![e] = v] ELSE p[g]] BY <1>1 DEF WithEntry
  <1>3. q[f] = [d \in 0 .. ChunksOf[f] |-> IF d = e THEN v ELSE p[f][d]] BY <1>1, <1>2
  <1>4. \A g \in Files : g # f => q[g] = p[g] BY <1>2
  <1>5. DOMAIN q = Files BY <1>2
  <1>6. \A g \in Files : DOMAIN q[g] = 0 .. ChunksOf[g] BY <1>1, <1>3, <1>4
  <1> QED BY <1>3, <1>4, <1>5, <1>6 DEF PoolOk

LEMMA AcksKeep ==
  ASSUME FilesInv, NEW r \in Requests, Hop!AcksEntry(r) PROVE FilesInv'
  <1> DEFINE j == job[r]
             f == FileOf[r]
             dropped == Hop!NodeDrops(f, j.on)
             cut == [Hop!Onward(r, j) EXCEPT !.open = FALSE]
  <1>1. PlanOk /\ UNCHANGED <<up, cache, plan>> /\ Hop!Working(r) /\ j.at = "ack" BY DEF FilesInv, Hop!AcksEntry
  <1>2. Hop!Lost \in Nat BY <1>1, LostIsNat
  <1>3. ASSUME Quiet
        PROVE  /\ f \in Files /\ j \in Downloads /\ j # Nil /\ j.at # "queued"
               /\ JobOk(f, j, pool, Hop!Lost) /\ PoolOk(pool) /\ j.on \in 0 .. ChunksOf[f]
        BY <1>1, <1>3, WorkerOk
  <1>4. ASSUME Quiet, pool' = dropped \/ pool' = pool
        PROVE  /\ PoolOk(pool') /\ \A g \in Files : g # f => pool'[g] = pool[g]
               /\ \A e \in 0 .. ChunksOf[f] : j.on + 1 <= e => pool'[f][e] = pool[f][e]
    <2>1. CASE pool' = pool BY <1>3, <1>4, <2>1
    <2>2. CASE pool' = dropped
      <3>1. pool' = WithEntry(pool, f, j.on, "gone") BY <2>2 DEF Hop!NodeDrops, WithEntry
      <3>2. /\ PoolOk(pool') /\ \A g \in Files : g # f => pool'[g] = pool[g]
            /\ \A d \in 0 .. ChunksOf[f] : d # j.on => pool'[f][d] = pool[f][d]
            BY <1>3, <1>4, <3>1, EntryChanges
      <3>3. \A e \in 0 .. ChunksOf[f] : j.on + 1 <= e => e # j.on BY <1>3, <1>4
      <3> QED BY <3>2, <3>3
    <2> QED BY <1>4, <2>1, <2>2
  <1>5. ASSUME PlanOk', Quiet, Calm', pool' = dropped \/ pool' = pool, Hop!Lost <= Hop!Lost',
               NEW k \in Downloads, Hop!Goes(r, k), JobOk(f, k, pool', Hop!Lost')
        PROVE  Quiet'
    <2>1. job' = [job EXCEPT ![r] = k] /\ UNCHANGED <<ask, queue, inflight>> BY <1>5 DEF Hop!Goes
    <2>2. PoolOk(pool') /\ \A g \in Files : g # f => pool'[g] = pool[g] BY <1>4, <1>5
    <2>3. job[r] # Nil /\ job[r].at # "queued" BY <1>3, <1>5
    <2> QED BY <1>1, <1>5, <2>1, <2>2, <2>3, DownloadGoes
  <1>6. ASSUME Quiet, pool' = dropped \/ pool' = pool, NEW m \in Nat, Hop!Lost <= m
        PROVE  /\ Hop!Onward(r, j) \in Downloads /\ JobOk(f, Hop!Onward(r, j), pool', m)
               /\ Hop!Onward(r, j).try = j.try /\ Hop!Onward(r, j).at \in {"claim", "save"}
    <2>1. j \in Downloads /\ JobOk(f, j, pool, Hop!Lost) BY <1>3, <1>6
    <2>2. \A e \in 0 .. ChunksOf[f] : j.on + 1 <= e => pool'[f][e] = pool[f][e] BY <1>4, <1>6
    <2> QED BY <1>1, <1>2, <1>6, <2>1, <2>2, OnwardOk
  <1>7. CASE (pool' = dropped \/ UNCHANGED pool) /\ Hop!Goes(r, Hop!Onward(r, j)) /\ UNCHANGED left
    <2>1. PlanOk' /\ Calm' = Calm /\ Hop!Lost' = Hop!Lost BY <1>1, <1>7, NoFault
    <2> SUFFICES ASSUME Calm' PROVE Quiet' BY <2>1 DEF FilesInv
    <2>2. Quiet BY <2>1 DEF FilesInv
    <2>3. Hop!Lost <= Hop!Lost' /\ Hop!Lost' \in Nat /\ (pool' = dropped \/ pool' = pool) BY <1>2, <1>7, <2>1
    <2>4. Hop!Onward(r, j) \in Downloads /\ JobOk(f, Hop!Onward(r, j), pool', Hop!Lost') BY <1>6, <2>2, <2>3
    <2> HIDE DEF j, f, dropped
    <2> QED BY <1>5, <1>7, <2>1, <2>2, <2>3, <2>4
  <1>8. CASE Hop!Fault("refuse") /\ Hop!Goes(r, Hop!Onward(r, j)) /\ UNCHANGED pool
    <2>0. "refuse" \in Hop!Kinds BY DEF Hop!Kinds
    <2>1. PlanOk' /\ (Calm' => Calm) /\ Hop!Lost' = Hop!Lost + 1 BY <1>1, <1>8, <2>0, FaultsCount
    <2> SUFFICES ASSUME Calm' PROVE Quiet' BY <2>1 DEF FilesInv
    <2>2. Quiet BY <2>1 DEF FilesInv
    <2>3. Hop!Lost <= Hop!Lost' /\ Hop!Lost' \in Nat /\ (pool' = dropped \/ pool' = pool) BY <1>2, <1>8, <2>1
    <2>4. Hop!Onward(r, j) \in Downloads /\ JobOk(f, Hop!Onward(r, j), pool', Hop!Lost') BY <1>6, <2>2, <2>3
    <2> HIDE DEF j, f, dropped
    <2> QED BY <1>5, <1>8, <2>1, <2>2, <2>3, <2>4
  <1>9. CASE Hop!Fault("loss") /\ Hop!Goes(r, cut) /\ (pool' = dropped \/ UNCHANGED pool)
    <2>0. "loss" \in Hop!Kinds BY DEF Hop!Kinds
    <2>1. PlanOk' /\ (Calm' => Calm) /\ Hop!Lost' = Hop!Lost + 1 BY <1>1, <1>9, <2>0, FaultsCount
    <2> SUFFICES ASSUME Calm' PROVE Quiet' BY <2>1 DEF FilesInv
    <2>2. Quiet BY <2>1 DEF FilesInv
    <2>3. Hop!Lost <= Hop!Lost' /\ Hop!Lost' \in Nat /\ (pool' = dropped \/ pool' = pool) BY <1>2, <1>9, <2>1
    <2> DEFINE on == Hop!Onward(r, j)
    <2>4. on \in Downloads /\ JobOk(f, on, pool', Hop!Lost') /\ on.try = j.try /\ on.at \in {"claim", "save"}
          BY <1>6, <2>2, <2>3
    <2>5. j.try \in 1 .. 2 /\ (j.try = 2 => Hop!Lost >= 1) BY <1>3, <2>2 DEF Downloads, JobOk
    <2>6. Hop!Lost' >= on.try BY <1>2, <2>1, <2>4, <2>5
    <2> HIDE DEF on
    <2>7. cut = [on EXCEPT !.open = FALSE] BY DEF on
    <2>8. cut \in Downloads BY <2>4, <2>7 DEF Downloads
    <2>9. cut.at = on.at /\ cut.on = on.on /\ cut.parts = on.parts /\ cut.try = on.try /\ cut.open = FALSE BY <2>4, <2>7 DEF Downloads
    <2> HIDE DEF j, f, dropped, cut
    <2>10. JobOk(f, cut, pool', Hop!Lost') BY <2>4, <2>6, <2>9 DEF JobOk
    <2> QED BY <1>5, <1>9, <2>1, <2>2, <2>3, <2>8, <2>10
  <1> QED BY <1>7, <1>8, <1>9 DEF Hop!AcksEntry

-----------------------------------------------------------------------------
(* Uploads.                                                                *)
LEMMA UploadsKeep ==
  ASSUME FilesInv, NEW f \in Files, Hop!Uploads(f) PROVE FilesInv'
  <1> DEFINE e == Hop!Submitted(f)
  <1>1. PlanOk /\ UNCHANGED <<ask, job, queue, inflight, cache, plan>> /\ up[f] # Nil /\ ~Hop!Sent(f)
        BY DEF FilesInv, Hop!Uploads, Hop!bot
  <1>2. \/ pool' = Hop!NodeTakes(f, e) /\ up' = [up EXCEPT ![f] = up[f] + 1] /\ UNCHANGED left
        \/ up' = [up EXCEPT ![f] = Nil] /\ (pool' = Hop!NodeTakes(f, e) \/ pool' = pool)
           /\ (UNCHANGED left \/ Hop!Fault("refuse") \/ Hop!Fault("loss"))
        BY DEF Hop!Uploads
  <1>3. Hop!Lost \in Nat BY <1>1, LostIsNat
  <1>4. PlanOk' /\ (Calm' => Calm) /\ Hop!Lost <= Hop!Lost' /\ Hop!Lost' \in Nat
    <2>1. CASE UNCHANGED left BY <1>1, <1>3, <2>1, NoFault
    <2>2. CASE Hop!Fault("refuse") \/ Hop!Fault("loss")
      <3>1. "loss" \in Hop!Kinds /\ "refuse" \in Hop!Kinds BY DEF Hop!Kinds
      <3> QED BY <1>1, <1>3, <2>2, <3>1, FaultsCount
    <2> QED BY <1>2, <2>1, <2>2
  <1> SUFFICES ASSUME Calm' PROVE Quiet' BY <1>4 DEF FilesInv
  <1>5. Quiet BY <1>4 DEF FilesInv
  <1>6. ChunksOf[f] \in Nat BY FilesAssumption
  <1>7. UploadOk(f, up, cache, inflight, pool) /\ f \in plan.files /\ up \in [Files -> Nat \cup {Nil}]
        BY <1>1, <1>5 DEF Quiet, UploadsOk
  <1>8. up[f] \in 1 .. ChunksOf[f] + 1 /\ ~SentBy(up, f) BY <1>1, <1>6, <1>7 DEF UploadOk, Hop!Sent, Hop!Size, SentBy
  <1>9. e \in 0 .. ChunksOf[f] /\ e = IF up[f] > ChunksOf[f] THEN 0 ELSE up[f] BY <1>6, <1>8 DEF Hop!Submitted, Hop!Size
  <1>10. /\ PoolOk(pool') /\ \A g \in Files : g # f => pool'[g] = pool[g]
         /\ \A g \in Files : \A d \in 0 .. ChunksOf[g] : pool[g][d] = "held" => pool'[g][d] = "held"
         /\ pool' = Hop!NodeTakes(f, e) => pool'[f][e] = "held"
    <2>0. PoolOk(pool) BY <1>5 DEF Quiet
    <2>1. CASE pool' = pool
      <3>1. pool' = Hop!NodeTakes(f, e) => pool'[f][e] = "held"
        <4>1. pool' = Hop!NodeTakes(f, e) => pool' = WithEntry(pool, f, e, "held") BY DEF Hop!NodeTakes, WithEntry
        <4> HIDE DEF e
        <4> QED BY <1>9, <2>0, <4>1, EntryChanges
      <3> QED BY <2>0, <2>1, <3>1
    <2>2. CASE pool' = Hop!NodeTakes(f, e)
      <3>1. pool' = WithEntry(pool, f, e, "held") BY <2>2 DEF Hop!NodeTakes, WithEntry
      <3> HIDE DEF e
      <3>2. /\ PoolOk(pool') /\ pool'[f][e] = "held" /\ \A g \in Files : g # f => pool'[g] = pool[g]
            /\ \A d \in 0 .. ChunksOf[f] : d # e => pool'[f][d] = pool[f][d]
            BY <1>9, <2>0, <3>1, EntryChanges
      <3>3. \A g \in Files : \A d \in 0 .. ChunksOf[g] : pool[g][d] = "held" => pool'[g][d] = "held" BY <3>2
      <3> QED BY <3>2, <3>3
    <2> QED BY <1>2, <2>1, <2>2
  <1> HIDE DEF e
  <1>11. up' \in [Files -> Nat \cup {Nil}] /\ \A g \in Files \ {f} : up'[g] = up[g] BY <1>2, <1>7, <1>8
  <1>12. ASSUME NEW q \in Requests, job[q] # Nil PROVE FileOf[q] \in Files \ {f}
    <2>1. SentBy(up, FileOf[q]) BY <1>5, <1>12 DEF Quiet, DownloadsOk, DownloadOk
    <2> QED BY <1>8, <2>1, FilesAssumption
  <1>13. ASSUME NEW g \in Files, up'[g] # Nil PROVE g \in plan.files /\ UploadOk(g, up', cache, inflight, pool')
    <2>1. CASE g # f
      <3>1. up'[g] = up[g] /\ pool'[g] = pool[g] BY <1>10, <1>11, <2>1
      <3>2. g \in plan.files /\ UploadOk(g, up, cache, inflight, pool) BY <1>5, <1>13, <3>1 DEF Quiet, UploadsOk
      <3> QED BY <3>1, <3>2 DEF UploadOk, SentBy, HeldFrom
    <2>2. CASE g = f
      <3>1. up'[f] = up[f] + 1 /\ pool' = Hop!NodeTakes(f, e)
        <4>1. up' # [up EXCEPT ![f] = Nil] BY <1>7, <1>13, <2>2
        <4> QED BY <1>2, <1>7, <4>1
      <3>2. pool'[f][e] = "held" /\ up'[f] \in 1 .. ChunksOf[f] + 2 BY <1>6, <1>8, <1>10, <3>1
      <3>3. ~InCache(cache, f) /\ \A d \in 1 .. ChunksOf[f] : d < up[f] => pool[f][d] = "held" BY <1>7, <1>8 DEF UploadOk
      <3>4. \A d \in 1 .. ChunksOf[f] : d < up[f] => pool'[f][d] = "held"
        <4>1. \A d \in 1 .. ChunksOf[f] : d \in 0 .. ChunksOf[f] BY <1>6
        <4> QED BY <1>10, <3>3, <4>1
      <3>5. CASE up[f] = ChunksOf[f] + 1
        <4>1. e = 0 BY <1>6, <1>9, <3>5
        <4>2. \A d \in 0 .. ChunksOf[f] : d = 0 \/ (d \in 1 .. ChunksOf[f] /\ d < up[f]) BY <1>6, <3>5
        <4>3. HeldFrom(pool', f, 0) BY <3>2, <3>4, <4>1, <4>2 DEF HeldFrom
        <4>4. SentBy(up', f) BY <1>6, <3>1, <3>5 DEF SentBy
        <4> QED BY <1>7, <2>2, <3>2, <4>3, <4>4 DEF UploadOk
      <3>6. CASE up[f] <= ChunksOf[f]
        <4>1. e = up[f] BY <1>6, <1>8, <1>9, <3>6
        <4>2. \A d \in 1 .. ChunksOf[f] : d < up'[f] => d = e \/ d < up[f] BY <1>6, <1>8, <3>1, <4>1
        <4>3. \A d \in 1 .. ChunksOf[f] : d < up'[f] => pool'[f][d] = "held" BY <3>2, <3>4, <4>2
        <4>4. ~SentBy(up', f) BY <1>6, <1>8, <3>1, <3>6 DEF SentBy
        <4> QED BY <1>7, <2>2, <3>2, <3>3, <4>3, <4>4 DEF UploadOk
      <3> QED BY <1>6, <1>8, <3>5, <3>6
    <2> QED BY <2>1, <2>2
  <1>14. UploadsOk(up', cache', inflight', pool', plan'.files) BY <1>1, <1>11, <1>13 DEF UploadsOk
  <1>15. ASSUME NEW q \in Requests, job[q] # Nil
         PROVE  DownloadOk(q, job[q], up', cache, inflight, ask) /\ JobOk(FileOf[q], job[q], pool', Hop!Lost')
    <2>1. FileOf[q] \in Files /\ up'[FileOf[q]] = up[FileOf[q]] BY <1>11, <1>12, <1>15
    <2>2. job[q] \in Downloads /\ DownloadOk(q, job[q], up, cache, inflight, ask) /\ JobOk(FileOf[q], job[q], pool, Hop!Lost)
          BY <1>5, <1>15 DEF Quiet, DownloadsOk
    <2>3. JobOk(FileOf[q], job[q], pool', Hop!Lost') BY <1>3, <1>4, <1>10, <2>1, <2>2, JobStays
    <2>4. DownloadOk(q, job[q], up', cache, inflight, ask) BY <2>1, <2>2 DEF DownloadOk, SentBy
    <2> QED BY <2>3, <2>4
  <1>16. DownloadsOk(job', up', cache', inflight', ask', pool', Hop!Lost') BY <1>1, <1>5, <1>15 DEF DownloadsOk, Quiet
  <1>17. CacheOk(cache', plan'.files) /\ AsksOk(ask') /\ SharedOk(inflight') /\ QueueOk(queue', job', plan'.asks)
         BY <1>1, <1>5 DEF Quiet
  <1> QED BY <1>10, <1>14, <1>16, <1>17 DEF Quiet

-----------------------------------------------------------------------------
(* Requests.                                                               *)

(* An answer to a request that has no download disturbs none.              *)
LEMMA AnswerKeeps ==
  ASSUME PlanOk', Quiet, NEW r \in Requests, ask[r].state = "none",
         UNCHANGED <<pool, up, job, queue, inflight, cache, plan, left>>,
         AsksOk(ask'), \A q \in Requests \ {r} : ask'[q] = ask[q]
  PROVE  Quiet'
  <1>1. ASSUME NEW q \in Requests, job[q] # Nil PROVE ask'[q] = ask[q]
    <2>1. ask[q] = [state |-> "waiting", on |-> q] BY <1>1 DEF Quiet, DownloadsOk, DownloadOk
    <2>2. ask[q].state = "waiting" BY <2>1
    <2> QED BY <2>2
  <1>2. Hop!Lost' = Hop!Lost BY DEF Hop!Lost
  <1>3. DownloadsOk(job, up, cache, inflight, ask, pool, Hop!Lost) BY DEF Quiet
  <1>4. DownloadsOk(job, up, cache, inflight, ask', pool, Hop!Lost) BY <1>1, <1>3 DEF DownloadsOk, DownloadOk
  <1>5. DownloadsOk(job', up', cache', inflight', ask', pool', Hop!Lost') BY <1>2, <1>4
  <1> QED BY <1>5 DEF Quiet

LEMMA AsksKeep ==
  ASSUME FilesInv, NEW r \in Requests, Hop!Asks(r) PROVE FilesInv'
  <1> DEFINE f == FileOf[r]
             waits == [Hop!NewJob EXCEPT !.at = "queued"]
             jobs == [job EXCEPT ![r] = waits]
  <1>1. PlanOk /\ UNCHANGED <<pool, up, cache, plan, left>> /\ r \in plan.asks /\ ask[r].state = "none" /\ Hop!Sent(f)
        BY DEF FilesInv, Hop!Asks
  <1>2. PlanOk' /\ Calm' = Calm /\ Hop!Lost' = Hop!Lost BY <1>1, NoFault
  <1> SUFFICES ASSUME Calm' PROVE Quiet' BY <1>2 DEF FilesInv
  <1>3. Quiet /\ Calm BY <1>2 DEF FilesInv
  <1>4. Hop!Lost \in Nat BY <1>1, LostIsNat
  <1>5. f \in Files /\ Nil \notin Requests /\ ChunksOf[f] \in Nat BY FilesAssumption
  <1>6. /\ ask \in [Requests -> [state : {"none", "waiting", "done"}, on : Requests]]
        /\ inflight \in [Files -> Requests \cup {Nil}] /\ cache \in Seq([file : Files, whole : BOOLEAN])
        /\ job \in [Requests -> Downloads \cup {Nil}]
        BY <1>3 DEF Quiet, AsksOk, SharedOk, CacheOk, DownloadsOk
  <1>7. job[r] = Nil
    <2>1. job[r] # Nil => ask[r] = [state |-> "waiting", on |-> r] BY <1>3 DEF Quiet, DownloadsOk, DownloadOk
    <2>2. [state |-> "waiting", on |-> r].state = "waiting" OBVIOUS
    <2> QED BY <1>1, <2>1, <2>2
  <1>8. SentBy(up, f) BY <1>1 DEF Hop!Sent, Hop!Size, SentBy
  <1>9. CASE Hop!Cached(f) # {}
    <2>1. Hop!Answers(r, Hop!FromCache(f)) /\ UNCHANGED <<job, queue, inflight>> BY <1>9 DEF Hop!Asks
    <2>2. \A n \in Hop!Cached(f) : cache[n].whole BY <1>3 DEF Quiet, CacheOk, Hop!Cached
    <2>3. Hop!FromCache(f) = "done" BY <2>2 DEF Hop!FromCache
    <2>4. ask' = [ask EXCEPT ![r].state = "done"] BY <2>1, <2>3 DEF Hop!Answers
    <2>5. ask[r] \in [state : {"none", "waiting", "done"}, on : Requests] BY <1>6
    <2>6. [ask[r] EXCEPT !.state = "done"] \in [state : {"none", "waiting", "done"}, on : Requests] BY <2>5
    <2>7. AsksOk(ask') /\ \A q \in Requests \ {r} : ask'[q] = ask[q] BY <1>6, <2>4, <2>6 DEF AsksOk
    <2> QED BY <1>1, <1>2, <1>3, <2>1, <2>7, AnswerKeeps
  <1>10. CASE Hop!Cached(f) = {} /\ Hop!Shares(f) # Nil
    <2>1. ask' = [ask EXCEPT ![r] = [state |-> "waiting", on |-> Hop!Shares(f)]] /\ UNCHANGED <<job, queue, inflight>>
          BY <1>10 DEF Hop!Asks
    <2>2. Hop!Shares(f) \in Requests BY <1>5, <1>6, <1>10 DEF Hop!Shares
    <2>3. AsksOk(ask') /\ \A q \in Requests \ {r} : ask'[q] = ask[q] BY <1>6, <2>1, <2>2 DEF AsksOk
    <2> QED BY <1>1, <1>2, <1>3, <2>1, <2>3, AnswerKeeps
  <1>11. CASE Hop!Cached(f) = {} /\ Hop!Shares(f) = Nil
    <2>1. QueueOk(queue, job, plan.asks) /\ queue \in Seq(Requests) BY <1>3 DEF Quiet, QueueOk
    <2>2. Len(queue) < plan.room.queue BY <1>1, <1>3, <1>7, <2>1, QueueHasRoom
    <2>3. ~(Len(queue) >= plan.room.queue)
      <3>1. Len(queue) \in Nat /\ plan.room.queue \in Nat BY <1>1, <2>1 DEF PlanOk
      <3> QED BY <2>2, <3>1
    <2>4. /\ inflight' = [inflight EXCEPT ![f] = r]
          /\ ask' = [ask EXCEPT ![r] = [state |-> "waiting", on |-> r]]
          /\ Hop!Drains(Append(queue, r), used, jobs)
          BY <1>11, <2>3 DEF Hop!Asks
    <2>5. waits \in Downloads /\ waits # Nil /\ waits.at = "queued" /\ waits.on = 0 /\ waits.parts = <<>> /\ waits.try = 1
          BY FreshJob
    <2>6. ~InCache(cache, f) BY <1>6, <1>11 DEF Hop!Cached, InCache
    <2>7. inflight[f] = Nil BY <1>11 DEF Hop!Shares
    <2>8. HeldFrom(pool, f, 0)
      <3>1. up[f] # Nil BY <1>5, <1>8, FilesAssumption DEF SentBy
      <3>2. UploadOk(f, up, cache, inflight, pool) BY <1>3, <1>5, <3>1 DEF Quiet, UploadsOk
      <3> QED BY <1>8, <2>6, <2>7, <3>2 DEF UploadOk
    <2> HIDE DEF waits
    <2>9. jobs \in [Requests -> Downloads \cup {Nil}] /\ jobs[r] = waits /\ \A q \in Requests \ {r} : jobs[q] = job[q]
          BY <1>6, <2>5
    <2>10. inflight' \in [Files -> Requests \cup {Nil}] /\ inflight'[f] = r /\ \A g \in Files \ {f} : inflight'[g] = inflight[g]
           BY <1>5, <1>6, <2>4
    <2>11. AsksOk(ask') /\ ask'[r] = [state |-> "waiting", on |-> r] /\ \A q \in Requests \ {r} : ask'[q] = ask[q]
           BY <1>6, <2>4 DEF AsksOk
    <2> HIDE DEF jobs
    <2>12. UploadsOk(up, cache, inflight', pool, plan.files)
      <3>1. ASSUME NEW g \in Files, UploadOk(g, up, cache, inflight, pool) PROVE UploadOk(g, up, cache, inflight', pool)
        <4>1. inflight[g] # Nil => inflight'[g] # Nil BY <1>5, <2>10
        <4> QED BY <3>1, <4>1 DEF UploadOk
      <3> QED BY <1>3, <3>1 DEF Quiet, UploadsOk
    <2>13. ASSUME NEW q \in Requests, jobs[q] # Nil
           PROVE  DownloadOk(q, jobs[q], up, cache, inflight', ask') /\ JobOk(FileOf[q], jobs[q], pool, Hop!Lost)
      <3>1. CASE q = r
        <4>1. JobOk(f, waits, pool, Hop!Lost) BY <1>4, <1>5, <2>5, <2>8, FreshJobOk
        <4> QED BY <1>8, <2>6, <2>9, <2>10, <2>11, <3>1, <4>1 DEF DownloadOk
      <3>2. CASE q # r
        <4>1. jobs[q] = job[q] /\ FileOf[q] \in Files BY <2>9, <3>2, FilesAssumption
        <4>2. DownloadOk(q, job[q], up, cache, inflight, ask) /\ JobOk(FileOf[q], job[q], pool, Hop!Lost)
              BY <1>3, <2>13, <4>1 DEF Quiet, DownloadsOk
        <4>3. FileOf[q] # f BY <1>5, <2>7, <4>2 DEF DownloadOk
        <4>4. inflight'[FileOf[q]] = inflight[FileOf[q]] /\ ask'[q] = ask[q] BY <2>10, <2>11, <3>2, <4>1, <4>3
        <4> QED BY <4>1, <4>2, <4>4 DEF DownloadOk
      <3> QED BY <3>1, <3>2
    <2>14. DownloadsOk(jobs, up, cache, inflight', ask', pool, Hop!Lost) BY <2>9, <2>13 DEF DownloadsOk
    <2>15. QueueOk(Append(queue, r), jobs, plan.asks)
      <3> DEFINE longer == Append(queue, r)
      <3>1. /\ longer \in Seq(Requests) /\ Len(longer) = Len(queue) + 1 /\ Len(queue) \in Nat
            /\ longer[Len(queue) + 1] = r /\ \A n \in 1 .. Len(queue) : longer[n] = queue[n]
            BY <2>1
      <3> HIDE DEF longer
      <3>2. ASSUME NEW n \in 1 .. Len(queue) PROVE queue[n] \in Requests \ {r} /\ longer[n] = queue[n] /\ jobs[longer[n]] = job[queue[n]]
            /\ queue[n] \in plan.asks /\ job[queue[n]] # Nil /\ job[queue[n]].at = "queued"
        <4>1. queue[n] \in Requests /\ queue[n] \in plan.asks /\ job[queue[n]] # Nil /\ job[queue[n]].at = "queued"
              BY <2>1 DEF QueueOk
        <4> QED BY <1>7, <2>9, <3>1, <4>1
      <3>3. \A n \in 1 .. Len(longer) : n = Len(queue) + 1 \/ n \in 1 .. Len(queue) BY <3>1
      <3>4. \A n \in 1 .. Len(longer) : longer[n] \in plan.asks /\ jobs[longer[n]] # Nil /\ jobs[longer[n]].at = "queued"
            BY <1>1, <2>5, <2>9, <3>1, <3>2, <3>3
      <3>5. \A m, n \in 1 .. Len(queue) : queue[m] = queue[n] => m = n BY <2>1 DEF QueueOk
      <3>6. \A m, n \in 1 .. Len(longer) : longer[m] = longer[n] => m = n BY <3>1, <3>2, <3>3, <3>5
      <3>7. QueueOk(longer, jobs, plan.asks) BY <3>1, <3>4, <3>6 DEF QueueOk
      <3> QED BY <3>7 DEF longer
    <2>16. QueueOk(queue', job', plan.asks) /\ DownloadsOk(job', up, cache, inflight', ask', pool, Hop!Lost)
           BY <1>4, <2>4, <2>14, <2>15, DrainKeeps
    <2>17. SharedOk(inflight') BY <2>10 DEF SharedOk
    <2>18. UploadsOk(up', cache', inflight', pool', plan'.files) BY <1>1, <2>12
    <2>19. DownloadsOk(job', up', cache', inflight', ask', pool', Hop!Lost') BY <1>1, <1>2, <2>16
    <2>20. QueueOk(queue', job', plan'.asks) BY <1>1, <2>16
    <2>21. PoolOk(pool') /\ CacheOk(cache', plan'.files) BY <1>1, <1>3 DEF Quiet
    <2> QED BY <2>11, <2>17, <2>18, <2>19, <2>20, <2>21 DEF Quiet
  <1> QED BY <1>9, <1>10, <1>11

-----------------------------------------------------------------------------
(* The end of a download.                                                  *)

(* A download that has all its chunks is saved, and saved it is.           *)
LEMMA SavesKeep ==
  ASSUME FilesInv, NEW r \in Requests, Hop!Saves(r) PROVE FilesInv'
  <1> DEFINE f == FileOf[r]
             j == job[r]
             jobs == [job EXCEPT ![r] = Nil]
             entry == [file |-> f, whole |-> TRUE]
  <1>1. PlanOk /\ UNCHANGED <<pool, up, plan>> /\ Hop!Working(r) /\ j.at = "save" BY DEF FilesInv, Hop!Saves
  <1>2. CASE Hop!Fault("disk")
    <2>0. "disk" \in Hop!Kinds BY DEF Hop!Kinds
    <2>1. PlanOk' /\ ~Calm' BY <1>1, <1>2, <2>0, FaultsCount
    <2> QED BY <2>1 DEF FilesInv
  <1>3. CASE UNCHANGED left /\ ~Hop!Fault("disk")
    <2>1. PlanOk' /\ Calm' = Calm /\ Hop!Lost' = Hop!Lost BY <1>1, <1>3, NoFault
    <2> SUFFICES ASSUME Calm' PROVE Quiet' BY <2>1 DEF FilesInv
    <2>2. Quiet /\ Calm BY <2>1 DEF FilesInv
    <2>3. Hop!Lost \in Nat /\ Nil \notin Requests BY <1>1, LostIsNat, FilesAssumption
    <2>4. /\ f \in Files /\ j \in Downloads /\ j # Nil /\ j.at # "queued"
          /\ DownloadOk(r, j, up, cache, inflight, ask) /\ JobOk(f, j, pool, Hop!Lost)
          BY <1>1, <2>2, WorkerOk
    <2>5. Hop!Complete(r)
      <3>1. ChunksOf[f] \in Nat /\ j.parts \in Seq(Nat) BY <2>4, FilesAssumption DEF Downloads
      <3>2. Len(j.parts) = ChunksOf[f] /\ \A i \in 1 .. ChunksOf[f] : j.parts[i] = i BY <1>1, <2>4 DEF JobOk, PartsTo
      <3> DEFINE all == [i \in 1 .. ChunksOf[f] |-> i]
      <3>3. all \in Seq(Nat) /\ Len(all) = ChunksOf[f]
        <4>1. \A i \in 1 .. ChunksOf[f] : i \in Nat BY <3>1
        <4> QED BY <3>1, <4>1, IsASeq
      <3>4. \A i \in 1 .. ChunksOf[f] : all[i] = i OBVIOUS
      <3> HIDE DEF all
      <3>5. j.parts = all BY <3>1, <3>2, <3>3, <3>4, SeqEqual
      <3> QED BY <3>5 DEF Hop!Complete, Hop!Size, all
    <2>6. SentBy(up, f) /\ ~InCache(cache, f) /\ inflight[f] = r /\ ask[r] = [state |-> "waiting", on |-> r]
          BY <2>4 DEF DownloadOk
    <2>7. f \in plan.files
      <3>1. up[f] # Nil BY <2>4, <2>6, FilesAssumption DEF SentBy
      <3> QED BY <2>2, <2>4, <3>1 DEF Quiet, UploadsOk
    <2>8. CacheOk(cache, plan.files) /\ cache \in Seq([file : Files, whole : BOOLEAN]) BY <2>2 DEF Quiet, CacheOk
    <2>9. Hop!Fits(f) /\ Hop!Stored(f, TRUE) = Append(cache, entry) BY <1>1, <2>2, <2>6, <2>7, <2>8, NothingGoes
    <2>10. cache' = Append(cache, entry) /\ Hop!Ends(r, "done") BY <1>3, <2>5, <2>9 DEF Hop!Saves
    <2>11. /\ \A q \in Requests : ask'[q] = IF ask[q].state = "waiting" /\ ask[q].on = r
                                             THEN [ask[q] EXCEPT !.state = "done"] ELSE ask[q]
           /\ DOMAIN ask' = Requests /\ ask' = [q \in Requests |-> ask'[q]]
           /\ Hop!Drains(queue, Hop!Freed(r, "done"), jobs)
           /\ inflight' = [inflight EXCEPT ![f] = IF inflight[f] = r THEN Nil ELSE inflight[f]]
           BY <2>2, <2>10 DEF Hop!Ends, Calm
    <2>12. entry \in [file : Files, whole : BOOLEAN] /\ entry.file = f /\ entry.whole = TRUE BY <2>4
    <2> HIDE DEF entry
    <2>13. /\ cache' \in Seq([file : Files, whole : BOOLEAN]) /\ Len(cache') = Len(cache) + 1 /\ Len(cache) \in Nat
           /\ cache'[Len(cache) + 1] = entry /\ \A n \in 1 .. Len(cache) : cache'[n] = cache[n]
           BY <2>8, <2>10, <2>12
    <2>14. \A n \in 1 .. Len(cache') : n = Len(cache) + 1 \/ n \in 1 .. Len(cache) BY <2>13
    <2>15. Len(cache) + 1 \in 1 .. Len(cache') /\ \A n \in 1 .. Len(cache) : n \in 1 .. Len(cache') BY <2>13
    <2>16. CacheOk(cache', plan.files) BY <2>7, <2>8, <2>12, <2>13, <2>14 DEF CacheOk
    <2>17. \A g : InCache(cache', g) <=> InCache(cache, g) \/ g = f BY <2>12, <2>13, <2>14, <2>15 DEF InCache
    <2>18. AsksOk(ask')
      <3>1. ask \in [Requests -> [state : {"none", "waiting", "done"}, on : Requests]] BY <2>2 DEF Quiet, AsksOk
      <3>2. ASSUME NEW q \in Requests PROVE ask'[q] \in [state : {"none", "waiting", "done"}, on : Requests]
        <4>1. ask[q] \in [state : {"none", "waiting", "done"}, on : Requests] BY <3>1
        <4>2. [ask[q] EXCEPT !.state = "done"] \in [state : {"none", "waiting", "done"}, on : Requests] BY <4>1
        <4> QED BY <2>11, <4>1, <4>2
      <3> QED BY <2>11, <3>2 DEF AsksOk
    <2>19. inflight' \in [Files -> Requests \cup {Nil}] /\ \A g \in Files \ {f} : inflight'[g] = inflight[g]
           BY <2>2, <2>4, <2>11 DEF Quiet, SharedOk
    <2>20. job \in [Requests -> Downloads \cup {Nil}] BY <2>2 DEF Quiet, DownloadsOk
    <2>21. jobs \in [Requests -> Downloads \cup {Nil}] /\ jobs[r] = Nil /\ \A q \in Requests \ {r} : jobs[q] = job[q]
           BY <2>20
    <2> HIDE DEF jobs
    <2>22. UploadsOk(up, cache', inflight', pool, plan.files)
      <3>1. ASSUME NEW g \in Files, UploadOk(g, up, cache, inflight, pool) PROVE UploadOk(g, up, cache', inflight', pool)
        <4>1. CASE g = f BY <2>6, <2>17, <3>1, <4>1 DEF UploadOk
        <4>2. CASE g # f
          <5>1. inflight'[g] = inflight[g] /\ (InCache(cache', g) <=> InCache(cache, g)) BY <2>17, <2>19, <4>2
          <5> QED BY <3>1, <5>1 DEF UploadOk
        <4> QED BY <4>1, <4>2
      <3> QED BY <2>2, <3>1 DEF Quiet, UploadsOk
    <2>23. ASSUME NEW q \in Requests, jobs[q] # Nil
           PROVE  DownloadOk(q, jobs[q], up, cache', inflight', ask') /\ JobOk(FileOf[q], jobs[q], pool, Hop!Lost)
      <3>1. q # r /\ jobs[q] = job[q] /\ FileOf[q] \in Files BY <2>21, <2>23, FilesAssumption
      <3>2. DownloadOk(q, job[q], up, cache, inflight, ask) /\ JobOk(FileOf[q], job[q], pool, Hop!Lost)
            BY <2>2, <2>23, <3>1 DEF Quiet, DownloadsOk
      <3>3. FileOf[q] # f BY <2>6, <3>1, <3>2 DEF DownloadOk
      <3>4. inflight'[FileOf[q]] = inflight[FileOf[q]] /\ ~InCache(cache', FileOf[q])
            BY <2>17, <2>19, <3>1, <3>2, <3>3 DEF DownloadOk
      <3>5. ask[q] = [state |-> "waiting", on |-> q] BY <3>2 DEF DownloadOk
      <3>6. ask[q].on = q BY <3>5
      <3>7. ask'[q] = ask[q] BY <2>11, <3>1, <3>6
      <3>8. inflight[FileOf[q]] = q /\ SentBy(up, FileOf[q]) BY <3>2 DEF DownloadOk
      <3>9. DownloadOk(q, jobs[q], up, cache', inflight', ask') BY <3>4, <3>5, <3>7, <3>8 DEF DownloadOk
      <3> QED BY <3>1, <3>2, <3>9
    <2>24. DownloadsOk(jobs, up, cache', inflight', ask', pool, Hop!Lost) BY <2>21, <2>23 DEF DownloadsOk
    <2>25. QueueOk(queue, jobs, plan.asks)
      <3>1. QueueOk(queue, job, plan.asks) BY <2>2 DEF Quiet
      <3>2. \A n \in 1 .. Len(queue) : queue[n] \in Requests \ {r} BY <2>4, <3>1 DEF QueueOk
      <3>3. \A n \in 1 .. Len(queue) : jobs[queue[n]] = job[queue[n]] BY <2>21, <3>2
      <3> QED BY <3>1, <3>3 DEF QueueOk
    <2>26. QueueOk(queue', job', plan.asks) /\ DownloadsOk(job', up, cache', inflight', ask', pool, Hop!Lost)
           BY <2>3, <2>11, <2>24, <2>25, DrainKeeps
    <2>27. SharedOk(inflight') BY <2>19 DEF SharedOk
    <2>28. PoolOk(pool') /\ CacheOk(cache', plan'.files) BY <1>1, <2>2, <2>16 DEF Quiet
    <2>29. UploadsOk(up', cache', inflight', pool', plan'.files) BY <1>1, <2>22
    <2>30. DownloadsOk(job', up', cache', inflight', ask', pool', Hop!Lost') BY <1>1, <2>1, <2>26
    <2>31. QueueOk(queue', job', plan'.asks) BY <1>1, <2>26
    <2> QED BY <2>18, <2>27, <2>28, <2>29, <2>30, <2>31 DEF Quiet
  <1>4. UNCHANGED left \/ Hop!Fault("disk") BY DEF Hop!Saves
  <1> QED BY <1>2, <1>3, <1>4

-----------------------------------------------------------------------------
LEMMA FilesStart == Hop!Init => FilesInv
  <1> SUFFICES ASSUME Hop!Init PROVE FilesInv OBVIOUS
  <1>1. /\ plan \in Transfers /\ left = plan.faults
        /\ pool = [f \in Files |-> [e \in 0 .. ChunksOf[f] |-> "none"]]
        /\ up = [f \in Files |-> IF f \in plan.files THEN 1 ELSE Nil]
        /\ ask = [r \in Requests |-> [state |-> "none", on |-> r]]
        /\ job = [r \in Requests |-> Nil] /\ queue = <<>> /\ cache = <<>>
        /\ inflight = [f \in Files |-> Nil]
        BY DEF Hop!Init, Hop!Entries, Hop!Size
  <1>2. plan \in [bot : BOOLEAN, files : SUBSET Files, asks : SUBSET Requests,
                  faults : [Hop!Kinds -> Nat], room : [pool : Nat, queue : Nat, cache : Nat]]
        BY <1>1, FilesAssumption
  <1>3. left \in [Hop!Kinds -> Nat] /\ \A k \in Hop!Kinds : left[k] <= plan.faults[k] BY <1>1, <1>2
  <1>4. PlanOk BY <1>2, <1>3 DEF PlanOk
  <1>5. PoolOk(pool) BY <1>1 DEF PoolOk
  <1>6. CacheOk(cache, plan.files) BY <1>1 DEF CacheOk
  <1>7. AsksOk(ask)
    <2>1. \A r \in Requests : [state |-> "none", on |-> r] \in [state : {"none", "waiting", "done"}, on : Requests] OBVIOUS
    <2> QED BY <1>1, <2>1 DEF AsksOk
  <1>8. SharedOk(inflight) BY <1>1 DEF SharedOk
  <1>9. ASSUME NEW f \in Files, up[f] # Nil PROVE f \in plan.files /\ UploadOk(f, up, cache, inflight, pool)
    <2>1. up[f] = 1 /\ f \in plan.files /\ ChunksOf[f] \in Nat BY <1>1, <1>9, FilesAssumption
    <2>2. ~SentBy(up, f) /\ up[f] \in 1 .. ChunksOf[f] + 2 BY <2>1 DEF SentBy
    <2>3. ~InCache(cache, f) BY <1>1 DEF InCache
    <2>4. \A e \in 1 .. ChunksOf[f] : ~(e < up[f]) BY <2>1
    <2> QED BY <2>1, <2>2, <2>3, <2>4 DEF UploadOk
  <1>10. up \in [Files -> Nat \cup {Nil}] BY <1>1
  <1>11. UploadsOk(up, cache, inflight, pool, plan.files) BY <1>9, <1>10 DEF UploadsOk
  <1>12. DownloadsOk(job, up, cache, inflight, ask, pool, Hop!Lost) BY <1>1 DEF DownloadsOk
  <1>13. QueueOk(queue, job, plan.asks) BY <1>1 DEF QueueOk
  <1> QED BY <1>4, <1>5, <1>6, <1>7, <1>8, <1>11, <1>12, <1>13 DEF FilesInv, Quiet

LEMMA FilesStep == FilesInv /\ [Hop!Next]_Hop!vars => FilesInv'
  <1> SUFFICES ASSUME FilesInv, [Hop!Next]_Hop!vars PROVE FilesInv' OBVIOUS
  <1>0. PlanOk BY DEF FilesInv
  <1>1. CASE \E f \in Files : Hop!Uploads(f) BY <1>1, UploadsKeep
  <1>2. ASSUME NEW r \in Requests, Hop!Asks(r) PROVE FilesInv' BY <1>2, AsksKeep
  <1>3. ASSUME NEW r \in Requests, Hop!PersonaClaims(r) PROVE FilesInv'
    <2>1. UNCHANGED <<plan, left>> /\ ~plan.bot BY <1>3 DEF Hop!PersonaClaims
    <2>2. PlanOk' /\ ~Calm' BY <1>0, <2>1, NoFault DEF Calm
    <2> QED BY <2>2 DEF FilesInv
  <1>4. ASSUME NEW r \in Requests, Hop!Begins(r) PROVE FilesInv' BY <1>4, BeginsKeep
  <1>5. ASSUME NEW r \in Requests, Hop!Connects(r) PROVE FilesInv' BY <1>5, ConnectsKeep
  <1>6. ASSUME NEW r \in Requests, Hop!ClaimsEntry(r) PROVE FilesInv' BY <1>6, ClaimsKeep
  <1>7. ASSUME NEW r \in Requests, Hop!AcksEntry(r) PROVE FilesInv' BY <1>7, AcksKeep
  <1>8. ASSUME NEW r \in Requests, Hop!Saves(r) PROVE FilesInv' BY <1>8, SavesKeep
  <1>9. CASE Hop!Sweeps \/ Hop!Crashes
    <2>1. plan' = plan /\ (Hop!Fault("expire") \/ Hop!Fault("crash")) BY <1>9 DEF Hop!Sweeps, Hop!Crashes
    <2>2. "expire" \in Hop!Kinds /\ "crash" \in Hop!Kinds BY DEF Hop!Kinds
    <2>3. PlanOk' /\ ~Calm' BY <1>0, <2>1, <2>2, FaultsCount
    <2> QED BY <2>3 DEF FilesInv
  <1>10. CASE UNCHANGED Hop!vars
    <2>1. UNCHANGED <<pool, up, ask, job, queue, inflight, cache, plan, left>> BY <1>10 DEF Hop!vars
    <2>2. PlanOk' /\ Calm' = Calm /\ Hop!Lost' = Hop!Lost BY <1>0, <2>1, NoFault
    <2>3. Calm => Quiet' BY <2>1, <2>2 DEF FilesInv, Quiet
    <2> QED BY <2>2, <2>3 DEF FilesInv
  <1>11. Hop!Next => Hop!Works \/ Hop!Sweeps \/ Hop!Crashes BY DEF Hop!Next
  <1>12. Hop!Works => \/ \E f \in Files : Hop!Uploads(f)
                      \/ \E r \in Requests :
                           \/ Hop!Asks(r) \/ Hop!PersonaClaims(r) \/ Hop!Begins(r) \/ Hop!Connects(r)
                           \/ Hop!ClaimsEntry(r) \/ Hop!AcksEntry(r) \/ Hop!Saves(r)
         BY DEF Hop!Works
  <1> QED BY <1>1, <1>2, <1>3, <1>4, <1>5, <1>6, <1>7, <1>8, <1>9, <1>10, <1>11, <1>12

(* One lost connection, wherever it strikes between a claim and an         *)
(* acknowledgement, or one answer that says "later", costs the bot no file *)
(* (hop-client.mjs:433-497, index.mjs:481-483, 544).                       *)
THEOREM OneLossCostsNothing == Hop!Spec => []OneLossIsAbsorbed
  <1>1. ASSUME FilesInv, NEW r \in Requests, plan.bot, ask[r].state = "failed", Hop!Roomy
        PROVE  Hop!Lost > 1 \/ Hop!Harmed
    <2>1. ~Quiet
      <3>1. AsksOk(ask) => ask[r] \in [state : {"none", "waiting", "done"}, on : Requests] BY DEF AsksOk
      <3>2. AsksOk(ask) => ask[r].state \in {"none", "waiting", "done"} BY <3>1
      <3> QED BY <1>1, <3>2 DEF Quiet
    <2>2. ~Calm BY <1>1, <2>1 DEF FilesInv
    <2>3. Hop!Lost \in Nat BY <1>1, LostIsNat DEF FilesInv
    <2> QED BY <1>1, <2>2, <2>3 DEF Calm
  <1>2. FilesInv => OneLossIsAbsorbed BY <1>1 DEF OneLossIsAbsorbed, Hop!OneLossIsAbsorbed
  <1> QED BY <1>2, FilesStart, FilesStep, PTL DEF Hop!Spec
=============================================================================
