-------------------------- MODULE LiveReply_proofs --------------------------
(***************************************************************************)
(* What the live replies of bot-core keep for any number of turns, frames, *)
(* /stop messages and failed submits: LiveInv is inductive. What one lane  *)
(* keeps is stated of its record, so that the lemmas about flushing,       *)
(* scheduling and updating need no step of the system.                     *)
(***************************************************************************)
EXTENDS LiveReply, SequenceTheorems, TLAPS

LaneType  == [state : {"none", "sending", "live", "failed", "closed"},
              ack : {"pending", "acked", "failed"}, fetched : BOOLEAN, final : BOOLEAN,
              flight : 0 .. MaxFrames, pend : 0 .. MaxFrames, last : 0 .. MaxFrames,
              made : 0 .. MaxFrames, timer : BOOLEAN, beats : BOOLEAN, ttl : BOOLEAN]
TakerType == [pc : {"idle", "none", "begun", "drain", "settle", "final", "done"},
              p : 0 .. Turns, edit : BOOLEAN, from : Nat]

TypeInv ==
  /\ turn \in 0 .. Turns /\ phase \in {"idle", "running", "delivering"}
  /\ thinking \in BOOLEAN /\ slot \in 0 .. Turns
  /\ lane \in [Placeholders -> LaneType] /\ taker \in [Takers -> TakerType]
  /\ wire \in [Placeholders -> Seq(Nat)] /\ parts \in [1 .. Turns -> Seq(Nat)]

(* The frames of a lane: what is queued is newer than what is in flight,   *)
(* which is newer than what the node has. A retired lane sends no more.    *)
Below(w, n) == \A i \in 1 .. Len(w) : w[i] < n
Rising(w)   == \A i \in 1 .. Len(w) - 1 : w[i] < w[i + 1]
InFrames(L, w) ==
  /\ Rising(w)
  /\ L.pend # None => L.pend <= L.made /\ L.pend > L.flight /\ Below(w, L.pend)
  /\ L.flight # None => L.flight <= L.made /\ Below(w, L.flight)
  /\ L.state # "closed" => Below(w, L.made + 1)
  /\ L.state = "closed" => L.final /\ L.flight = None /\ L.pend = None /\ ~L.timer
  /\ L.state \in {"none", "sending", "failed", "closed"} => ~L.beats
  /\ L.ttl => L.beats
  /\ L.final => L.state \in {"live", "closed"}

(* Edits go out for a placeholder that its peer has.                       *)
Reached(L, w) ==
  /\ L.timer => L.ack = "acked"
  /\ L.ack = "acked" \/ L.flight # None \/ w # <<>> => L.fetched

LanesInv == \A p \in Placeholders : InFrames(lane[p], wire[p]) /\ Reached(lane[p], wire[p])

(* Who retires a placeholder.                                              *)
Holding(k) == k.pc \in {"begun", "drain", "settle", "final"}
Holds(k, L) ==
  /\ k.pc = "begun" => L.state \in {"sending", "live", "failed"} /\ ~L.final
  /\ k.pc \in {"drain", "settle", "final"} =>
       L.state = "live" /\ L.final /\ L.pend = None /\ ~L.timer /\ ~L.beats
  /\ k.pc \in {"settle", "final"} => L.flight = None
  /\ k.pc = "final" /\ k.edit => L.fetched

TakersInv ==
  /\ \A t \in Takers : Holding(taker[t]) =>
       taker[t].p \in Placeholders /\ Holds(taker[t], lane[taker[t].p])
  /\ \A t, u \in Takers :
       Holding(taker[t]) /\ Holding(taker[u]) /\ taker[t].p = taker[u].p => t = u

SlotInv ==
  slot # None =>
    /\ lane[slot].state \in {"sending", "live", "failed"} /\ ~lane[slot].final
    /\ \A t \in Takers : Holding(taker[t]) => taker[t].p # slot

(* Somebody is about to retire what is shown or about to be shown.         *)
Attended(p) ==
  \/ slot = p /\ (lane[p].beats => lane[p].ttl)
  \/ \E t \in Takers : taker[t].pc = "begun" /\ taker[t].p = p
BeatsInv == \A p \in Placeholders : lane[p].beats \/ lane[p].state = "sending" => Attended(p)

(* The parts of the answer of the turn that delivers.                      *)
Ordered(s) == \A i \in 1 .. Len(s) : s[i] = i
AnswerInv ==
  /\ phase = "delivering" <=> taker[Answer].pc # "idle"
  /\ phase # "idle" \/ thinking => turn # 0
  /\ \A t \in 1 .. Turns : Ordered(parts[t]) /\ (t > turn => parts[t] = <<>>)
  /\ phase = "running" \/ Holding(taker[Answer]) => parts[turn] = <<>>
  /\ Holding(taker[Answer]) => taker[Answer].from = 1
  /\ taker[Answer].pc \in {"none", "done"} => taker[Answer].from = Len(parts[turn]) + 1

LiveInv == TypeInv /\ LanesInv /\ TakersInv /\ SlotInv /\ BeatsInv /\ AnswerInv

-----------------------------------------------------------------------------
(* A lane by itself.                                                       *)
LaneOK(L, w) == L \in LaneType /\ InFrames(L, w) /\ Reached(L, w)

(* A step of a lane that changes nothing that others go by.                *)
Alike(L, M) ==
  /\ M.state = L.state /\ M.final = L.final /\ M.beats = L.beats /\ M.ttl = L.ttl
  /\ L.fetched => M.fetched
  /\ L.final /\ L.pend = None => M.pend = None
  /\ L.final /\ ~L.timer => ~M.timer
  /\ L.final /\ L.flight = None => M.flight = None

LEMMA FlushKeeps ==
  ASSUME NEW L, NEW w \in Seq(Nat), LaneOK(L, w), L.timer
  PROVE  LaneOK(Flush(L), w) /\ Alike(L, Flush(L))
<1>1. L \in LaneType
  BY DEF LaneOK
<1>2. CASE StartsFlight(L)
  <2> DEFINE M == [L EXCEPT !.flight = L.pend, !.pend = None, !.timer = FALSE]
  <2>1. Flush(L) = M
    BY <1>2 DEF Flush
  <2>2. M \in LaneType
    <3>1. L.pend \in 0 .. MaxFrames /\ None \in 0 .. MaxFrames
      BY <1>1, ConstantsAssumption DEF ConstantsAssumption, LaneType, None
    <3>2. QED
      BY <1>1, <3>1 DEF LaneType
  <2>3. /\ M.flight = L.pend /\ M.pend = None /\ M.timer = FALSE /\ M.state = L.state /\ M.made = L.made
        /\ M.beats = L.beats /\ M.ttl = L.ttl /\ M.ack = L.ack /\ M.fetched = L.fetched /\ M.final = L.final
    BY <1>1 DEF LaneType
  <2> HIDE DEF M
  <2>4. QED
    BY <1>2, <2>1, <2>2, <2>3 DEF LaneOK, InFrames, Reached, Alike, StartsFlight
<1>3. CASE ~StartsFlight(L)
  <2> DEFINE M == [L EXCEPT !.pend = IF L.final \/ L.flight # None THEN @ ELSE None, !.timer = FALSE]
  <2>1. Flush(L) = M
    BY <1>3 DEF Flush
  <2>2. M \in LaneType
    BY <1>1, ConstantsAssumption DEF ConstantsAssumption, LaneType, None
  <2>3. /\ M.flight = L.flight /\ M.pend \in {L.pend, None} /\ M.timer = FALSE /\ M.state = L.state
        /\ M.made = L.made /\ M.beats = L.beats /\ M.ttl = L.ttl /\ M.ack = L.ack
        /\ M.fetched = L.fetched /\ M.final = L.final
    BY <1>1 DEF LaneType
  <2> HIDE DEF M
  <2>4. QED
    BY <1>3, <2>1, <2>2, <2>3 DEF LaneOK, InFrames, Reached, Alike
<1>4. QED
  BY <1>2, <1>3

LEMMA ScheduleKeeps ==
  ASSUME NEW L, NEW w \in Seq(Nat), LaneOK(L, w)
  PROVE  LaneOK(Schedule(L), w) /\ Alike(L, Schedule(L))
<1>1. L \in LaneType
  BY DEF LaneOK
<1>2. CASE Schedule(L) = L
  BY <1>2 DEF LaneOK, Alike
<1>3. CASE Schedule(L) # L
  <2>1. /\ ~L.final
        /\ \/ L.ack = "failed" /\ Schedule(L) = [L EXCEPT !.pend = None]
           \/ L.ack = "acked" /\ L.state # "closed" /\ Schedule(L) = [L EXCEPT !.timer = TRUE]
    <3>1. ~(L.final \/ L.flight # None \/ L.timer) /\ ~Held(L)
      BY <1>3 DEF Schedule
    <3>2. L.ack \in {"acked", "failed"}
      BY <1>1, <3>1 DEF Held, LaneType
    <3>3. Schedule(L) = IF L.ack = "failed" THEN [L EXCEPT !.pend = None] ELSE [L EXCEPT !.timer = TRUE]
      BY <3>1 DEF Schedule
    <3>4. L.state # "closed"
      BY <3>1 DEF LaneOK, InFrames
    <3>5. QED
      BY <3>1, <3>2, <3>3, <3>4
  <2>2. CASE L.ack = "failed" /\ Schedule(L) = [L EXCEPT !.pend = None]
    BY <1>1, <2>1, <2>2, ConstantsAssumption DEF ConstantsAssumption, LaneOK, InFrames, Reached, Alike, LaneType, None
  <2>3. CASE L.ack = "acked" /\ L.state # "closed" /\ Schedule(L) = [L EXCEPT !.timer = TRUE]
    BY <1>1, <2>1, <2>3, ConstantsAssumption DEF ConstantsAssumption, LaneOK, InFrames, Reached, Alike, LaneType, None
  <2>4. QED
    BY <2>1, <2>2, <2>3
<1>4. QED
  BY <1>2, <1>3

(* A step of the lane of p that changes nothing others go by.              *)
LEMMA LaneMoves ==
  ASSUME LiveInv, NEW p \in Placeholders, NEW L, LaneBecomes(p, L), LaneOK(L, wire'[p]),
         Alike(lane[p], L), wire' \in [Placeholders -> Seq(Nat)],
         \A q \in Placeholders \ {p} : wire'[q] = wire[q],
         UNCHANGED <<turn, phase, thinking, slot, taker, parts>>
  PROVE  LiveInv'
<1>1. /\ lane' \in [Placeholders -> LaneType] /\ lane'[p] = L
      /\ \A q \in Placeholders \ {p} : lane'[q] = lane[q]
  BY DEF LiveInv, TypeInv, LaneBecomes, LaneOK
<1>2. TypeInv'
  BY <1>1 DEF LiveInv, TypeInv
<1>3. LanesInv'
  <2>1. SUFFICES ASSUME NEW q \in Placeholders
                 PROVE  InFrames(lane'[q], wire'[q]) /\ Reached(lane'[q], wire'[q])
    BY DEF LanesInv
  <2>2. CASE q = p
    BY <1>1, <2>2 DEF LaneOK
  <2>3. CASE q # p
    BY <1>1, <2>3 DEF LiveInv, LanesInv
  <2>4. QED
    BY <2>2, <2>3
<1>4. TakersInv'
  <2>1. ASSUME NEW t \in Takers, Holding(taker[t])
        PROVE  taker[t].p \in Placeholders /\ Holds(taker[t], lane'[taker[t].p])
    <3>1. taker[t].p \in Placeholders /\ Holds(taker[t], lane[taker[t].p])
      BY <2>1 DEF LiveInv, TakersInv
    <3>2. CASE taker[t].p = p
      BY <1>1, <3>1, <3>2 DEF Holds, Alike
    <3>3. CASE taker[t].p # p
      BY <1>1, <3>1, <3>3
    <3>4. QED
      BY <3>1, <3>2, <3>3
  <2>2. QED
    BY <2>1 DEF LiveInv, TakersInv
<1>5. SlotInv'
  BY <1>1 DEF LiveInv, SlotInv, Alike, TypeInv, Placeholders, None
<1>6. BeatsInv'
  BY <1>1 DEF LiveInv, BeatsInv, Attended, Alike
<1>7. AnswerInv'
  BY DEF LiveInv, AnswerInv
<1>8. QED
  BY <1>2, <1>3, <1>4, <1>5, <1>6, <1>7 DEF LiveInv

LEMMA FrameKeeps ==
  ASSUME LiveInv, NEW p \in Placeholders, Frame(p)
  PROVE  LiveInv'
<1> DEFINE L == lane[p]
           M == [L EXCEPT !.pend = L.made + 1, !.made = @ + 1]
<1>1. /\ L.beats /\ L.made < MaxFrames /\ LaneBecomes(p, Update(L))
      /\ UNCHANGED <<turn, phase, thinking, slot, taker, wire, parts>>
  BY DEF Frame
<1>2. L \in LaneType /\ wire[p] \in Seq(Nat) /\ InFrames(L, wire[p]) /\ Reached(L, wire[p])
  BY DEF LiveInv, TypeInv, LanesInv
<1>3. CASE L.final
  <2>1. Update(L) = L
    BY <1>3 DEF Update
  <2>2. LaneOK(L, wire'[p]) /\ Alike(L, L)
    BY <1>1, <1>2 DEF LaneOK, Alike
  <2>3. QED
    BY <1>1, <2>1, <2>2, LaneMoves DEF LiveInv, TypeInv
<1>4. CASE ~L.final
  <2>1. Update(L) = Schedule(M)
    BY <1>4 DEF Update
  <2>2. M \in LaneType
    <3>1. L.made + 1 \in 0 .. MaxFrames
      BY <1>1, <1>2, ConstantsAssumption DEF ConstantsAssumption, LaneType
    <3>2. QED
      BY <1>2, <3>1 DEF LaneType
  <2>3. /\ M.pend = L.made + 1 /\ M.made = L.made + 1 /\ M.flight = L.flight /\ M.state = L.state
        /\ M.timer = L.timer /\ M.beats = L.beats /\ M.ttl = L.ttl /\ M.ack = L.ack
        /\ M.fetched = L.fetched /\ M.final = L.final
    BY <1>2 DEF LaneType
  <2> HIDE DEF M
  <2>4. LaneOK(M, wire[p])
    <3>1. L.made \in Nat /\ L.flight \in Nat /\ (L.flight # None => L.flight <= L.made)
      BY <1>2, ConstantsAssumption DEF ConstantsAssumption, LaneType, InFrames
    <3>2. L.state \notin {"none", "sending", "failed", "closed"} /\ Below(wire[p], L.made + 1)
      BY <1>1, <1>2 DEF InFrames
    <3>3. Below(wire[p], M.made + 1) /\ Below(wire[p], M.pend)
      BY <1>2, <2>3, <3>1, <3>2 DEF Below
    <3>4. QED
      BY <1>1, <1>2, <2>2, <2>3, <3>1, <3>2, <3>3 DEF LaneOK, InFrames, Reached, None
  <2>5. LaneOK(Schedule(M), wire[p]) /\ Alike(M, Schedule(M))
    BY <1>2, <2>4, ScheduleKeeps
  <2>6. Alike(L, Schedule(M))
    BY <1>4, <2>3, <2>5 DEF Alike
  <2> HIDE DEF L
  <2>7. QED
    BY <1>1, <2>1, <2>5, <2>6, LaneMoves DEF LiveInv, TypeInv, L
<1>5. QED
  BY <1>3, <1>4

LEMMA FlushDueKeeps ==
  ASSUME LiveInv, NEW p \in Placeholders, FlushDue(p)
  PROVE  LiveInv'
<1>1. /\ lane[p].timer /\ LaneBecomes(p, Flush(lane[p]))
      /\ UNCHANGED <<turn, phase, thinking, slot, taker, wire, parts>>
  BY DEF FlushDue
<1>2. LaneOK(lane[p], wire[p]) /\ wire[p] \in Seq(Nat)
  BY DEF LiveInv, TypeInv, LanesInv, LaneOK
<1>3. LaneOK(Flush(lane[p]), wire[p]) /\ Alike(lane[p], Flush(lane[p]))
  BY <1>1, <1>2, FlushKeeps
<1>4. QED
  BY <1>1, <1>3, LaneMoves DEF LiveInv, TypeInv

(* The node takes the frame in flight: it is newer than what it has.       *)
LEMMA FrameSettlesKeeps ==
  ASSUME LiveInv, NEW p \in Placeholders, FrameSettles(p)
  PROVE  LiveInv'
<1> DEFINE L == lane[p]
           w == wire[p]
<1>1. L.flight # None /\ UNCHANGED <<turn, phase, thinking, slot, taker, parts>>
  BY DEF FrameSettles
<1>2. L \in LaneType /\ w \in Seq(Nat) /\ InFrames(L, w) /\ Reached(L, w) /\ wire \in [Placeholders -> Seq(Nat)]
  BY DEF LiveInv, TypeInv, LanesInv
<1>3. CASE wire' = [wire EXCEPT ![p] = Append(@, L.flight)] /\ LaneBecomes(p, Schedule([L EXCEPT !.flight = None, !.last = L.flight]))
  <2> DEFINE M == [L EXCEPT !.flight = None, !.last = L.flight]
             v == Append(w, L.flight)
  <2>1. M \in LaneType
    <3>1. L.flight \in 0 .. MaxFrames /\ None \in 0 .. MaxFrames
      BY <1>2, ConstantsAssumption DEF ConstantsAssumption, LaneType, None
    <3>2. QED
      BY <1>2, <3>1 DEF LaneType
  <2>2. /\ M.pend = L.pend /\ M.made = L.made /\ M.flight = None /\ M.state = L.state
        /\ M.timer = L.timer /\ M.beats = L.beats /\ M.ttl = L.ttl /\ M.ack = L.ack
        /\ M.fetched = L.fetched /\ M.final = L.final
    BY <1>2 DEF LaneType
  <2>3. L.flight \in Nat /\ L.pend \in Nat /\ L.made \in Nat
    BY <1>2, ConstantsAssumption DEF ConstantsAssumption, LaneType
  <2>4. /\ v \in Seq(Nat) /\ Len(v) = Len(w) + 1 /\ Len(w) \in Nat
        /\ \A i \in 1 .. Len(w) : v[i] = w[i] /\ w[i] \in Nat
        /\ v[Len(w) + 1] = L.flight
    BY <1>2, <2>3
  <2>5. v # <<>>
    BY <2>4
  <2>6. wire' \in [Placeholders -> Seq(Nat)] /\ wire'[p] = v /\ \A q \in Placeholders \ {p} : wire'[q] = wire[q]
    BY <1>2, <1>3, <2>4
  <2> HIDE DEF M, v
  <2>7. Rising(v)
    <3>1. L.flight <= L.made /\ Below(w, L.flight) /\ Rising(w)
      BY <1>1, <1>2 DEF InFrames
    <3>2. SUFFICES ASSUME NEW i \in 1 .. Len(w) PROVE v[i] < v[i + 1]
      BY <2>4 DEF Rising
    <3>3. CASE i = Len(w)
      BY <2>4, <3>1, <3>3 DEF Below
    <3>4. CASE i # Len(w)
      BY <2>4, <3>1, <3>4 DEF Rising
    <3>5. QED
      BY <3>3, <3>4
  <2>8. /\ L.pend # None => Below(v, L.pend)
        /\ L.state # "closed" => Below(v, L.made + 1)
    <3>1. \A n \in Nat : Below(w, n) /\ L.flight < n => Below(v, n)
      <4>1. SUFFICES ASSUME NEW n \in Nat, Below(w, n), L.flight < n, NEW i \in 1 .. Len(v)
                     PROVE  v[i] < n
        BY DEF Below
      <4>2. i \in 1 .. Len(w) \/ i = Len(w) + 1
        BY <2>4
      <4>3. CASE i \in 1 .. Len(w)
        BY <2>4, <4>1, <4>3 DEF Below
      <4>4. CASE i = Len(w) + 1
        BY <2>4, <4>1, <4>4
      <4>5. QED
        BY <4>2, <4>3, <4>4
    <3>2. /\ L.pend # None => L.flight < L.pend /\ Below(w, L.pend)
          /\ L.state # "closed" => L.flight < L.made + 1 /\ Below(w, L.made + 1)
      BY <1>1, <1>2, <2>3 DEF InFrames
    <3>3. QED
      BY <2>3, <3>1, <3>2
  <2>9. LaneOK(M, v)
    BY <1>1, <1>2, <2>1, <2>2, <2>3, <2>7, <2>8 DEF LaneOK, InFrames, Reached, None
  <2>10. LaneOK(Schedule(M), v) /\ Alike(M, Schedule(M))
    BY <2>4, <2>9, ScheduleKeeps
  <2>11. Alike(L, Schedule(M))
    BY <1>1, <2>2, <2>10 DEF Alike
  <2> HIDE DEF L, w
  <2>12. QED
    BY <1>1, <1>3, <2>6, <2>10, <2>11, LaneMoves DEF L, M
<1>4. CASE wire' = wire /\ LaneBecomes(p, Schedule([L EXCEPT !.flight = None]))
  <2> DEFINE M == [L EXCEPT !.flight = None]
  <2>1. M \in LaneType
    <3>1. None \in 0 .. MaxFrames
      BY ConstantsAssumption DEF ConstantsAssumption, None
    <3>2. QED
      BY <1>2, <3>1 DEF LaneType
  <2>2. /\ M.pend = L.pend /\ M.made = L.made /\ M.flight = None /\ M.state = L.state
        /\ M.timer = L.timer /\ M.beats = L.beats /\ M.ttl = L.ttl /\ M.ack = L.ack
        /\ M.fetched = L.fetched /\ M.final = L.final
    BY <1>2 DEF LaneType
  <2> HIDE DEF M
  <2>3. LaneOK(M, w)
    BY <1>1, <1>2, <2>1, <2>2 DEF LaneOK, InFrames, Reached, LaneType, None
  <2>4. LaneOK(Schedule(M), w) /\ Alike(M, Schedule(M))
    BY <1>2, <2>3, ScheduleKeeps
  <2>5. Alike(L, Schedule(M))
    BY <1>1, <2>2, <2>4 DEF Alike
  <2> HIDE DEF L
  <2>6. QED
    BY <1>1, <1>2, <1>4, <2>4, <2>5, LaneMoves DEF L, M
<1>5. QED
  BY <1>3, <1>4 DEF FrameSettles

LEMMA FetchKeeps ==
  ASSUME LiveInv, NEW p \in Placeholders, Fetch(p) \/ AckArrives(p) \/ AckTimesOut(p)
  PROVE  LiveInv'
<1> DEFINE L == lane[p]
<1>1. UNCHANGED <<turn, phase, thinking, slot, taker, wire, parts>>
  BY DEF Fetch, AckArrives, AckTimesOut
<1>2. L \in LaneType /\ wire[p] \in Seq(Nat) /\ InFrames(L, wire[p]) /\ Reached(L, wire[p])
      /\ wire \in [Placeholders -> Seq(Nat)] /\ 0 \in 0 .. MaxFrames
  BY ConstantsAssumption DEF ConstantsAssumption, LiveInv, TypeInv, LanesInv
<1>3. CASE Fetch(p)
  <2>1. LaneBecomes(p, [L EXCEPT !.fetched = TRUE])
    BY <1>3 DEF Fetch
  <2>2. LaneOK([L EXCEPT !.fetched = TRUE], wire[p]) /\ Alike(L, [L EXCEPT !.fetched = TRUE])
    BY <1>2 DEF LaneOK, Alike, LaneType, InFrames, Reached
  <2> HIDE DEF L
  <2>3. QED
    BY <1>1, <1>2, <2>1, <2>2, LaneMoves DEF L
<1>4. CASE AckArrives(p)
  <2> DEFINE M == [L EXCEPT !.ack = "acked"]
  <2>1. LaneBecomes(p, Schedule(M)) /\ L.fetched
    BY <1>4 DEF AckArrives
  <2>2. LaneOK(M, wire[p]) /\ Alike(L, M)
    BY <1>2, <2>1 DEF LaneOK, Alike, LaneType, InFrames, Reached
  <2> HIDE DEF M
  <2>3. LaneOK(Schedule(M), wire[p]) /\ Alike(M, Schedule(M))
    BY <1>2, <2>2, ScheduleKeeps
  <2>4. Alike(L, Schedule(M))
    BY <2>2, <2>3 DEF Alike
  <2> HIDE DEF L
  <2>5. QED
    BY <1>1, <1>2, <2>1, <2>3, <2>4, LaneMoves DEF L
<1>5. CASE AckTimesOut(p)
  <2> DEFINE M == [L EXCEPT !.ack = "failed", !.pend = None]
  <2>1. LaneBecomes(p, M) /\ L.ack = "pending"
    BY <1>5 DEF AckTimesOut
  <2>2. M \in LaneType
    BY <1>2 DEF LaneType, None
  <2>3. LaneOK(M, wire[p]) /\ Alike(L, M)
    BY <1>2, <2>1, <2>2 DEF LaneOK, Alike, LaneType, InFrames, Reached, None
  <2> HIDE DEF L, M
  <2>4. QED
    BY <1>1, <1>2, <2>1, <2>3, LaneMoves DEF L
<1>6. QED
  BY <1>3, <1>4, <1>5

-----------------------------------------------------------------------------
(* The turn and its placeholder.                                           *)
LEMMA Apart == Answer # Stop /\ Answer \notin 1 .. Turns /\ Answer \in Takers /\ Stop \in Takers
              /\ Placeholders \subseteq Takers /\ Stop \notin 1 .. Turns
BY ConstantsAssumption DEF ConstantsAssumption, Answer, Stop, Takers, Placeholders

(* A step that leaves the lanes and the takers alone.                      *)
LEMMA TurnMoves ==
  ASSUME LiveInv, UNCHANGED <<slot, lane, taker, wire, parts>>,
         turn' \in 0 .. Turns, turn' >= turn, phase' \in {"idle", "running"}, phase # "delivering",
         thinking' \in BOOLEAN, phase' # "idle" \/ thinking' => turn' # 0,
         phase' = "running" => turn' > turn \/ (phase = "running" /\ turn' = turn)
  PROVE  LiveInv'
<1>1. TypeInv' /\ LanesInv' /\ TakersInv' /\ SlotInv' /\ BeatsInv'
  BY DEF LiveInv, TypeInv, LanesInv, TakersInv, SlotInv, BeatsInv, Attended
<1>2. turn \in Nat /\ turn' \in Nat /\ Turns \in Nat
  BY ConstantsAssumption DEF ConstantsAssumption, LiveInv, TypeInv
<1>3. taker[Answer].pc = "idle"
  BY DEF LiveInv, AnswerInv
<1>4. AnswerInv'
  <2>1. \A t \in 1 .. Turns : Ordered(parts[t]) /\ (t > turn' => parts[t] = <<>>)
    BY <1>2 DEF LiveInv, AnswerInv
  <2>2. phase' = "running" => parts[turn'] = <<>>
    BY <1>2 DEF LiveInv, AnswerInv
  <2>3. QED
    BY <1>3, <2>1, <2>2 DEF AnswerInv, Holding
<1>5. QED
  BY <1>1, <1>4 DEF LiveInv

LEMMA TurnBeginsKeeps ==
  ASSUME LiveInv, TurnBegins \/ TurnAbandoned
  PROVE  LiveInv'
<1>1. turn \in 0 .. Turns /\ thinking \in BOOLEAN /\ Turns \in Nat
  BY ConstantsAssumption DEF ConstantsAssumption, LiveInv, TypeInv
<1>2. CASE TurnBegins
  <2>1. /\ phase = "idle" /\ turn < Turns /\ turn' = turn + 1 /\ phase' = "running" /\ thinking' = TRUE
        /\ UNCHANGED <<slot, lane, taker, wire, parts>>
    BY <1>2 DEF TurnBegins
  <2>2. turn' \in 0 .. Turns /\ turn' > turn /\ turn' >= turn /\ turn' # 0
    BY <1>1, <2>1
  <2>3. /\ phase' \in {"idle", "running"} /\ phase # "delivering" /\ thinking' \in BOOLEAN
        /\ phase' # "idle" \/ thinking' => turn' # 0
        /\ phase' = "running" => turn' > turn \/ (phase = "running" /\ turn' = turn)
    <3>1. thinking' \in BOOLEAN
      BY <2>1
    <3>2. phase' \in {"idle", "running"} /\ phase # "delivering"
      BY <2>1
    <3>3. QED
      BY <2>2, <3>1, <3>2
  <2>4. QED
    BY <2>1, <2>2, <2>3, TurnMoves
<1>3. CASE TurnAbandoned
  BY <1>1, <1>3, TurnMoves DEF TurnAbandoned, LiveInv, AnswerInv
<1>4. QED
  BY <1>2, <1>3

LEMMA ThinkingFiresKeeps ==
  ASSUME LiveInv, ThinkingFires
  PROVE  LiveInv'
<1>1. /\ thinking /\ thinking' = FALSE /\ UNCHANGED <<turn, phase, taker, wire, parts>>
  BY DEF ThinkingFires
<1>2. AnswerInv'
  BY <1>1 DEF LiveInv, AnswerInv
<1>3. CASE ~(SlotFree /\ lane[turn].state = "none")
  <2>1. UNCHANGED <<slot, lane>>
    BY <1>3 DEF ThinkingFires
  <2>2. TypeInv' /\ LanesInv' /\ TakersInv' /\ SlotInv' /\ BeatsInv'
    BY <1>1, <2>1 DEF LiveInv, TypeInv, LanesInv, TakersInv, SlotInv, BeatsInv, Attended
  <2>3. QED
    BY <1>2, <2>2 DEF LiveInv
<1>4. CASE SlotFree /\ lane[turn].state = "none"
  <2> DEFINE L == lane[turn]
             M == [L EXCEPT !.state = "sending"]
  <2>1. slot = None /\ slot' = turn /\ lane' = [lane EXCEPT ![turn] = M]
    BY <1>4 DEF ThinkingFires, SlotFree, LaneBecomes
  <2>2. turn \in Placeholders
    BY <1>1 DEF LiveInv, TypeInv, AnswerInv, Placeholders
  <2>3. L \in LaneType /\ InFrames(L, wire[turn]) /\ Reached(L, wire[turn]) /\ L.state = "none"
    BY <1>4, <2>2 DEF LiveInv, TypeInv, LanesInv
  <2>4. /\ M \in LaneType /\ InFrames(M, wire[turn]) /\ Reached(M, wire[turn])
        /\ M.state = "sending" /\ ~M.beats /\ M.final = L.final
    BY <2>3 DEF LaneType, InFrames, Reached
  <2>5. lane' \in [Placeholders -> LaneType] /\ lane'[turn] = M
        /\ \A q \in Placeholders \ {turn} : lane'[q] = lane[q]
    BY <2>1, <2>2, <2>4 DEF LiveInv, TypeInv
  <2>6. \A t \in Takers : Holding(taker[t]) => taker[t].p \in Placeholders \ {turn}
    BY <2>3 DEF LiveInv, TakersInv, Holds, Holding
  <2> HIDE DEF L, M
  <2>7. TypeInv' /\ LanesInv'
    BY <1>1, <2>1, <2>2, <2>4, <2>5 DEF LiveInv, TypeInv, LanesInv
  <2>8. TakersInv'
    BY <1>1, <2>5, <2>6 DEF LiveInv, TakersInv
  <2>9. SlotInv'
    <3>1. ~L.final
      BY <2>3 DEF InFrames
    <3>2. QED
      BY <1>1, <2>1, <2>4, <2>5, <2>6, <3>1 DEF SlotInv
  <2>10. BeatsInv'
    BY <1>1, <2>1, <2>4, <2>5 DEF LiveInv, BeatsInv, Attended, Placeholders, None
  <2>11. QED
    BY <1>2, <2>7, <2>8, <2>9, <2>10 DEF LiveInv
<1>5. QED
  BY <1>3, <1>4

LEMMA PlaceholderPostedKeeps ==
  ASSUME LiveInv, NEW p \in Placeholders, PlaceholderPosted(p)
  PROVE  LiveInv'
<1> DEFINE L == lane[p]
<1>1. /\ L.state = "sending" /\ UNCHANGED <<turn, phase, thinking, slot, taker, wire, parts>>
  BY DEF PlaceholderPosted
<1>2. PICK M : /\ lane' = [lane EXCEPT ![p] = M]
               /\ \/ M = [L EXCEPT !.state = "live", !.beats = TRUE, !.ttl = TRUE]
                  \/ M = [L EXCEPT !.state = "failed"]
  BY DEF PlaceholderPosted, LaneBecomes
<1>3. L \in LaneType /\ InFrames(L, wire[p]) /\ Reached(L, wire[p])
  BY DEF LiveInv, TypeInv, LanesInv
<1>4. /\ M \in LaneType /\ M.state \in {"live", "failed"} /\ M.final = L.final /\ M.ttl = M.beats
      /\ M.pend = L.pend /\ M.flight = L.flight /\ M.made = L.made /\ M.timer = L.timer /\ M.ack = L.ack
      /\ M.fetched = L.fetched /\ (M.beats => M.state = "live")
  BY <1>1, <1>2, <1>3 DEF LaneType, InFrames
<1>5. InFrames(M, wire[p]) /\ Reached(M, wire[p])
  BY <1>1, <1>3, <1>4 DEF InFrames, Reached
<1>6. lane' \in [Placeholders -> LaneType] /\ lane'[p] = M
      /\ \A q \in Placeholders \ {p} : lane'[q] = lane[q]
  BY <1>2, <1>4 DEF LiveInv, TypeInv
<1>7. TypeInv' /\ LanesInv' /\ AnswerInv'
  BY <1>1, <1>5, <1>6 DEF LiveInv, TypeInv, LanesInv, AnswerInv
<1>8. TakersInv'
  <2>1. ASSUME NEW t \in Takers, Holding(taker[t])
        PROVE  taker[t].p \in Placeholders /\ Holds(taker[t], lane'[taker[t].p])
    <3>1. taker[t].p \in Placeholders /\ Holds(taker[t], lane[taker[t].p])
      BY <2>1 DEF LiveInv, TakersInv
    <3>2. CASE taker[t].p = p
      BY <1>1, <1>4, <1>6, <3>1, <3>2 DEF Holds
    <3>3. CASE taker[t].p # p
      BY <1>6, <3>1, <3>3
    <3>4. QED
      BY <3>1, <3>2, <3>3
  <2>2. QED
    BY <1>1, <2>1 DEF LiveInv, TakersInv
<1>9. SlotInv'
  BY <1>1, <1>4, <1>6 DEF LiveInv, SlotInv, TypeInv, Placeholders, None
<1>10. BeatsInv'
  BY <1>1, <1>4, <1>6 DEF LiveInv, BeatsInv, Attended
<1>11. QED
  BY <1>7, <1>8, <1>9, <1>10 DEF LiveInv

-----------------------------------------------------------------------------
(* Taking, retiring and the answer.                                        *)

(* Who takes the placeholder holds it alone, and attends to it.            *)
LEMMA TakesKeeps ==
  ASSUME LiveInv, NEW t \in Takers, Takes(t), NEW p \in Placeholders,
         lane' = lane \/ LaneBecomes(p, [lane[p] EXCEPT !.ttl = FALSE]), wire' = wire
  PROVE  /\ LanesInv' /\ TakersInv' /\ SlotInv' /\ BeatsInv'
         /\ slot' = None /\ lane' \in [Placeholders -> LaneType] /\ taker' \in [Takers -> TakerType]
         /\ taker'[t].pc \in {"none", "begun"} /\ taker'[t].from = 1 /\ taker[t].pc = "idle"
         /\ \A u \in Takers \ {t} : taker'[u] = taker[u]
<1> DEFINE K == [NoTaker EXCEPT !.pc = IF slot = None THEN "none" ELSE "begun", !.p = slot]
<1>1. taker[t].pc = "idle" /\ taker' = [taker EXCEPT ![t] = K] /\ slot' = None
  BY DEF Takes, SlotAfterTake
<1>2. /\ lane \in [Placeholders -> LaneType] /\ taker \in [Takers -> TakerType] /\ slot \in 0 .. Turns
  BY DEF LiveInv, TypeInv
<1>3. /\ K \in TakerType /\ K.p = slot /\ K.from = 1 /\ K.pc \in {"none", "begun"}
      /\ K.pc = "begun" <=> slot # None
  BY <1>2 DEF TakerType, NoTaker
<1> HIDE DEF K
<1>4. /\ taker' \in [Takers -> TakerType] /\ taker'[t] = K
      /\ \A u \in Takers \ {t} : taker'[u] = taker[u]
  BY <1>1, <1>2, <1>3
<1>5. /\ lane' \in [Placeholders -> LaneType]
      /\ \A q \in Placeholders :
           /\ lane'[q].state = lane[q].state /\ lane'[q].final = lane[q].final
           /\ lane'[q].pend = lane[q].pend /\ lane'[q].timer = lane[q].timer
           /\ lane'[q].flight = lane[q].flight /\ lane'[q].made = lane[q].made
           /\ lane'[q].ack = lane[q].ack /\ lane'[q].fetched = lane[q].fetched
           /\ lane'[q].beats = lane[q].beats /\ (lane'[q].ttl => lane[q].ttl)
  <2>1. CASE lane' = lane
    BY <1>2, <2>1
  <2>2. CASE LaneBecomes(p, [lane[p] EXCEPT !.ttl = FALSE])
    <3>1. lane[p] \in LaneType
      BY <1>2
    <3>2. [lane[p] EXCEPT !.ttl = FALSE] \in LaneType
      BY <3>1 DEF LaneType
    <3>3. QED
      BY <1>2, <2>2, <3>1, <3>2 DEF LaneBecomes, LaneType
  <2>3. QED
    BY <2>1, <2>2
<1>6. LanesInv'
  BY <1>5 DEF LiveInv, LanesInv, InFrames, Reached
<1>7. TakersInv'
  <2>1. ASSUME NEW u \in Takers, Holding(taker'[u])
        PROVE  taker'[u].p \in Placeholders /\ Holds(taker'[u], lane'[taker'[u].p])
    <3>1. CASE u = t
      <4>1. slot # None /\ slot \in Placeholders
        BY <1>2, <1>3, <1>4, <2>1, <3>1 DEF Holding, Placeholders, None
      <4>2. lane[slot].state \in {"sending", "live", "failed"} /\ ~lane[slot].final
        BY <4>1 DEF LiveInv, SlotInv
      <4>3. QED
        BY <1>3, <1>4, <1>5, <3>1, <4>1, <4>2 DEF Holds
    <3>2. CASE u # t
      <4>1. taker[u].p \in Placeholders /\ Holds(taker[u], lane[taker[u].p]) /\ taker'[u] = taker[u]
        BY <1>4, <2>1, <3>2 DEF LiveInv, TakersInv
      <4>2. QED
        BY <1>5, <4>1 DEF Holds
    <3>3. QED
      BY <3>1, <3>2
  <2>2. ASSUME NEW u \in Takers, Holding(taker[u])
        PROVE  taker[u].p # slot
    BY <2>2, <1>2 DEF LiveInv, SlotInv, TakersInv, Placeholders, None
  <2>3. ASSUME NEW u \in Takers, NEW v \in Takers, Holding(taker'[u]), Holding(taker'[v]),
               taker'[u].p = taker'[v].p
        PROVE  u = v
    BY <1>3, <1>4, <2>2, <2>3 DEF LiveInv, TakersInv
  <2>4. QED
    BY <2>1, <2>3 DEF TakersInv
<1>8. SlotInv'
  BY <1>1 DEF SlotInv
<1>9. BeatsInv'
  <2>1. SUFFICES ASSUME NEW q \in Placeholders, lane'[q].beats \/ lane'[q].state = "sending"
                 PROVE  \E u \in Takers : taker'[u].pc = "begun" /\ taker'[u].p = q
    BY DEF BeatsInv, Attended
  <2>2. lane[q].beats \/ lane[q].state = "sending"
    BY <1>5, <2>1
  <2>3. CASE slot = q
    BY <1>3, <1>4, <2>3 DEF Placeholders, None
  <2>4. CASE \E u \in Takers : taker[u].pc = "begun" /\ taker[u].p = q
    BY <1>1, <1>4, <2>4
  <2>5. QED
    BY <2>2, <2>3, <2>4 DEF LiveInv, BeatsInv, Attended
<1>10. QED
  BY <1>1, <1>3, <1>4, <1>5, <1>6, <1>7, <1>8, <1>9

LEMMA AnswerTakesKeeps ==
  ASSUME LiveInv, AnswerTakes
  PROVE  LiveInv'
<1>1. /\ phase = "running" /\ phase' = "delivering" /\ Takes(Answer)
      /\ UNCHANGED <<turn, thinking, lane, wire, parts>>
  BY DEF AnswerTakes
<1>2. turn \in Placeholders
  BY <1>1 DEF LiveInv, TypeInv, AnswerInv, Placeholders
<1>3. /\ LanesInv' /\ TakersInv' /\ SlotInv' /\ BeatsInv'
      /\ slot' = None /\ lane' \in [Placeholders -> LaneType] /\ taker' \in [Takers -> TakerType]
      /\ taker'[Answer].pc \in {"none", "begun"} /\ taker'[Answer].from = 1
  BY <1>1, <1>2, TakesKeeps, Apart
<1>4. TypeInv'
  BY <1>1, <1>3, ConstantsAssumption DEF ConstantsAssumption, LiveInv, TypeInv, None
<1>5. AnswerInv'
  <2>1. parts[turn] = <<>> /\ Len(<<>>) = 0
    BY <1>1 DEF LiveInv, AnswerInv
  <2>2. taker'[Answer].from = Len(parts[turn]) + 1
    BY <1>3, <2>1
  <2>3. QED
    BY <1>1, <1>3, <2>1, <2>2 DEF LiveInv, AnswerInv
<1>6. QED
  BY <1>3, <1>4, <1>5 DEF LiveInv

LEMMA OthersTakeKeeps ==
  ASSUME LiveInv, StopTakes \/ \E p \in Placeholders : TtlTakes(p)
  PROVE  LiveInv'
<1>1. PICK t \in Takers \ {Answer}, p \in Placeholders :
        Takes(t) /\ (lane' = lane \/ LaneBecomes(p, [lane[p] EXCEPT !.ttl = FALSE]))
  <2>1. CASE StopTakes
    <3>1. 1 \in Placeholders
      BY ConstantsAssumption DEF ConstantsAssumption, Placeholders
    <3>2. QED
      BY <2>1, <3>1, Apart DEF StopTakes
  <2>2. CASE \E p \in Placeholders : TtlTakes(p)
    <3>1. Answer \notin Placeholders
      BY Apart DEF Placeholders
    <3>2. QED
      BY <2>2, <3>1, Apart DEF TtlTakes
  <2>3. QED
    BY <2>1, <2>2
<1>2. /\ UNCHANGED <<turn, thinking, wire, parts>>
      /\ phase' = phase \/ (phase = "running" /\ phase' = "idle")
  BY DEF StopTakes, TtlTakes
<1>3. /\ LanesInv' /\ TakersInv' /\ SlotInv' /\ BeatsInv'
      /\ slot' = None /\ lane' \in [Placeholders -> LaneType] /\ taker' \in [Takers -> TakerType]
      /\ \A u \in Takers \ {t} : taker'[u] = taker[u]
  BY <1>1, <1>2, TakesKeeps
<1>4. taker'[Answer] = taker[Answer]
  BY <1>1, <1>3, Apart
<1>5. TypeInv'
  BY <1>2, <1>3, ConstantsAssumption DEF ConstantsAssumption, LiveInv, TypeInv, None
<1>6. AnswerInv'
  BY <1>2, <1>4 DEF LiveInv, AnswerInv
<1>7. QED
  BY <1>3, <1>5, <1>6 DEF LiveInv

(* A taker goes on with its placeholder, and has not begun any more.       *)
LEMMA TakerMoves ==
  ASSUME LiveInv, NEW t \in Takers, NEW K \in TakerType, taker' = [taker EXCEPT ![t] = K],
         taker[t].pc # "begun",
         Holding(K) => Holding(taker[t]) /\ K.p = taker[t].p /\ Holds(K, lane[K.p]) /\ K.pc # "begun",
         UNCHANGED <<slot, lane, wire>>
  PROVE  /\ LanesInv' /\ TakersInv' /\ SlotInv' /\ BeatsInv' /\ taker' \in [Takers -> TakerType]
         /\ taker'[t] = K /\ \A u \in Takers \ {t} : taker'[u] = taker[u]
<1>1. /\ taker' \in [Takers -> TakerType] /\ taker'[t] = K
      /\ \A u \in Takers \ {t} : taker'[u] = taker[u]
  BY DEF LiveInv, TypeInv
<1>2. LanesInv'
  BY DEF LiveInv, LanesInv
<1>3. TakersInv' /\ SlotInv'
  BY <1>1 DEF LiveInv, TakersInv, SlotInv
<1>4. BeatsInv'
  BY <1>1 DEF LiveInv, BeatsInv, Attended
<1>5. QED
  BY <1>1, <1>2, <1>3, <1>4

(* Who holds a placeholder retires it: nobody else goes by its lane.       *)
LEMMA Retires ==
  ASSUME LiveInv, NEW t \in Takers, Holding(taker[t]), NEW K \in TakerType, NEW L \in LaneType,
         taker' = [taker EXCEPT ![t] = K], LaneBecomes(taker[t].p, L),
         Holding(K) => K.p = taker[t].p /\ Holds(K, L) /\ K.pc # "begun",
         wire' \in [Placeholders -> Seq(Nat)], \A q \in Placeholders \ {taker[t].p} : wire'[q] = wire[q],
         InFrames(L, wire'[taker[t].p]), Reached(L, wire'[taker[t].p]),
         ~L.beats, L.state # "sending", slot' = slot
  PROVE  /\ LanesInv' /\ TakersInv' /\ SlotInv' /\ BeatsInv'
         /\ lane' \in [Placeholders -> LaneType] /\ taker' \in [Takers -> TakerType]
         /\ taker'[t] = K /\ \A u \in Takers \ {t} : taker'[u] = taker[u]
<1> DEFINE p == taker[t].p
<1>1. /\ taker' \in [Takers -> TakerType] /\ taker'[t] = K
      /\ \A u \in Takers \ {t} : taker'[u] = taker[u]
  BY DEF LiveInv, TypeInv
<1>2. p \in Placeholders /\ \A u \in Takers \ {t} : Holding(taker[u]) => taker[u].p # p
  BY DEF LiveInv, TakersInv
<1>3. slot # p
  BY <1>2 DEF LiveInv, SlotInv, Placeholders, None
<1> HIDE DEF p
<1>4. /\ lane' \in [Placeholders -> LaneType] /\ lane'[p] = L
      /\ \A q \in Placeholders \ {p} : lane'[q] = lane[q]
  BY <1>2 DEF LiveInv, TypeInv, LaneBecomes, p
<1>5. LanesInv'
  <2>1. SUFFICES ASSUME NEW q \in Placeholders
                 PROVE  InFrames(lane'[q], wire'[q]) /\ Reached(lane'[q], wire'[q])
    BY DEF LanesInv
  <2>2. CASE q = p
    BY <1>4, <2>2 DEF p
  <2>3. CASE q # p
    BY <1>4, <2>3 DEF LiveInv, LanesInv, p
  <2>4. QED
    BY <2>2, <2>3
<1>6. TakersInv'
  <2>1. ASSUME NEW u \in Takers, Holding(taker'[u])
        PROVE  taker'[u].p \in Placeholders /\ Holds(taker'[u], lane'[taker'[u].p])
    <3>1. CASE u = t
      BY <1>1, <1>2, <1>4, <2>1, <3>1 DEF p
    <3>2. CASE u # t
      BY <1>1, <1>2, <1>4, <2>1, <3>2 DEF LiveInv, TakersInv
    <3>3. QED
      BY <3>1, <3>2
  <2>2. ASSUME NEW u \in Takers, NEW v \in Takers, Holding(taker'[u]), Holding(taker'[v]),
               taker'[u].p = taker'[v].p
        PROVE  u = v
    BY <1>1, <1>2, <2>2 DEF LiveInv, TakersInv, p
  <2>3. QED
    BY <2>1, <2>2 DEF TakersInv
<1>7. SlotInv'
  <2>1. SUFFICES ASSUME slot # None
                 PROVE  /\ lane'[slot].state \in {"sending", "live", "failed"} /\ ~lane'[slot].final
                        /\ \A u \in Takers : Holding(taker'[u]) => taker'[u].p # slot
    BY DEF SlotInv
  <2>2. slot \in Placeholders
    BY <2>1 DEF LiveInv, TypeInv, Placeholders, None
  <2>3. lane'[slot] = lane[slot]
    BY <1>3, <1>4, <2>2
  <2>4. QED
    BY <1>1, <1>3, <2>1, <2>3 DEF LiveInv, SlotInv, p
<1>8. BeatsInv'
  <2>1. SUFFICES ASSUME NEW q \in Placeholders, lane'[q].beats \/ lane'[q].state = "sending"
                 PROVE  Attended(q)'
    BY DEF BeatsInv
  <2>2. q # p /\ lane'[q] = lane[q]
    BY <1>4, <2>1
  <2>3. Attended(q)
    BY <2>1, <2>2 DEF LiveInv, BeatsInv
  <2>4. QED
    BY <1>1, <2>2, <2>3 DEF Attended, p
<1>9. QED
  BY <1>1, <1>4, <1>5, <1>6, <1>7, <1>8

LEMMA Appended ==
  ASSUME NEW w \in Seq(Nat), NEW x \in Nat
  PROVE  /\ Append(w, x) \in Seq(Nat) /\ Len(w) \in Nat /\ Len(Append(w, x)) = Len(w) + 1
         /\ \A i \in 1 .. Len(w) : Append(w, x)[i] = w[i] /\ w[i] \in Nat
         /\ Append(w, x)[Len(w) + 1] = x
OBVIOUS

LEMMA Terminals == Terminal \in Nat /\ MaxFrames \in Nat /\ None \in 0 .. MaxFrames /\ Terminal > MaxFrames
BY ConstantsAssumption DEF ConstantsAssumption, Terminal, None

(* What a taker that still holds its placeholder has done for the answer.  *)
LEMMA AnswerHolds ==
  ASSUME LiveInv, NEW t \in Takers, Holding(taker[t]), NEW K, Holding(K), K.from = taker[t].from,
         taker'[t] = K, \A u \in Takers \ {t} : taker'[u] = taker[u],
         UNCHANGED <<turn, phase, thinking, parts>>
  PROVE  AnswerInv'
<1>1. Answer \in Takers
  BY Apart
<1>2. CASE t = Answer
  BY <1>1, <1>2 DEF LiveInv, AnswerInv, Holding
<1>3. CASE t # Answer
  <2>1. taker'[Answer] = taker[Answer]
    BY <1>1, <1>3
  <2>2. QED
    BY <2>1 DEF LiveInv, AnswerInv
<1>4. QED
  BY <1>2, <1>3

LEMMA DrainsKeeps ==
  ASSUME LiveInv, NEW t \in Takers, Drains(t) \/ Settles(t)
  PROVE  LiveInv'
<1> DEFINE k == taker[t]
<1>1. k \in TakerType /\ taker \in [Takers -> TakerType] /\ lane \in [Placeholders -> LaneType]
  BY DEF LiveInv, TypeInv
<1>2. UNCHANGED <<turn, phase, thinking, slot, lane, wire, parts>>
  BY DEF Drains, Settles
<1>3. CASE Drains(t)
  <2> DEFINE K == [k EXCEPT !.pc = "settle"]
  <2>1. k.pc = "drain" /\ lane[k.p].flight = None /\ taker' = [taker EXCEPT ![t] = K]
    BY <1>1, <1>3 DEF Drains, Drained, TakerGoes
  <2>2. K \in TakerType /\ K.pc = "settle" /\ K.p = k.p /\ K.from = k.from
    BY <1>1 DEF TakerType
  <2>3. k.p \in Placeholders /\ Holds(k, lane[k.p])
    BY <2>1 DEF LiveInv, TakersInv, Holding
  <2> HIDE DEF K
  <2>4. Holds(K, lane[K.p])
    BY <2>1, <2>2, <2>3 DEF Holds
  <2>5. /\ LanesInv' /\ TakersInv' /\ SlotInv' /\ BeatsInv' /\ taker' \in [Takers -> TakerType]
        /\ taker'[t] = K /\ \A u \in Takers \ {t} : taker'[u] = taker[u]
    BY <1>2, <2>1, <2>2, <2>4, TakerMoves DEF Holding
  <2>6. AnswerInv'
    BY <1>2, <2>1, <2>2, <2>5, AnswerHolds DEF Holding
  <2>7. QED
    BY <1>2, <2>5, <2>6 DEF LiveInv, TypeInv
<1>4. CASE Settles(t)
  <2> DEFINE e == lane[k.p].ack = "acked"
             K == [k EXCEPT !.pc = "final", !.edit = e]
  <2>1. k.pc = "settle" /\ taker' = [taker EXCEPT ![t] = K]
    BY <1>1, <1>4 DEF Settles
  <2>2. K \in TakerType /\ K.pc = "final" /\ K.p = k.p /\ K.from = k.from /\ (K.edit => e)
    BY <1>1 DEF TakerType
  <2>3. k.p \in Placeholders /\ Holds(k, lane[k.p])
    BY <2>1 DEF LiveInv, TakersInv, Holding
  <2>4. e => lane[k.p].fetched
    BY <2>3 DEF LiveInv, LanesInv, Reached
  <2> HIDE DEF K, e
  <2>5. Holds(K, lane[K.p])
    BY <2>1, <2>2, <2>3, <2>4 DEF Holds
  <2>6. /\ LanesInv' /\ TakersInv' /\ SlotInv' /\ BeatsInv' /\ taker' \in [Takers -> TakerType]
        /\ taker'[t] = K /\ \A u \in Takers \ {t} : taker'[u] = taker[u]
    BY <1>2, <2>1, <2>2, <2>5, TakerMoves DEF Holding
  <2>7. AnswerInv'
    BY <1>2, <2>1, <2>2, <2>6, AnswerHolds DEF Holding
  <2>8. QED
    BY <1>2, <2>6, <2>7 DEF LiveInv, TypeInv
<1>5. QED
  BY <1>3, <1>4

(* A taker that gives its placeholder up without a frame of the answer.    *)
LEMMA AnswerLetsGo ==
  ASSUME LiveInv, NEW t \in Takers, Holding(taker[t]), NEW K, K.pc \in {"none", "done"},
         K.from = taker[t].from, taker'[t] = K, \A u \in Takers \ {t} : taker'[u] = taker[u],
         UNCHANGED <<turn, phase, thinking, parts>>
  PROVE  AnswerInv'
<1>1. Answer \in Takers
  BY Apart
<1>2. CASE t = Answer
  <2>1. parts[turn] = <<>> /\ K.from = 1 /\ Len(<<>>) = 0
    BY <1>2 DEF LiveInv, AnswerInv
  <2>2. phase = "delivering"
    BY <1>2 DEF LiveInv, AnswerInv, Holding
  <2>3. K.from = Len(parts[turn]) + 1
    BY <2>1
  <2>4. QED
    BY <1>2, <2>1, <2>2, <2>3 DEF LiveInv, AnswerInv, Holding
<1>3. CASE t # Answer
  <2>1. taker'[Answer] = taker[Answer]
    BY <1>1, <1>3
  <2>2. QED
    BY <2>1 DEF LiveInv, AnswerInv
<1>4. QED
  BY <1>2, <1>3

LEMMA BegunKeeps ==
  ASSUME LiveInv, NEW t \in Takers, Begun(t)
  PROVE  LiveInv'
<1> DEFINE k == taker[t]
           p == k.p
           L == lane[p]
<1>1. k \in TakerType /\ taker \in [Takers -> TakerType] /\ lane \in [Placeholders -> LaneType]
      /\ wire \in [Placeholders -> Seq(Nat)]
  BY DEF LiveInv, TypeInv
<1>2. /\ k.pc = "begun" /\ L.state \in {"live", "failed"}
      /\ UNCHANGED <<turn, phase, thinking, slot, wire, parts>>
  BY DEF Begun
<1>3. Holding(k) /\ p \in Placeholders /\ ~L.final
  BY <1>2 DEF LiveInv, TakersInv, Holding, Holds
<1>4. L \in LaneType /\ InFrames(L, wire[p]) /\ Reached(L, wire[p])
  BY <1>3 DEF LiveInv, TypeInv, LanesInv
<1>5. CASE L.state = "failed"
  <2> DEFINE K == [k EXCEPT !.pc = "none"]
  <2>1. taker' = [taker EXCEPT ![t] = K] /\ lane' = lane
    BY <1>1, <1>5 DEF Begun, TakerGoes
  <2>2. K \in TakerType /\ K.pc = "none" /\ K.from = k.from
    BY <1>1 DEF TakerType
  <2>3. LaneBecomes(p, L) /\ ~L.beats
    BY <1>1, <1>4, <1>5, <2>1 DEF LaneBecomes, InFrames
  <2> HIDE DEF K, L, p
  <2>4. /\ LanesInv' /\ TakersInv' /\ SlotInv' /\ BeatsInv'
        /\ lane' \in [Placeholders -> LaneType] /\ taker' \in [Takers -> TakerType]
        /\ taker'[t] = K /\ \A u \in Takers \ {t} : taker'[u] = taker[u]
    BY <1>1, <1>2, <1>3, <1>4, <1>5, <2>1, <2>2, <2>3, Retires DEF p, Holding
  <2>5. AnswerInv'
    BY <1>2, <1>3, <2>2, <2>4, AnswerLetsGo
  <2>6. QED
    BY <1>2, <2>4, <2>5 DEF LiveInv, TypeInv
<1>6. CASE L.state = "live"
  <2> DEFINE K == [k EXCEPT !.pc = "drain"]
             M == [L EXCEPT !.beats = FALSE, !.ttl = FALSE, !.final = TRUE, !.pend = None, !.timer = FALSE]
  <2>1. taker' = [taker EXCEPT ![t] = K] /\ LaneBecomes(p, M)
    BY <1>1, <1>3, <1>6 DEF Begun, TakerGoes
  <2>2. K \in TakerType /\ K.pc = "drain" /\ K.from = k.from /\ K.p = p
    BY <1>1 DEF TakerType
  <2>3. /\ M \in LaneType /\ M.state = L.state /\ M.final = TRUE /\ M.pend = None /\ M.timer = FALSE
        /\ M.beats = FALSE /\ M.ttl = FALSE /\ M.flight = L.flight /\ M.made = L.made /\ M.ack = L.ack
        /\ M.fetched = L.fetched
    BY <1>4, Terminals DEF LaneType
  <2> HIDE DEF K, M
  <2>4. InFrames(M, wire[p]) /\ Reached(M, wire[p]) /\ Holds(K, M)
    BY <1>4, <1>6, <2>2, <2>3 DEF InFrames, Reached, Holds
  <2> HIDE DEF L, p
  <2>5. /\ LanesInv' /\ TakersInv' /\ SlotInv' /\ BeatsInv'
        /\ lane' \in [Placeholders -> LaneType] /\ taker' \in [Takers -> TakerType]
        /\ taker'[t] = K /\ \A u \in Takers \ {t} : taker'[u] = taker[u]
    BY <1>1, <1>2, <1>3, <1>6, <2>1, <2>2, <2>3, <2>4, Retires DEF p
  <2>6. AnswerInv'
    BY <1>2, <1>3, <2>2, <2>5, AnswerHolds DEF Holding
  <2>7. QED
    BY <1>2, <2>5, <2>6 DEF LiveInv, TypeInv
<1>7. QED
  BY <1>2, <1>5, <1>6

LEMMA FinalFailsKeeps ==
  ASSUME LiveInv, NEW t \in Takers, FinalFails(t)
  PROVE  LiveInv'
<1> DEFINE k == taker[t]
           p == k.p
           L == lane[p]
           K == [k EXCEPT !.pc = "done"]
           M == [L EXCEPT !.final = FALSE]
<1>1. k \in TakerType /\ taker \in [Takers -> TakerType] /\ lane \in [Placeholders -> LaneType]
      /\ wire \in [Placeholders -> Seq(Nat)]
  BY DEF LiveInv, TypeInv
<1>2. /\ k.pc = "final" /\ LaneBecomes(p, M) /\ taker' = [taker EXCEPT ![t] = K]
      /\ UNCHANGED <<turn, phase, thinking, slot, wire, parts>>
  BY <1>1 DEF FinalFails, TakerGoes
<1>3. Holding(k) /\ p \in Placeholders /\ L.state = "live" /\ ~L.beats
  BY <1>2 DEF LiveInv, TakersInv, Holding, Holds
<1>4. L \in LaneType /\ InFrames(L, wire[p]) /\ Reached(L, wire[p])
  BY <1>3 DEF LiveInv, TypeInv, LanesInv
<1>5. K \in TakerType /\ K.pc = "done" /\ K.from = k.from /\ ~Holding(K)
  BY <1>1 DEF TakerType, Holding
<1>6. /\ M \in LaneType /\ InFrames(M, wire[p]) /\ Reached(M, wire[p]) /\ M.state = "live" /\ ~M.beats
  BY <1>3, <1>4 DEF LaneType, InFrames, Reached
<1> HIDE DEF K, M, L, p
<1>7. /\ LanesInv' /\ TakersInv' /\ SlotInv' /\ BeatsInv'
      /\ lane' \in [Placeholders -> LaneType] /\ taker' \in [Takers -> TakerType]
      /\ taker'[t] = K /\ \A u \in Takers \ {t} : taker'[u] = taker[u]
  BY <1>1, <1>2, <1>3, <1>5, <1>6, Retires DEF p
<1>8. AnswerInv'
  BY <1>2, <1>3, <1>5, <1>7, AnswerLetsGo
<1>9. QED
  BY <1>2, <1>7, <1>8 DEF LiveInv, TypeInv

LEMMA OrderedStep ==
  ASSUME NEW s \in Seq(Nat), Ordered(s)
  PROVE  LET r == Append(s, Len(s) + 1) IN r \in Seq(Nat) /\ Len(r) = Len(s) + 1 /\ Ordered(r)
<1> DEFINE r == Append(s, Len(s) + 1)
<1>1. /\ Len(s) \in Nat /\ r \in Seq(Nat) /\ Len(r) = Len(s) + 1
      /\ \A i \in 1 .. Len(s) : r[i] = s[i]
      /\ r[Len(s) + 1] = Len(s) + 1
  OBVIOUS
<1> HIDE DEF r
<1>2. ASSUME NEW i \in 1 .. Len(r) PROVE r[i] = i
  <2>1. i \in 1 .. Len(s) \/ i = Len(s) + 1
    BY <1>1
  <2>2. QED
    BY <1>1, <2>1 DEF Ordered
<1>3. QED
  BY <1>1, <1>2 DEF Ordered, r

(* The last frame: an edit that is newer than any other, or a message that *)
(* takes the place of the placeholder and holds the first part.            *)
LEMMA FinalSentKeeps ==
  ASSUME LiveInv, NEW t \in Takers, FinalSent(t)
  PROVE  LiveInv'
<1> DEFINE k == taker[t]
           p == k.p
           L == lane[p]
           K == [k EXCEPT !.pc = "done", !.from = NextPart(t)]
           M == [NewLane EXCEPT !.state = "closed", !.final = TRUE, !.fetched = L.fetched,
                                !.flight = L.flight]
           w == wire[p]
           v == Append(w, Terminal)
<1>1. k \in TakerType /\ taker \in [Takers -> TakerType] /\ lane \in [Placeholders -> LaneType]
      /\ wire \in [Placeholders -> Seq(Nat)]
  BY DEF LiveInv, TypeInv
<1>2. /\ k.pc = "final" /\ LaneBecomes(p, M)
      /\ wire' = IF k.edit THEN [wire EXCEPT ![p] = v] ELSE wire
      /\ parts' = IF t = Answer /\ ~k.edit THEN [parts EXCEPT ![turn] = Append(@, 1)] ELSE parts
      /\ UNCHANGED <<turn, phase, thinking, slot>>
  BY DEF FinalSent
<1>3. taker' = [taker EXCEPT ![t] = K]
  BY <1>1 DEF FinalSent
<1>4. /\ Holding(k) /\ p \in Placeholders /\ L.state = "live" /\ L.flight = None
      /\ (k.edit => L.fetched)
  BY <1>2 DEF LiveInv, TakersInv, Holding, Holds
<1>5. L \in LaneType /\ InFrames(L, w) /\ Reached(L, w) /\ w \in Seq(Nat)
  BY <1>4 DEF LiveInv, TypeInv, LanesInv
<1>6. /\ M \in LaneType /\ M.state = "closed" /\ M.final /\ M.fetched = L.fetched /\ M.flight = None
      /\ M.pend = None /\ ~M.timer /\ ~M.beats /\ ~M.ttl /\ M.ack = "pending"
  <2>1. L.fetched \in BOOLEAN /\ 0 \in 0 .. MaxFrames /\ None = 0
    BY <1>5, Terminals DEF LaneType, None
  <2>2. NewLane \in LaneType /\ NewLane.ack = "pending" /\ NewLane.pend = None
        /\ NewLane.timer = FALSE /\ NewLane.beats = FALSE /\ NewLane.ttl = FALSE
    BY <2>1 DEF LaneType, NewLane
  <2>3. /\ M \in LaneType /\ M.state = "closed" /\ M.final = TRUE /\ M.fetched = L.fetched
        /\ M.flight = None /\ M.pend = NewLane.pend /\ M.timer = NewLane.timer
        /\ M.beats = NewLane.beats /\ M.ttl = NewLane.ttl /\ M.ack = NewLane.ack
    BY <1>4, <2>1, <2>2 DEF LaneType
  <2>4. QED
    BY <2>2, <2>3
<1>7. K \in TakerType /\ K.pc = "done" /\ K.from = NextPart(t) /\ ~Holding(K)
  BY <1>1 DEF TakerType, Holding, NextPart
<1>8. /\ v \in Seq(Nat) /\ Len(w) \in Nat /\ Len(v) = Len(w) + 1
      /\ \A i \in 1 .. Len(w) : v[i] = w[i] /\ w[i] \in Nat
      /\ v[Len(w) + 1] = Terminal
  <2> HIDE DEF w
  <2>1. w \in Seq(Nat) /\ Terminal \in Nat
    BY <1>5, Terminals
  <2>2. QED
    BY <2>1, Appended
<1>9. Rising(v)
  <2>1. Below(w, L.made + 1) /\ Rising(w) /\ L.made \in 0 .. MaxFrames
    BY <1>4, <1>5 DEF InFrames, LaneType
  <2> HIDE DEF v, w, L, M, K
  <2>2. SUFFICES ASSUME NEW i \in 1 .. Len(w) PROVE v[i] < v[i + 1]
    BY <1>8 DEF Rising
  <2>3. CASE i = Len(w)
    BY <1>8, <2>1, <2>3, Terminals DEF Below
  <2>4. CASE i # Len(w)
    BY <1>8, <2>1, <2>4 DEF Rising
  <2>5. QED
    BY <2>3, <2>4
<1> HIDE DEF v
<1>10. /\ wire' \in [Placeholders -> Seq(Nat)]
       /\ wire'[p] \in {w, v} /\ (wire'[p] # w => k.edit)
       /\ \A q \in Placeholders \ {p} : wire'[q] = wire[q]
  BY <1>1, <1>2, <1>4, <1>8
<1> HIDE DEF w
<1>11. Rising(wire'[p]) /\ (wire'[p] # <<>> => L.fetched)
  BY <1>4, <1>5, <1>9, <1>10 DEF InFrames, Reached
<1> HIDE DEF K, M, L
<1>12. InFrames(M, wire'[p]) /\ Reached(M, wire'[p])
  BY <1>6, <1>11 DEF InFrames, Reached
<1> HIDE DEF p
<1>13. /\ LanesInv' /\ TakersInv' /\ SlotInv' /\ BeatsInv'
       /\ lane' \in [Placeholders -> LaneType] /\ taker' \in [Takers -> TakerType]
       /\ taker'[t] = K /\ \A u \in Takers \ {t} : taker'[u] = taker[u]
  BY <1>2, <1>3, <1>4, <1>6, <1>7, <1>10, <1>12, Retires DEF p
<1>14. AnswerInv' /\ parts' \in [1 .. Turns -> Seq(Nat)]
  <2>1. CASE t = Answer /\ ~k.edit
    <3>1. /\ phase = "delivering" /\ turn # 0 /\ parts[turn] = <<>>
      BY <1>4, <2>1 DEF LiveInv, AnswerInv, Holding
    <3>2. turn \in 1 .. Turns /\ parts \in [1 .. Turns -> Seq(Nat)] /\ Turns \in Nat
      BY <3>1, ConstantsAssumption DEF ConstantsAssumption, LiveInv, TypeInv
    <3>3. parts' = [parts EXCEPT ![turn] = <<1>>]
      BY <1>2, <2>1, <3>1, <3>2
    <3>4. <<1>> \in Seq(Nat) /\ Len(<<1>>) = 1 /\ Ordered(<<1>>)
      BY DEF Ordered
    <3>5. /\ parts' \in [1 .. Turns -> Seq(Nat)] /\ parts'[turn] = <<1>>
          /\ \A s \in 1 .. Turns \ {turn} : parts'[s] = parts[s]
      BY <3>2, <3>3, <3>4
    <3>6. K.from = 2
      BY <1>7, <2>1 DEF NextPart
    <3>7. \A s \in 1 .. Turns : Ordered(parts'[s]) /\ (s > turn => parts'[s] = <<>>)
      <4>1. \A s \in 1 .. Turns : Ordered(parts[s]) /\ (s > turn => parts[s] = <<>>)
        BY DEF LiveInv, AnswerInv
      <4>2. SUFFICES ASSUME NEW s \in 1 .. Turns
                     PROVE  Ordered(parts'[s]) /\ (s > turn => parts'[s] = <<>>)
        OBVIOUS
      <4>3. CASE s = turn
        <5>1. ~(s > turn)
          BY <3>2, <4>3
        <5>2. QED
          BY <3>4, <3>5, <4>3, <5>1
      <4>4. CASE s # turn
        BY <3>5, <4>1, <4>4
      <4>5. QED
        BY <4>3, <4>4
    <3>8. QED
      BY <1>2, <1>7, <1>13, <2>1, <3>1, <3>4, <3>5, <3>6, <3>7 DEF AnswerInv
  <2>2. CASE ~(t = Answer /\ ~k.edit)
    <3>1. parts' = parts
      BY <1>2, <2>2
    <3>2. CASE t = Answer
      <4>1. K.from = k.from
        BY <1>4, <1>7, <2>2, <3>2 DEF NextPart, LiveInv, AnswerInv
      <4>2. K.pc \in {"none", "done"} /\ UNCHANGED <<turn, phase, thinking, parts>>
        BY <1>2, <1>7, <3>1
      <4> HIDE DEF k
      <4>3. AnswerInv'
        BY <1>4, <1>13, <4>1, <4>2, AnswerLetsGo DEF k
      <4>4. QED
        BY <3>1, <4>3 DEF LiveInv, TypeInv
    <3>3. CASE t # Answer
      <4>1. taker'[Answer] = taker[Answer]
        BY <1>13, <3>3, Apart
      <4>2. QED
        BY <1>2, <3>1, <4>1 DEF LiveInv, AnswerInv, TypeInv
    <3>4. QED
      BY <3>2, <3>3
  <2>3. QED
    BY <2>1, <2>2
<1>15. QED
  BY <1>2, <1>10, <1>13, <1>14 DEF LiveInv, TypeInv

(* The answer sends its parts; every step of it disarms the timer or ends. *)
LEMMA PartsKeep ==
  ASSUME LiveInv, PartSent \/ PartFails \/ AnswerDone
  PROVE  LiveInv'
<1> DEFINE k == taker[Answer]
<1>1. k \in TakerType /\ taker \in [Takers -> TakerType] /\ Answer \in Takers
  BY Apart DEF LiveInv, TypeInv
<1>2. k.pc \in {"none", "done"} /\ UNCHANGED <<turn, slot, lane, wire>>
  BY DEF PartSent, PartFails, AnswerDone
<1>3. /\ phase = "delivering" /\ turn # 0 /\ k.from = Len(parts[turn]) + 1
      /\ \A s \in 1 .. Turns : Ordered(parts[s]) /\ (s > turn => parts[s] = <<>>)
  BY <1>2 DEF LiveInv, AnswerInv
<1>4. turn \in 1 .. Turns /\ parts \in [1 .. Turns -> Seq(Nat)] /\ Turns \in Nat
  BY <1>3, ConstantsAssumption DEF ConstantsAssumption, LiveInv, TypeInv
<1>5. CASE PartSent
  <2> DEFINE K == [k EXCEPT !.from = @ + 1]
             r == Append(parts[turn], Len(parts[turn]) + 1)
  <2>1. /\ thinking' = FALSE /\ phase' = phase /\ taker' = [taker EXCEPT ![Answer] = K]
        /\ parts' = [parts EXCEPT ![turn] = Append(@, k.from)]
    BY <1>1, <1>5 DEF PartSent
  <2>2. K \in TakerType /\ K.pc = k.pc /\ K.from = k.from + 1 /\ k.from \in Nat
    BY <1>1 DEF TakerType
  <2>3. parts[turn] \in Seq(Nat) /\ Ordered(parts[turn])
    BY <1>3, <1>4
  <2>4. r \in Seq(Nat) /\ Len(r) = Len(parts[turn]) + 1 /\ Ordered(r)
    BY <2>3, OrderedStep
  <2>5. parts' = [parts EXCEPT ![turn] = r]
    BY <1>3, <1>4, <2>1
  <2> HIDE DEF K, r, k
  <2>6. /\ parts' \in [1 .. Turns -> Seq(Nat)] /\ parts'[turn] = r
        /\ \A s \in 1 .. Turns \ {turn} : parts'[s] = parts[s]
    BY <1>4, <2>4, <2>5
  <2>7. /\ LanesInv' /\ TakersInv' /\ SlotInv' /\ BeatsInv' /\ taker' \in [Takers -> TakerType]
        /\ taker'[Answer] = K
    BY <1>1, <1>2, <2>1, <2>2, TakerMoves DEF Holding, k
  <2>8. \A s \in 1 .. Turns : Ordered(parts'[s]) /\ (s > turn => parts'[s] = <<>>)
    <3>1. SUFFICES ASSUME NEW s \in 1 .. Turns
                   PROVE  Ordered(parts'[s]) /\ (s > turn => parts'[s] = <<>>)
      OBVIOUS
    <3>2. CASE s = turn
      <4>1. ~(s > turn)
        BY <1>4, <3>2
      <4>2. QED
        BY <2>4, <2>6, <3>2, <4>1
    <3>3. CASE s # turn
      BY <1>3, <2>6, <3>3
    <3>4. QED
      BY <3>2, <3>3
  <2>9. AnswerInv'
    <3>1. K.pc \in {"none", "done"} /\ ~Holding(K) /\ K.pc # "idle"
      BY <1>2, <2>2 DEF Holding
    <3>2. K.from = Len(r) + 1
      BY <1>3, <2>2, <2>4
    <3>3. QED
      BY <1>2, <1>3, <2>1, <2>6, <2>7, <2>8, <3>1, <3>2 DEF AnswerInv
  <2>10. TypeInv'
    <3>1. thinking' \in BOOLEAN
      BY <2>1
    <3>2. QED
      BY <1>2, <2>1, <2>6, <2>7, <3>1 DEF LiveInv, TypeInv
  <2>11. QED
    BY <2>7, <2>9, <2>10 DEF LiveInv
<1>6. CASE PartFails \/ AnswerDone
  <2>1. /\ phase' = "idle" /\ parts' = parts /\ taker' = [taker EXCEPT ![Answer] = NoTaker]
        /\ thinking' \in {FALSE, thinking}
    BY <1>6 DEF PartFails, AnswerDone
  <2>2. NoTaker \in TakerType /\ NoTaker.pc = "idle" /\ ~Holding(NoTaker)
    BY ConstantsAssumption DEF ConstantsAssumption, NoTaker, TakerType, Holding, None
  <2>3. /\ LanesInv' /\ TakersInv' /\ SlotInv' /\ BeatsInv' /\ taker' \in [Takers -> TakerType]
        /\ taker'[Answer] = NoTaker
    BY <1>1, <1>2, <2>1, <2>2, TakerMoves
  <2>4. AnswerInv'
    BY <1>2, <1>3, <2>1, <2>2, <2>3 DEF AnswerInv
  <2>5. TypeInv'
    <3>1. thinking' \in BOOLEAN
      BY <2>1 DEF LiveInv, TypeInv
    <3>2. QED
      BY <1>2, <2>1, <2>3, <3>1 DEF LiveInv, TypeInv
  <2>6. QED
    BY <2>3, <2>4, <2>5 DEF LiveInv
<1>7. QED
  BY <1>5, <1>6

LEMMA OtherDoneKeeps ==
  ASSUME LiveInv, NEW t \in Takers, OtherDone(t)
  PROVE  LiveInv'
<1>1. /\ t # Answer /\ taker[t].pc \in {"none", "done"} /\ taker' = [taker EXCEPT ![t] = NoTaker]
      /\ thinking' \in {FALSE, thinking} /\ UNCHANGED <<turn, phase, slot, lane, wire, parts>>
  BY DEF OtherDone
<1>2. NoTaker \in TakerType /\ NoTaker.pc = "idle" /\ ~Holding(NoTaker)
  BY ConstantsAssumption DEF ConstantsAssumption, NoTaker, TakerType, Holding, None
<1>3. /\ LanesInv' /\ TakersInv' /\ SlotInv' /\ BeatsInv' /\ taker' \in [Takers -> TakerType]
      /\ \A u \in Takers \ {t} : taker'[u] = taker[u]
  BY <1>1, <1>2, TakerMoves
<1>4. taker'[Answer] = taker[Answer]
  BY <1>1, <1>3, Apart
<1>5. thinking' \in BOOLEAN
  BY <1>1 DEF LiveInv, TypeInv
<1>6. AnswerInv'
  <2>1. thinking' => thinking
    BY <1>1
  <2>2. QED
    BY <1>1, <1>4, <2>1 DEF LiveInv, AnswerInv
<1>7. QED
  BY <1>1, <1>3, <1>5, <1>6 DEF LiveInv, TypeInv

-----------------------------------------------------------------------------
LEMMA LiveStarts == Init => LiveInv
<1> SUFFICES ASSUME Init PROVE LiveInv
  OBVIOUS
<1>1. /\ NewLane \in LaneType /\ NoTaker \in TakerType /\ <<>> \in Seq(Nat) /\ Len(<<>>) = 0
      /\ 0 \in 0 .. Turns
  BY ConstantsAssumption DEF ConstantsAssumption, NewLane, NoTaker, LaneType, TakerType, None
<1>2. /\ turn = 0 /\ phase = "idle" /\ thinking = FALSE /\ slot = 0
      /\ lane = [p \in Placeholders |-> NewLane] /\ taker = [t \in Takers |-> NoTaker]
      /\ wire = [p \in Placeholders |-> <<>>] /\ parts = [t \in 1 .. Turns |-> <<>>]
  BY DEF Init, None
<1>3. TypeInv
  <2>1. thinking \in BOOLEAN
    BY <1>2
  <2>2. lane \in [Placeholders -> LaneType] /\ taker \in [Takers -> TakerType]
    BY <1>1, <1>2
  <2>3. wire \in [Placeholders -> Seq(Nat)] /\ parts \in [1 .. Turns -> Seq(Nat)]
    BY <1>1, <1>2
  <2>4. QED
    BY <1>1, <1>2, <2>1, <2>2, <2>3 DEF TypeInv
<1>4. LanesInv
  <2>1. InFrames(NewLane, <<>>) /\ Reached(NewLane, <<>>)
    BY <1>1 DEF InFrames, Reached, NewLane, Rising, Below, None
  <2>2. QED
    BY <1>2, <2>1 DEF LanesInv
<1>5. ~Holding(NoTaker) /\ NoTaker.pc = "idle"
  BY DEF Holding, NoTaker
<1>6. TakersInv /\ SlotInv
  BY <1>2, <1>5 DEF TakersInv, SlotInv, None
<1>7. BeatsInv
  BY <1>2 DEF BeatsInv, NewLane
<1>8. AnswerInv
  <2>1. Ordered(<<>>)
    BY <1>1 DEF Ordered
  <2>2. QED
    BY <1>2, <1>5, <2>1, Apart DEF AnswerInv
<1>9. QED
  BY <1>3, <1>4, <1>6, <1>7, <1>8 DEF LiveInv

LEMMA LiveStutters ==
  ASSUME LiveInv, UNCHANGED vars
  PROVE  LiveInv'
BY DEF vars, LiveInv, TypeInv, LanesInv, TakersInv, SlotInv, BeatsInv, AnswerInv, Attended

LEMMA LiveNext ==
  ASSUME LiveInv, [Next]_vars
  PROVE  LiveInv'
<1>1. CASE TurnBegins \/ TurnAbandoned
  BY <1>1, TurnBeginsKeeps
<1>2. CASE ThinkingFires
  BY <1>2, ThinkingFiresKeeps
<1>3. CASE AnswerTakes
  BY <1>3, AnswerTakesKeeps
<1>4. CASE StopTakes
  BY <1>4, OthersTakeKeeps
<1>5. CASE PartSent \/ PartFails \/ AnswerDone
  BY <1>5, PartsKeep
<1>6. ASSUME NEW p \in Placeholders,
             \/ Frame(p) \/ FlushDue(p) \/ FrameSettles(p) \/ PlaceholderPosted(p)
             \/ Fetch(p) \/ AckArrives(p) \/ AckTimesOut(p) \/ TtlTakes(p)
      PROVE  LiveInv'
  BY <1>6, FrameKeeps, FlushDueKeeps, FrameSettlesKeeps, PlaceholderPostedKeeps, FetchKeeps, OthersTakeKeeps
<1>7. ASSUME NEW t \in Takers, TakerStep(t) \/ FinalFails(t)
      PROVE  LiveInv'
  BY <1>7, BegunKeeps, DrainsKeeps, FinalSentKeeps, OtherDoneKeeps, FinalFailsKeeps DEF TakerStep
<1>8. CASE UNCHANGED vars
  BY <1>8, LiveStutters
<1>9. QED
  BY <1>1, <1>2, <1>3, <1>4, <1>5, <1>6, <1>7, <1>8 DEF Next

LEMMA LiveHolds == Spec => []LiveInv
<1>1. LiveInv /\ [Next]_vars => LiveInv'
  BY LiveNext
<1>2. QED
  BY <1>1, LiveStarts, PTL DEF Spec

-----------------------------------------------------------------------------
(* However a time to live, a /stop, an unfetched placeholder and failing   *)
(* submits come between the parts of an answer, they go out once each and  *)
(* in order (index.mjs:1173-1195).                                         *)
THEOREM PartsInOrder == Spec => []PartsOnceInOrder
<1>1. LiveInv => PartsOnceInOrder
  BY DEF LiveInv, AnswerInv, Ordered, PartsOnceInOrder
<1>2. QED
  BY <1>1, LiveHolds, PTL

(* A newer frame of a placeholder is never overwritten by an older one,    *)
(* and the terminal frame is the last, whoever of the three that compete   *)
(* for it sends it (live-reply.mjs:91-124, 157-163, index.mjs:968-977).    *)
THEOREM FramesRise == Spec => []NewestFrameStays
<1>1. LiveInv => NewestFrameStays
  BY DEF LiveInv, LanesInv, InFrames, Rising, NewestFrameStays
<1>2. QED
  BY <1>1, LiveHolds, PTL

(* No edit is submitted for a placeholder its peer has never fetched       *)
(* (live-reply.mjs:11-16, 131-155).                                        *)
THEOREM EditsReachTheirPlaceholder == Spec => []NoDanglingEdit
<1>1. LiveInv => NoDanglingEdit
  BY DEF LiveInv, LanesInv, Reached, NoDanglingEdit
<1>2. QED
  BY <1>1, LiveHolds, PTL

(* No placeholder ticks that nobody is about to retire: its time to live   *)
(* runs while it is in the map, and who took it out of the map waits for   *)
(* nothing else (index.mjs:963-978).                                       *)
THEOREM NoneTicksAlone == Spec => []SomeoneRetires
<1>1. LiveInv => SomeoneRetires
  BY DEF LiveInv, BeatsInv, Attended, SomeoneRetires
<1>2. QED
  BY <1>1, LiveHolds, PTL
=============================================================================
