------------------------------ MODULE LiveReply ------------------------------
(***************************************************************************)
(* Live replies (src/bot-core/lib/live-reply.mjs) and the placeholders of  *)
(* bot-core that use them (src/bot-core/index.mjs): one peer, whose turns  *)
(* run one after the other. A slow turn posts a placeholder, edits it with *)
(* throttled progress frames once the peer has acknowledged it, and        *)
(* retires it; the answer goes out as new messages. The answer, the        *)
(* placeholder's time to live and /stop compete for retiring it.           *)
(*                                                                         *)
(* Not modelled: the wording of frames, token statistics, the edits that   *)
(* bridge consumers make of old messages, and the cap of 500 lanes.        *)
(***************************************************************************)
EXTENDS Naturals, Sequences, FiniteSets, SequencesExt

CONSTANTS
  Turns,      \* bound: turns of the peer
  Parts,      \* messages one answer is split into
  MaxFrames,  \* bound: progress frames offered to each placeholder
  MaxStops,   \* bound: /stop messages of the peer
  MaxFaults   \* bound: submits that fail

ASSUME ConstantsAssumption ==
  /\ Turns \in Nat \ {0} /\ Parts \in Nat \ {0}
  /\ MaxFrames \in Nat /\ MaxStops \in Nat /\ MaxFaults \in Nat

VARIABLES
  turn,      \* the turn that runs or ran last
  phase,     \* what that turn is doing
  thinking,  \* thinkingTimers has a timer for the peer
  slot,      \* livePlaceholders: the placeholder of the peer, or 0
  lane,      \* the live lane of each placeholder
  taker,     \* who retires a placeholder and how far it is
  wire,      \* the frames of each placeholder the node took
  parts,     \* the answer parts of each turn the node took
  stops,     \* /stop messages so far
  faults     \* failed submits so far

vars == <<turn, phase, thinking, slot, lane, taker, wire, parts, stops, faults>>

Placeholders == 1 .. Turns
Answer == Turns + 1
Stop   == Turns + 2
Takers == 1 .. Stop      \* up to Turns: the time to live of that placeholder
None   == 0

(* A lane: frames are numbered; 0 is the placeholder text itself.          *)
NewLane == [state |-> "none", ack |-> "pending", fetched |-> FALSE,
            final |-> FALSE, flight |-> None, pend |-> None, last |-> None, made |-> 0,
            timer |-> FALSE, beats |-> FALSE, ttl |-> FALSE]
NoTaker == [pc |-> "idle", p |-> None, edit |-> FALSE, from |-> 1]
Terminal == MaxFrames + 1

Init ==
  /\ turn = 0 /\ phase = "idle" /\ thinking = FALSE /\ slot = None
  /\ lane = [p \in Placeholders |-> NewLane]
  /\ taker = [t \in Takers |-> NoTaker]
  /\ wire = [p \in Placeholders |-> <<>>]
  /\ parts = [t \in 1 .. Turns |-> <<>>]
  /\ stops = 0 /\ faults = 0

Fails == faults < MaxFaults /\ faults' = faults + 1

-----------------------------------------------------------------------------
(* The lane: throttled, coalescing edits.                                  *)

(* Whether flush submits the queued frame.                                 *)
StartsFlight(L) == ~L.final /\ L.flight = None /\ L.pend # None /\ L.pend # L.last

(* flush: the queued frame starts its submit, or nothing new is queued.    *)
Flush(L) ==
  IF StartsFlight(L) THEN [L EXCEPT !.flight = L.pend, !.pend = None, !.timer = FALSE]
  ELSE [L EXCEPT !.pend = IF L.final \/ L.flight # None THEN @ ELSE None, !.timer = FALSE]

(* Mutant: frames go out before the peer has the placeholder. *)
HeldNever(L) == FALSE

(* Edits wait for the acknowledgement of the placeholder.                  *)
Held(L) == L.ack = "pending"

(* scheduleFlush: when the interval since the last edit has passed, which  *)
(* may be at once.                                                         *)
Schedule(L) ==
  IF L.final \/ L.flight # None \/ L.timer \/ Held(L) THEN L
  ELSE IF L.ack = "failed" THEN [L EXCEPT !.pend = None]
  ELSE [L EXCEPT !.timer = TRUE]

(* update: the newest frame replaces the queued one.                       *)
Update(L) == IF L.final THEN L ELSE Schedule([L EXCEPT !.pend = L.made + 1, !.made = @ + 1])

LaneBecomes(p, L) == lane' = [lane EXCEPT ![p] = L]

(* The heartbeat or a tool event renders a frame.                          *)
Frame(p) ==
  /\ lane[p].beats /\ lane[p].made < MaxFrames
  /\ LaneBecomes(p, Update(lane[p]))
  /\ UNCHANGED <<turn, phase, thinking, slot, taker, wire, parts, stops, faults>>

FlushDue(p) ==
  /\ lane[p].timer
  /\ LaneBecomes(p, Flush(lane[p]))
  /\ UNCHANGED <<turn, phase, thinking, slot, taker, wire, parts, stops, faults>>

(* The submit of a frame settles; one that failed is dropped.              *)
FrameSettles(p) ==
  /\ lane[p].flight # None
  /\ \/ /\ wire' = [wire EXCEPT ![p] = Append(@, lane[p].flight)]
        /\ LaneBecomes(p, Schedule([lane[p] EXCEPT !.flight = None, !.last = lane[p].flight]))
        /\ UNCHANGED faults
     \/ /\ Fails
        /\ LaneBecomes(p, Schedule([lane[p] EXCEPT !.flight = None]))
        /\ UNCHANGED wire
  /\ UNCHANGED <<turn, phase, thinking, slot, taker, parts, stops>>

(* The peer fetches the placeholder; its acknowledgement reaches the bot   *)
(* later, or after the bot has given up waiting for it. Bound: not after   *)
(* the placeholder was retired.                                            *)
Fetch(p) ==
  /\ lane[p].state = "live" /\ ~lane[p].fetched
  /\ LaneBecomes(p, [lane[p] EXCEPT !.fetched = TRUE])
  /\ UNCHANGED <<turn, phase, thinking, slot, taker, wire, parts, stops, faults>>

AckArrives(p) ==
  /\ lane[p].state = "live" /\ lane[p].fetched /\ lane[p].ack = "pending"
  /\ LaneBecomes(p, Schedule([lane[p] EXCEPT !.ack = "acked"]))
  /\ UNCHANGED <<turn, phase, thinking, slot, taker, wire, parts, stops, faults>>

AckTimesOut(p) ==
  /\ lane[p].state = "live" /\ lane[p].ack = "pending"
  /\ LaneBecomes(p, [lane[p] EXCEPT !.ack = "failed", !.pend = None])
  /\ UNCHANGED <<turn, phase, thinking, slot, taker, wire, parts, stops, faults>>

-----------------------------------------------------------------------------
(* The placeholder of a slow turn.                                         *)

TurnBegins ==
  /\ phase = "idle" /\ turn < Turns
  /\ turn' = turn + 1
  /\ phase' = "running"
  /\ thinking' = TRUE
  /\ UNCHANGED <<slot, lane, taker, wire, parts, stops, faults>>

(* Mutant: the timer posts although the previous placeholder is open. *)
SlotFreeAlways == TRUE

SlotFree == slot = None

(* The timer fires: the placeholder is posted unless one is still open.    *)
ThinkingFires ==
  /\ thinking /\ thinking' = FALSE
  /\ IF SlotFree /\ lane[turn].state = "none"
       THEN /\ slot' = turn
            /\ LaneBecomes(turn, [lane[turn] EXCEPT !.state = "sending"])
       ELSE UNCHANGED <<slot, lane>>
  /\ UNCHANGED <<turn, phase, taker, wire, parts, stops, faults>>

(* begin resolves: heartbeat and time to live start; or its submit failed. *)
PlaceholderPosted(p) ==
  /\ lane[p].state = "sending"
  /\ \/ /\ LaneBecomes(p, [lane[p] EXCEPT !.state = "live", !.beats = TRUE, !.ttl = TRUE])
        /\ UNCHANGED faults
     \/ Fails /\ LaneBecomes(p, [lane[p] EXCEPT !.state = "failed"])
  /\ UNCHANGED <<turn, phase, thinking, slot, taker, wire, parts, stops>>

(* The turn ends without an answer: an error, or it was stopped.           *)
TurnAbandoned ==
  /\ phase = "running" /\ phase' = "idle"
  /\ UNCHANGED <<turn, thinking, slot, lane, taker, wire, parts, stops, faults>>

-----------------------------------------------------------------------------
(* Retiring: whoever takes the placeholder out of the map first.           *)

(* Mutant: the placeholder stays in the map until it is retired. *)
LeftInSlot == slot

(* takeLivePlaceholder deletes the entry before it awaits anything.        *)
SlotAfterTake == None

Takes(t) ==
  /\ taker[t].pc = "idle"
  /\ taker' = [taker EXCEPT ![t] = [NoTaker EXCEPT !.pc = IF slot = None THEN "none" ELSE "begun",
                                                   !.p = slot]]
  /\ slot' = SlotAfterTake

AnswerTakes ==
  /\ phase = "running" /\ phase' = "delivering"
  /\ Takes(Answer)
  /\ UNCHANGED <<turn, thinking, lane, wire, parts, stops, faults>>

(* The timer callback runs takeLivePlaceholder for whatever is in the map. *)
TtlTakes(p) ==
  /\ lane[p].ttl
  /\ LaneBecomes(p, [lane[p] EXCEPT !.ttl = FALSE])
  /\ Takes(p)
  /\ UNCHANGED <<turn, phase, thinking, wire, parts, stops, faults>>

StopTakes ==
  /\ stops < MaxStops /\ stops' = stops + 1
  /\ Takes(Stop)
  /\ phase' \in IF phase = "running" THEN {"running", "idle"} ELSE {phase}
  /\ UNCHANGED <<turn, thinking, lane, wire, parts, faults>>

TakerGoes(t, pc) == taker' = [taker EXCEPT ![t].pc = pc]

(* The placeholder promise has resolved: its timers are cleared, and       *)
(* finalize marks the lane before it awaits anything.                      *)
Begun(t) ==
  /\ taker[t].pc = "begun"
  /\ LET p == taker[t].p
         L == lane[p]
     IN /\ L.state \in {"live", "failed"}
        /\ IF L.state = "failed" \/ L.final
             THEN TakerGoes(t, "none") /\ UNCHANGED lane
             ELSE /\ TakerGoes(t, "drain")
                  /\ LaneBecomes(p, [L EXCEPT !.beats = FALSE, !.ttl = FALSE, !.final = TRUE,
                                              !.pend = None, !.timer = FALSE])
  /\ UNCHANGED <<turn, phase, thinking, slot, wire, parts, stops, faults>>

(* Mutant: the terminal frame does not wait for the one in flight. *)
DrainedAlways(p) == TRUE

Drained(p) == lane[p].flight = None

Drains(t) ==
  /\ taker[t].pc = "drain" /\ Drained(taker[t].p)
  /\ TakerGoes(t, "settle")
  /\ UNCHANGED <<turn, phase, thinking, slot, lane, wire, parts, stops, faults>>

(* settleAck: the acknowledgement, or ten seconds without one; a peer that *)
(* never fetched the placeholder gets a message that supersedes it.        *)
Settles(t) ==
  /\ taker[t].pc = "settle"
  /\ taker' = [taker EXCEPT ![t].pc = "final", ![t].edit = lane[taker[t].p].ack = "acked"]
  /\ UNCHANGED <<turn, phase, thinking, slot, lane, wire, parts, stops, faults>>

(* Mutant: the answer's first part is sent although it already went out in *)
(* the place of the placeholder. *)
AllParts(t) == 1

(* The part an answer goes on with: the superseding message held the first.*)
NextPart(t) == IF t = Answer /\ ~taker[t].edit THEN 2 ELSE 1

FinalSent(t) ==
  /\ taker[t].pc = "final"
  /\ LET p == taker[t].p
     IN /\ wire' = IF taker[t].edit THEN [wire EXCEPT ![p] = Append(@, Terminal)] ELSE wire
        /\ LaneBecomes(p, [NewLane EXCEPT !.state = "closed", !.final = TRUE,
                                          !.fetched = lane[p].fetched,
                                          !.flight = lane[p].flight])
        /\ parts' = IF t = Answer /\ ~taker[t].edit THEN [parts EXCEPT ![turn] = Append(@, 1)]
                    ELSE parts
        /\ taker' = [taker EXCEPT ![t].pc = "done", ![t].from = NextPart(t)]
  /\ UNCHANGED <<turn, phase, thinking, slot, stops, faults>>

(* The terminal submit failed: nothing was delivered, the lane is open     *)
(* again, and an answer still sends all its parts.                         *)
FinalFails(t) ==
  /\ taker[t].pc = "final" /\ Fails
  /\ LaneBecomes(taker[t].p, [lane[taker[t].p] EXCEPT !.final = FALSE])
  /\ TakerGoes(t, "done")
  /\ UNCHANGED <<turn, phase, thinking, slot, wire, parts, stops>>

(* sendText disarms the thinking timer and submits the next part.          *)
PartSent ==
  /\ taker[Answer].pc \in {"none", "done"} /\ taker[Answer].from <= Parts
  /\ thinking' = FALSE
  /\ parts' = [parts EXCEPT ![turn] = Append(@, taker[Answer].from)]
  /\ taker' = [taker EXCEPT ![Answer].from = @ + 1]
  /\ UNCHANGED <<turn, phase, slot, lane, wire, stops, faults>>

(* The submit of a part failed: the turn ends in the middle of its answer. *)
PartFails ==
  /\ taker[Answer].pc \in {"none", "done"} /\ taker[Answer].from <= Parts
  /\ thinking' = FALSE
  /\ Fails
  /\ phase' = "idle"
  /\ taker' = [taker EXCEPT ![Answer] = NoTaker]
  /\ UNCHANGED <<turn, slot, lane, wire, parts, stops>>

AnswerDone ==
  /\ taker[Answer].pc \in {"none", "done"} /\ taker[Answer].from > Parts
  /\ phase' = "idle"
  /\ taker' = [taker EXCEPT ![Answer] = NoTaker]
  /\ UNCHANGED <<turn, thinking, slot, lane, wire, parts, stops, faults>>

(* /stop without a placeholder sends a note, which disarms the timer.      *)
OtherDone(t) ==
  /\ t # Answer /\ taker[t].pc \in {"none", "done"}
  /\ taker' = [taker EXCEPT ![t] = NoTaker]
  /\ thinking' = IF t = Stop /\ taker[t].pc = "none" THEN FALSE ELSE thinking
  /\ UNCHANGED <<turn, phase, slot, lane, wire, parts, stops, faults>>

-----------------------------------------------------------------------------
TakerStep(t) == Begun(t) \/ Drains(t) \/ Settles(t) \/ FinalSent(t) \/ OtherDone(t)

Next ==
  \/ TurnBegins \/ ThinkingFires \/ TurnAbandoned
  \/ AnswerTakes \/ StopTakes \/ PartSent \/ PartFails \/ AnswerDone
  \/ \E p \in Placeholders :
       \/ Frame(p) \/ FlushDue(p) \/ FrameSettles(p) \/ PlaceholderPosted(p)
       \/ Fetch(p) \/ AckArrives(p) \/ AckTimesOut(p) \/ TtlTakes(p)
  \/ \E t \in Takers : TakerStep(t) \/ FinalFails(t)

Spec == Init /\ [][Next]_vars

-----------------------------------------------------------------------------
(* Types; the map holds no retired placeholder.                            *)
TypeOK ==
  /\ turn \in 0 .. Turns /\ phase \in {"idle", "running", "delivering"}
  /\ thinking \in BOOLEAN /\ slot \in 0 .. Turns
  /\ DOMAIN lane = Placeholders /\ DOMAIN taker = Takers
  /\ \A p \in Placeholders : /\ lane[p].flight \in 0 .. MaxFrames
                             /\ lane[p].pend \in 0 .. MaxFrames
                             /\ ToSet(wire[p]) \subseteq 1 .. Terminal
  /\ slot # None => lane[slot].state # "closed"

(* A newer frame is never overwritten by an older one, and the terminal    *)
(* frame is the last of its placeholder and comes once, whoever retires it *)
(* and whatever frame is queued or in flight then (live-reply.mjs:91-124,  *)
(* 157-163, index.mjs:968-977).                                            *)
NewestFrameStays ==
  \A p \in Placeholders : \A i \in 1 .. Len(wire[p]) - 1 : wire[p][i] < wire[p][i + 1]

(* No edit goes out for a placeholder the peer never fetched: it would be  *)
(* an edit of a message that does not exist (live-reply.mjs:11-16).        *)
NoDanglingEdit == \A p \in Placeholders : wire[p] # <<>> => lane[p].fetched

(* The parts of an answer go out once each and in order, whether the first *)
(* took the place of an unfetched placeholder or not, and although a time  *)
(* to live, a /stop or a failed terminal frame comes in between            *)
(* (index.mjs:1173-1195).                                                  *)
PartsOnceInOrder ==
  \A t \in 1 .. Turns : \A i \in 1 .. Len(parts[t]) : parts[t][i] = i

(* A placeholder whose heartbeat ticks is in the map with its time to live *)
(* running, or has been taken by somebody who waits for nothing else: none *)
(* is left to tick for ever (index.mjs:963-978).                           *)
SomeoneRetires ==
  \A p \in Placeholders : lane[p].beats =>
    \/ slot = p /\ lane[p].ttl
    \/ \E t \in Takers : taker[t].pc = "begun" /\ taker[t].p = p

=============================================================================
