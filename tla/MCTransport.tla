---------------------------- MODULE MCTransport ----------------------------
(***************************************************************************)
(* Small instances of two components of the transport, checked in one run: *)
(* the messages that are owed an answer (OwedReplies) and the files that   *)
(* messages bring (HopTransfer). They share no variable: a behaviour runs  *)
(* the component named by part, and the other rests in a first state.      *)
(***************************************************************************)
EXTENDS OwedReplies, Transport, TLC

CONSTANTS f1, f2, r1, r2, r3

VARIABLE part

owedVars == <<owed, answer, seen, ackDue, queued, admitting, opener, session, work, turn, turns,
              pending, disk, posted, accepted, acked, out, risky, unsent, faults>>
fileVars == <<pool, up, ask, job, queue, used, inflight, cache, plan, left>>
transportVars == <<part, owedVars, fileVars>>

-----------------------------------------------------------------------------
(* Two files, one in two chunks, and two requests for the other one; any   *)
(* two faults; a pool and a cache that are too small.                      *)
FaultKinds == {"loss", "refuse", "alter", "late", "disk", "crash", "expire"}
Wide == [pool |-> 3, queue |-> 3, cache |-> 3]
Sent(faulty, room) ==
  [bot |-> TRUE, files |-> {f1, f2}, asks |-> {r1, r2, r3},
   faults |-> faulty @@ [k \in FaultKinds |-> 0], room |-> room]

TwoFiles == f1 :> 2 @@ f2 :> 1
Asked    == r1 :> f1 @@ r2 :> f2 @@ r3 :> f2
FilePlans ==
  {Sent([loss |-> 2], Wide), Sent([loss |-> 1, refuse |-> 1], Wide), Sent([refuse |-> 1, alter |-> 1], Wide),
   Sent([late |-> 1, expire |-> 1], [Wide EXCEPT !.cache = 2]),
   Sent([disk |-> 1, crash |-> 1], [Wide EXCEPT !.cache = 2]),
   Sent([crash |-> 0], [Wide EXCEPT !.pool = 2]),
   Sent([crash |-> 1], [Wide EXCEPT !.cache = 1]),
   [Sent([loss |-> 1, refuse |-> 1], Wide) EXCEPT !.bot = FALSE, !.asks = {r1, r2}]}

-----------------------------------------------------------------------------
TransportInit ==
  /\ part \in {"owed", "files"}
  /\ Init
  /\ Hop!Init /\ (part = "files" \/ left.loss = 2)

TransportNext ==
  \/ part = "owed" /\ Next /\ UNCHANGED <<part, fileVars>>
  \/ part = "files" /\ Hop!Next /\ UNCHANGED <<part, owedVars>>

(* The fairness of the modules, for the component that runs.               *)
TransportSpec ==
  /\ TransportInit /\ [][TransportNext]_transportVars
  /\ WF_owedVars(part = "owed" /\ StoreSteps)
  /\ WF_owedVars(part = "owed" /\ OpenerSteps)
  /\ \A p \in Peers : /\ WF_owedVars(part = "owed" /\ SessionSteps(p))
                      /\ WF_owedVars(part = "owed" /\ WorkSteps(p))
  /\ WF_fileVars(part = "files" /\ Hop!Works)

-----------------------------------------------------------------------------
(* A property of HopTransfer, explained there.                             *)
(* A download that waits for capacity gets it                              *)
(* (index.mjs:488-504, 570-575).                                           *)
EveryFetchEnds == part = "files" => Hop!EveryFetchEnds

=============================================================================
