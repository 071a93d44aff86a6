--------------------------- MODULE DurableSnapshot ---------------------------
(***************************************************************************)
(* What the state file promises to the rest of bot-core: it holds one of   *)
(* the saved snapshots, never an older one than before, and whoever is     *)
(* told that a flush succeeded finds in it everything saved up to the call *)
(* (src/bot-core/lib/session-store.mjs 3-4).                               *)
(*                                                                         *)
(* Snapshots are numbered in the order of their saves.                     *)
(***************************************************************************)
EXTENDS Naturals

CONSTANT Callers   \* those who wait for a flush

VARIABLES
  latest,   \* the newest snapshot of the running process
  disk,     \* the snapshot in the state file, 0 when there is none
  asked     \* what each caller was promised and told

vars == <<latest, disk, asked>>

Nobody == [state |-> "idle", ticket |-> 0]

Init ==
  /\ latest = 0
  /\ disk = 0
  /\ asked = [c \in Callers |-> Nobody]

Save ==
  /\ latest' = latest + 1
  /\ UNCHANGED <<disk, asked>>

(* A caller asks for everything saved so far, its own snapshot included,   *)
(* and is told at once when nothing is left to write.                      *)
Ask(c) ==
  /\ asked[c].state = "idle"
  /\ latest' \in {latest, latest + 1}
  /\ \E s \in {"wait", "ok"} :
       /\ s = "ok" => latest' <= disk
       /\ asked' = [asked EXCEPT ![c] = [state |-> s, ticket |-> latest']]
  /\ UNCHANGED disk

Persist ==
  /\ disk' \in (disk + 1) .. latest
  /\ UNCHANGED <<latest, asked>>

(* Some callers are told the outcome, success only when it is true.        *)
Tell ==
  /\ \E S \in SUBSET {c \in Callers : asked[c].state = "wait"}, r \in {"ok", "failed"} :
       /\ r = "ok" => \A c \in S : asked[c].ticket <= disk
       /\ asked' = [c \in Callers |-> IF c \in S THEN [asked[c] EXCEPT !.state = r] ELSE asked[c]]
  /\ UNCHANGED <<latest, disk>>

Leave(c) ==
  /\ asked[c].state \in {"ok", "failed"}
  /\ asked' = [asked EXCEPT ![c] = Nobody]
  /\ UNCHANGED <<latest, disk>>

(* A restarted process continues from the state file.                      *)
Restart ==
  /\ latest' = disk
  /\ asked' = [c \in Callers |-> Nobody]
  /\ UNCHANGED disk

Next == Save \/ Persist \/ Tell \/ Restart \/ \E c \in Callers : Ask(c) \/ Leave(c)

Spec == Init /\ [][Next]_vars
=============================================================================
