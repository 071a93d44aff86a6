----------------------------- MODULE StateStore ------------------------------
(***************************************************************************)
(* The state file of bot-core (src/bot-core/lib/session-store.mjs): a      *)
(* debounced background save, flush with one drain shared by every caller, *)
(* the write to a temporary file with its rename, the retry after a        *)
(* failure, and a crash at any point.                                      *)
(*                                                                         *)
(* Snapshots are numbered in the order of their saves; 0 is null. The      *)
(* timer fires at any time after it was set: debounce and retry delays are *)
(* left out. Left out as well: a file that cannot be parsed, and a         *)
(* temporary file that cannot be removed.                                  *)
(***************************************************************************)
EXTENDS Naturals

CONSTANTS
  Callers,      \* those who await a flush: handlers, turns, the shutdown
  MaxSaves,     \* bound: snapshots numbered so far
  MaxFails,     \* bound: writes that fail
  MaxCrashes    \* bound: crashes of the process

ASSUME BoundsAssumption == MaxSaves \in Nat /\ MaxFails \in Nat /\ MaxCrashes \in Nat

VARIABLES
  latest,    \* the newest snapshot of the running process
  pending,   \* pending: the snapshot still to be written
  stage,     \* where the write of the drain is; "none": flushing is null
  data,      \* the snapshot that is being written
  timer,     \* a flush is scheduled
  seq,       \* tempSequence
  stale,     \* temporary files left by a crash whose names this process uses
  disk,      \* the snapshot in the state file
  asked,     \* what each caller waits for, and what it was told
  faults     \* failed writes and crashes so far

vars == <<latest, pending, stage, data, timer, seq, stale, disk, asked, faults>>

Nobody == [state |-> "idle", ticket |-> 0]
Idle   == stage = "none"

Init ==
  /\ latest = 0 /\ pending = 0 /\ stage = "none" /\ data = 0
  /\ timer = FALSE
  /\ seq = 0 /\ stale = {}
  /\ disk = 0
  /\ asked = [c \in Callers |-> Nobody]
  /\ faults = [fails |-> 0, crashes |-> 0]

(* Everybody who waits for the drain is told how it ended.                 *)
Told(result) ==
  asked' = [c \in Callers |-> IF asked[c].state = "wait" THEN [asked[c] EXCEPT !.state = result]
                              ELSE asked[c]]

(* Mutant: the snapshot taken by the drain stays pending. *)
BeginAndKeep(snapshot) ==
  /\ stage' = "opening"
  /\ data' = snapshot
  /\ pending' = snapshot

(* The drain takes the pending snapshot.                                   *)
Begin(snapshot) ==
  /\ stage' = "opening"
  /\ data' = snapshot
  /\ pending' = 0

-----------------------------------------------------------------------------
(* save: the newest snapshot replaces the pending one.                     *)
Save ==
  /\ latest < MaxSaves
  /\ latest' = latest + 1
  /\ pending' = latest'
  /\ timer' = TRUE
  /\ UNCHANGED <<stage, data, seq, stale, disk, asked, faults>>

(* save and flush in one tick: join the drain, or start one.               *)
SaveAndFlush(c) ==
  /\ asked[c].state = "idle"
  /\ latest < MaxSaves
  /\ latest' = latest + 1
  /\ asked' = [asked EXCEPT ![c] = [state |-> "wait", ticket |-> latest']]
  /\ timer' = FALSE
  /\ \/ ~Idle /\ pending' = latest' /\ UNCHANGED <<stage, data>>
     \/ Idle /\ Begin(latest')
  /\ UNCHANGED <<seq, stale, disk, faults>>

(* flush alone, as the shutdown does it.                                   *)
Flush(c) ==
  /\ asked[c].state = "idle"
  /\ timer' = FALSE
  /\ \/ /\ ~Idle \/ pending # 0
        /\ asked' = [asked EXCEPT ![c] = [state |-> "wait", ticket |-> latest]]
        /\ IF Idle THEN Begin(pending) ELSE UNCHANGED <<pending, stage, data>>
     \/ /\ Idle /\ pending = 0
        /\ asked' = [asked EXCEPT ![c] = [state |-> "ok", ticket |-> latest]]
        /\ UNCHANGED <<pending, stage, data>>
  /\ UNCHANGED <<latest, seq, stale, disk, faults>>

(* The scheduled flush, which nobody awaits.                               *)
TimerFires ==
  /\ timer
  /\ timer' = FALSE
  /\ IF Idle /\ pending # 0 THEN Begin(pending) ELSE UNCHANGED <<pending, stage, data>>
  /\ UNCHANGED <<latest, seq, stale, disk, asked, faults>>

-----------------------------------------------------------------------------
(* The write.                                                              *)

Opens ==
  /\ stage = "opening"
  /\ seq' = seq + 1
  /\ seq' \notin stale
  /\ stage' = "open"
  /\ UNCHANGED <<latest, pending, data, timer, stale, disk, asked, faults>>

Renames ==
  /\ stage = "open"
  /\ stage' = "renamed"
  /\ disk' = data
  /\ UNCHANGED <<latest, pending, data, timer, seq, stale, asked, faults>>

(* Mutant: the drain ends with the write it began. *)
ReturnsAtOnce ==
  /\ stage = "renamed"
  /\ stage' = "none"
  /\ data' = 0
  /\ Told("ok")
  /\ UNCHANGED <<latest, pending, timer, seq, stale, disk, faults>>

(* The drain goes on with what was saved meanwhile, or ends.               *)
Returns ==
  /\ stage = "renamed"
  /\ IF pending # 0
       THEN Begin(pending) /\ UNCHANGED asked
       ELSE /\ stage' = "none"
            /\ data' = 0
            /\ UNCHANGED pending
            /\ Told("ok")
  /\ UNCHANGED <<latest, timer, seq, stale, disk, faults>>

(* Mutant: the failed snapshot is retained although a newer one was saved. *)
GivenUpForOlder ==
  /\ stage' = "none"
  /\ data' = 0
  /\ pending' = data
  /\ timer' = TRUE
  /\ Told("failed")

(* The drain stops: a newer snapshot stays pending, else the failed one.   *)
GivenUp ==
  /\ stage' = "none"
  /\ data' = 0
  /\ pending' = IF pending = 0 THEN data ELSE pending
  /\ timer' = TRUE
  /\ Told("failed")

(* A full disk, a mount that went away: before the rename, and before the  *)
(* name is taken when it is the directory that cannot be made.             *)
Fails ==
  /\ stage \in {"opening", "open"}
  /\ faults.fails < MaxFails
  /\ faults' = [faults EXCEPT !.fails = @ + 1]
  /\ seq' \in IF stage = "opening" THEN {seq, seq + 1} ELSE {seq}
  /\ stale' = stale \ {seq'}
  /\ GivenUp
  /\ UNCHANGED <<latest, disk>>

(* The name is taken by a file a crash left behind, which is removed now.  *)
Collides ==
  /\ stage = "opening"
  /\ seq' = seq + 1
  /\ seq' \in stale
  /\ stale' = stale \ {seq'}
  /\ GivenUp
  /\ UNCHANGED <<latest, disk, faults>>

(* A caller goes on with what it was told.                                 *)
Leaves(c) ==
  /\ asked[c].state \in {"ok", "failed"}
  /\ asked' = [asked EXCEPT ![c] = Nobody]
  /\ UNCHANGED <<latest, pending, stage, data, timer, seq, stale, disk, faults>>

(* The next process has the same process id, as in a container, or not.    *)
Crash ==
  /\ faults.crashes < MaxCrashes
  /\ faults' = [faults EXCEPT !.crashes = @ + 1]
  /\ latest' = disk
  /\ pending' = 0 /\ stage' = "none" /\ data' = 0
  /\ timer' = FALSE
  /\ seq' = 0
  /\ stale' \in {{}, IF stage = "open" THEN stale \cup {seq} ELSE stale}
  /\ asked' = [c \in Callers |-> Nobody]
  /\ UNCHANGED disk

-----------------------------------------------------------------------------
Write == Opens \/ Renames \/ Returns \/ Fails \/ Collides

Next ==
  \/ Save \/ TimerFires \/ Opens \/ Renames \/ Returns \/ Fails \/ Collides \/ Crash
  \/ \E c \in Callers : SaveAndFlush(c) \/ Flush(c) \/ Leaves(c)

(* Timers fire and file operations settle.                                 *)
Fairness == WF_vars(TimerFires) /\ WF_vars(Write)

Spec == Init /\ [][Next]_vars /\ Fairness

-----------------------------------------------------------------------------
(* The drain never holds a snapshot that is not older than the pending one. *)
TypeOK ==
  /\ latest \in Nat
  /\ pending \in 0 .. latest
  /\ data \in 0 .. latest
  /\ disk \in 0 .. latest
  /\ stage \in {"none", "opening", "open", "renamed"}
  /\ Idle <=> data = 0
  /\ pending # 0 => data < pending
  /\ timer \in BOOLEAN
  /\ seq \in Nat /\ stale \subseteq Nat
  /\ asked \in [Callers -> [state : {"idle", "wait", "ok", "failed"}, ticket : Nat]]
  /\ \A c \in Callers : asked[c].ticket <= latest
  /\ faults \in [fails : 0 .. MaxFails, crashes : 0 .. MaxCrashes]

(***************************************************************************)
(* A caller that was told its flush succeeded finds everything it asked    *)
(* for in the state file, whatever was saved, written or failed meanwhile: *)
(* it never acknowledges an older snapshot (session-store.mjs 50-53).      *)
(***************************************************************************)
FlushedIsDurable == \A c \in Callers : asked[c].state = "ok" => asked[c].ticket <= disk

(* The state file keeps the promises of DurableSnapshot.                   *)
Snapshots == INSTANCE DurableSnapshot
KeepsSnapshots == Snapshots!Spec

(***************************************************************************)
(* A saved snapshot reaches the disk, it or a newer one, although nobody   *)
(* saves again and writes fail in between (session-store.mjs 72-75), unless *)
(* the process ends.                                                       *)
(***************************************************************************)
SavedReachesDisk == \A v \in 1 .. MaxSaves : latest = v ~> disk >= v \/ latest < v
=============================================================================
