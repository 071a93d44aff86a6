--------------------------- MODULE InstanceGuard ---------------------------
(***************************************************************************)
(* The guards that let one process at a time serve an identity: the file   *)
(* bot.pid of the chat bot (src/bot-core/index.mjs) and t3ams.pid with its *)
(* takeover mutex (src/bot-core/transports/t3ams/index.mjs). A process     *)
(* that finds the file reads who holds it; a file whose holder is dead is  *)
(* stale, and is taken over.                                               *)
(*                                                                         *)
(* Processes interleave at every call of the file system. A file has the   *)
(* process that created it, its text (None is empty), and whether it is    *)
(* older than a second; a file of this name created later is another one.  *)
(* Reading a file and its time is one step: what a file that came between  *)
(* adds is only another wait.                                              *)
(*                                                                         *)
(* Not modelled: errors of the file system, strangers with the process id  *)
(* in a stale file (the bot then refuses to start), the count of attempts  *)
(* (a process may give up whenever it waits).                              *)
(***************************************************************************)
EXTENDS Naturals, FiniteSets

CONSTANTS
  Procs,  \* processes started for the identity, each once
  PidOf,  \* their process ids, which the dead leave to others
  None,   \* no file, no text
  Drills  \* bounds: [kind, who, crashes, stalls]

VARIABLES
  drill,   \* the bounds of this behaviour; kind is "chat" or "t3ams"
  pidfile, \* None or [by, text, old]
  mutex,   \* the takeover file, likewise
  proc,    \* [at, saw]: where a process is, the file it judged
  harm,    \* ghost: what excuses two servers
  left     \* crashes and stalls that may still come

vars == <<drill, pidfile, mutex, proc, harm, left>>

(* "bare" is a chat bot that serves without a guard.                       *)
Running  == {p \in Procs : proc[p].at \notin {"new", "off"}}
Owners   == {p \in Procs : proc[p].at \in {"write", "serve", "erase"}}
Critical == {p \in Procs : proc[p].at \in {"sign", "again", "move", "release", "unlink"}}
Serving  == {p \in Procs : proc[p].at \in {"serve", "bare"}}

Created(p) == [by |-> p, text |-> None, old |-> FALSE]
Signed(f, p) == IF f # None /\ f.by = p THEN [f EXCEPT !.text = PidOf[p]] ELSE f

(* kill(pid, 0): a file with the reader's own process id is stale.         *)
PidIsAlive(pid, reader) == pid # PidOf[reader] /\ \E q \in Running : PidOf[q] = pid
(* Created a moment ago: its creator will write its process id.            *)
FreshAndEmpty(f) == f.text = None /\ ~f.old
(* Taken away from a process that has just created it, or holds it.        *)
Robbed(f) == f # None /\ f.by \in Running

Goes(p, at) == proc' = [proc EXCEPT ![p].at = at]
Judges(p, at, f) == proc' = [proc EXCEPT ![p] = [at |-> at, saw |-> f]]
Harmed(kind, holds) == harm' = IF holds THEN harm \cup {kind} ELSE harm

Init ==
  /\ drill \in Drills /\ left = [crashes |-> drill.crashes, stalls |-> drill.stalls]
  /\ pidfile = None /\ mutex = None /\ harm = {}
  /\ proc = [p \in Procs |-> [at |-> "new", saw |-> None]]

-----------------------------------------------------------------------------
(* A process id belongs to one running process.                            *)
Start(p) ==
  /\ proc[p].at = "new" /\ p \in drill.who /\ \A q \in Running : PidOf[q] # PidOf[p]
  /\ Goes(p, "open")
  /\ UNCHANGED <<drill, pidfile, mutex, harm, left>>

(* open(pidfile, "wx")                                                     *)
Open(p) ==
  /\ proc[p].at = "open"
  /\ IF pidfile = None THEN pidfile' = Created(p) /\ Goes(p, "write")
     ELSE Goes(p, "read") /\ UNCHANGED pidfile
  /\ UNCHANGED <<drill, mutex, harm, left>>

(* The descriptor is that of the file it created, wherever that is now.    *)
WritePid(p) ==
  /\ proc[p].at = "write" /\ Goes(p, "serve")
  /\ pidfile' = Signed(pidfile, p)
  /\ UNCHANGED <<drill, mutex, harm, left>>

-----------------------------------------------------------------------------
(* index.mjs                                                               *)

(* A file that is gone when it is read throws: the bot starts anyway.      *)
StartsBare(p) == pidfile = None /\ Goes(p, "bare") /\ Harmed("bare", TRUE)

ChatReads(p) ==
  /\ drill.kind = "chat" /\ proc[p].at = "read"
  /\ \/ StartsBare(p)
     \/ /\ pidfile # None /\ UNCHANGED harm
        /\ IF PidIsAlive(pidfile.text, p) THEN Goes(p, "off") ELSE Judges(p, "reread", pidfile)
  /\ UNCHANGED <<drill, pidfile, mutex, left>>

(* Another starter has just claimed it when the text changed.              *)
Rereads(p) ==
  /\ proc[p].at = "reread"
  /\ \/ StartsBare(p)
     \/ /\ pidfile # None /\ UNCHANGED harm
        /\ Goes(p, IF pidfile.text = proc[p].saw.text THEN "remove" ELSE "off")
  /\ UNCHANGED <<drill, pidfile, mutex, left>>

(* rm removes whatever is there by now.                                    *)
Removes(p) ==
  /\ proc[p].at = "remove" /\ Goes(p, "reopen")
  /\ pidfile' = None /\ Harmed("robbed", Robbed(pidfile))
  /\ UNCHANGED <<drill, mutex, left>>

Reopens(p) ==
  /\ proc[p].at = "reopen"
  /\ IF pidfile = None THEN pidfile' = Created(p) /\ Goes(p, "write")
     ELSE Goes(p, "off") /\ UNCHANGED pidfile
  /\ UNCHANGED <<drill, mutex, harm, left>>

-----------------------------------------------------------------------------
(* t3ams/index.mjs: acquirePidfile                                         *)

Reads(p) ==
  /\ drill.kind = "t3ams" /\ proc[p].at = "read"
  /\ CASE pidfile = None -> Goes(p, "open")
       [] pidfile # None /\ PidIsAlive(pidfile.text, p) -> Goes(p, "off")
       [] pidfile # None /\ FreshAndEmpty(pidfile) -> Goes(p, "open")
       [] OTHER -> Goes(p, "lock")
  /\ UNCHANGED <<drill, pidfile, mutex, harm, left>>

(* Mutant: what was judged before the mutex was taken is not read again. *)
LooksOnce(p) == Goes(p, IF pidfile = None THEN "release" ELSE "move")

(* Judged again under the mutex. process.exit skips the finally: a process *)
(* that refuses here leaves the mutex behind.                              *)
LooksAgain(p) ==
  CASE pidfile = None -> Goes(p, "release")
    [] pidfile # None /\ PidIsAlive(pidfile.text, p) -> Goes(p, "off")
    [] pidfile # None /\ FreshAndEmpty(pidfile) -> Goes(p, "release")
    [] OTHER -> Goes(p, "move")

ReadsAgain(p) ==
  /\ proc[p].at = "again" /\ LooksAgain(p)
  /\ UNCHANGED <<drill, pidfile, mutex, harm, left>>

(* rename to a name of its own, then rm                                    *)
Moves(p) ==
  /\ proc[p].at = "move" /\ Goes(p, "release") /\ pidfile' = None
  /\ UNCHANGED <<drill, mutex, harm, left>>

(* It gives up after so many attempts.                                     *)
GivesUp(p) ==
  /\ drill.kind = "t3ams"
  /\ (proc[p].at = "open" /\ pidfile # None) \/ (proc[p].at = "lock" /\ mutex # None)
  /\ Goes(p, "off")
  /\ UNCHANGED <<drill, pidfile, mutex, harm, left>>

-----------------------------------------------------------------------------
(* acquirePidTakeover, releasePidTakeover                                  *)

Locks(p) ==
  /\ proc[p].at = "lock"
  /\ IF mutex = None THEN mutex' = Created(p) /\ Goes(p, "sign")
     ELSE Goes(p, "inspect") /\ UNCHANGED mutex
  /\ UNCHANGED <<drill, pidfile, harm, left>>

Signs(p) ==
  /\ proc[p].at = "sign" /\ Goes(p, "again")
  /\ mutex' = Signed(mutex, p)
  /\ UNCHANGED <<drill, pidfile, harm, left>>

Inspects(p) ==
  /\ proc[p].at = "inspect"
  /\ Goes(p, IF mutex = None \/ PidIsAlive(mutex.text, p) \/ FreshAndEmpty(mutex) THEN "lock" ELSE "oust")
  /\ UNCHANGED <<drill, pidfile, mutex, harm, left>>

(* The mutex that is there by now may not be the stale one it inspected.   *)
Ousts(p) ==
  /\ proc[p].at = "oust" /\ Goes(p, "lock")
  /\ mutex' = None /\ Harmed("robbed", Robbed(mutex))
  /\ UNCHANGED <<drill, pidfile, left>>

Releases(p) ==
  /\ proc[p].at = "release"
  /\ Goes(p, IF mutex # None /\ mutex.text = PidOf[p] THEN "unlink" ELSE "open")
  /\ UNCHANGED <<drill, pidfile, mutex, harm, left>>

Unlinks(p) ==
  /\ proc[p].at = "unlink" /\ Goes(p, "open") /\ mutex' = None
  /\ UNCHANGED <<drill, pidfile, harm, left>>

-----------------------------------------------------------------------------
(* The end of a process, orderly or not, and time.                         *)

(* cleanupPidfile                                                          *)
Stops(p) ==
  /\ \/ proc[p].at = "bare" /\ Goes(p, "off")
     \/ /\ proc[p].at = "serve"
        /\ Goes(p, IF pidfile # None /\ pidfile.text = PidOf[p] THEN "erase" ELSE "off")
  /\ UNCHANGED <<drill, pidfile, mutex, harm, left>>

Erases(p) ==
  /\ proc[p].at = "erase" /\ Goes(p, "off") /\ pidfile' = None
  /\ UNCHANGED <<drill, mutex, harm, left>>

Dies(p) ==
  /\ p \in Running /\ left.crashes > 0
  /\ Goes(p, "off") /\ left' = [left EXCEPT !.crashes = @ - 1]
  /\ UNCHANGED <<drill, pidfile, mutex, harm>>

(* An empty file grows old: its creator died, or was stalled for a second. *)
GrowsOld(f) == f # None /\ FreshAndEmpty(f) /\ (f.by \in Running => left.stalls > 0)
Stalled(f) ==
  /\ Harmed("stalled", f.by \in Running)
  /\ left' = IF f.by \in Running THEN [left EXCEPT !.stalls = @ - 1] ELSE left

PidfileAges ==
  /\ GrowsOld(pidfile) /\ Stalled(pidfile) /\ pidfile' = [pidfile EXCEPT !.old = TRUE]
  /\ UNCHANGED <<drill, mutex, proc>>
MutexAges ==
  /\ GrowsOld(mutex) /\ Stalled(mutex) /\ mutex' = [mutex EXCEPT !.old = TRUE]
  /\ UNCHANGED <<drill, pidfile, proc>>

Takes(p) == Start(p) \/ Open(p) \/ WritePid(p) \/ Stops(p) \/ Erases(p) \/ Dies(p)
Chat(p) == ChatReads(p) \/ Rereads(p) \/ Removes(p) \/ Reopens(p)
Takeover(p) ==
  Reads(p) \/ ReadsAgain(p) \/ Moves(p) \/ GivesUp(p) \/ Locks(p) \/ Signs(p) \/ Inspects(p) \/ Ousts(p)
  \/ Releases(p) \/ Unlinks(p)

Next == (\E p \in Procs : Takes(p) \/ Chat(p) \/ Takeover(p)) \/ PidfileAges \/ MutexAges

Spec == Init /\ [][Next]_vars

-----------------------------------------------------------------------------
File == [by : Procs, text : {PidOf[p] : p \in Procs} \cup {None}, old : BOOLEAN]

TypeOK ==
  /\ pidfile \in File \cup {None} /\ mutex \in File \cup {None}
  /\ \A p \in Procs : proc[p].saw \in File \cup {None}
  /\ harm \subseteq {"bare", "robbed", "stalled"}

(* At most one process serves the identity (index.mjs:2496-2498), however  *)
(* many are started, stop, crash and take over a stale file. What excuses  *)
(* two of them: a chat bot that found the file gone when it read it; a     *)
(* chat bot's rm in the window its comment names, or a T3ams mutex that a  *)
(* contender moved which had inspected an older one; a process that stood  *)
(* still for a second between creating its file and writing to it.         *)
OneServes == harm # {} \/ Cardinality(Serving) <= 1

(* The takeover mutex serializes the recovery, "so a second contender      *)
(* cannot move the first contender's newly created pidfile"                *)
(* (t3ams/index.mjs:4257-4259).                                            *)
NewPidfileStays ==
  \A p \in Procs : proc[p].at \in {"write", "serve"} => pidfile # None /\ pidfile.by = p

=============================================================================
