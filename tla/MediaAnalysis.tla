--------------------------- MODULE MediaAnalysis ---------------------------
(***************************************************************************)
(* The analysis of attachments by an outside provider: the budget that is  *)
(* reserved and written to disk before any byte leaves the bot, the small  *)
(* queue of calls, the isolated worker that calls the provider, the edits  *)
(* and deletions that withdraw a message meanwhile, and restarts.          *)
(*   transports/t3ams/t3ams-media-budget.mjs, t3ams-media-analyzer.mjs     *)
(*   transports/t3ams/index.mjs 846-879, 3117-3139, 3177-3190, 3425-3491   *)
(* Each message is alone in its lane, and has a file that can be analyzed. *)
(* Not modelled: the limits on files and bytes (a file is readable or not),*)
(* the request and its validation, a clock that runs backwards, the rest   *)
(* of a turn (T3amsJournal).                                               *)
(***************************************************************************)
EXTENDS Integers, Sequences, FiniteSets, SequencesExt

CONSTANTS
  Messages,      \* messages with attachments
  Sender,        \* [Messages -> senders]
  MaxRev,        \* bound: revisions of a message
  GlobalCap,     \* globalCapacity, tokens
  GlobalPeriod,  \* globalWindowMs / globalCapacity: ticks for a token
  SenderCap,     \* senderCapacity, tokens
  SenderPeriod,  \* senderWindowMs / senderCapacity: ticks for a token
  MaxBuckets,    \* senderCap: buckets of senders that are kept
  MaxConcurrent, \* calls at a time
  MaxQueued,     \* calls that wait
  MaxTicks,      \* bound: the clock
  Budgets        \* bound: how often each fault happens

Revs == 1 .. MaxRev
Gone == 0
Never == -1

VARIABLES
  now,     \* the clock
  mem,     \* [rows, global, senders]: the journal and the buckets
  disk,    \* what is on disk of them
  lock,    \* mutateIngress: the message whose change is being written, [of, before]
  turn,    \* the turn of each message
  queue,   \* createLimitedQueue: the jobs that wait
  call,    \* [message, revision]: the request at the worker
  posted,  \* how often the files of a revision left the bot
  charged, \* when the token of a revision was taken, for good
  left

bot == <<mem, disk, lock>>
jobs == <<turn, queue>>
vars == <<now, bot, jobs, call, posted, charged, left>>

Kinds == {"change", "disk", "timeout", "brain", "provider", "crash"}
Fault(kind) == left[kind] > 0 /\ left' = [left EXCEPT ![kind] = @ - 1]

Nobody == [of |-> {}, before |-> {}]
Idle == [pc |-> "idle", rev |-> Gone, aborted |-> FALSE, result |-> "none"]
NoCall == [phase |-> "none", gone |-> FALSE]

Init ==
  /\ now = 0 /\ lock = Nobody /\ queue = <<>>
  /\ mem = [rows |-> [m \in Messages |-> [rev |-> 1, analysis |-> "none", of |-> Gone]],
            global |-> [tokens |-> GlobalCap * GlobalPeriod, at |-> 0], senders |-> <<>>]
  /\ disk = mem
  /\ turn = [m \in Messages |-> Idle]
  /\ call = [m \in Messages |-> [r \in Revs |-> NoCall]]
  /\ posted = [m \in Messages |-> [r \in Revs |-> 0]]
  /\ charged = [m \in Messages |-> [r \in Revs |-> Never]]
  /\ left \in Budgets

-----------------------------------------------------------------------------
(* The budget: token buckets, in units of which a tick adds one.           *)
Least(a, b) == IF a < b THEN a ELSE b

Replenished(b, full) == [b EXCEPT !.tokens = Least(full, @ + (now - b.at)), !.at = now]

(* trim: what nobody used for two windows is full again, and forgotten.    *)
Window == IF GlobalCap * GlobalPeriod > SenderCap * SenderPeriod
          THEN GlobalCap * GlobalPeriod ELSE SenderCap * SenderPeriod
Trimmed(buckets) == SelectSeq(buckets, LAMBDA b : b.at >= now - 2 * Window)

(* The bucket of a sender, the last used at the end; the first gives way   *)
(* to a new one.                                                           *)
Touched(buckets, s) ==
  LET mine == SelectSeq(buckets, LAMBDA b : b.sender = s)
      rest == SelectSeq(IF mine = <<>> THEN Trimmed(buckets) ELSE buckets, LAMBDA b : b.sender # s)
      room == IF mine = <<>> /\ Len(rest) >= MaxBuckets THEN Tail(rest) ELSE rest IN
  Append(room, IF mine = <<>> THEN [sender |-> s, tokens |-> SenderCap * SenderPeriod, at |-> now]
               ELSE Replenished(mine[1], SenderCap * SenderPeriod))

(* reserve: one token of all, and one of the sender. The buckets of senders*)
(* are left alone when there is none for anybody.                          *)
Reserved(s) ==
  LET global  == Replenished(mem.global, GlobalCap * GlobalPeriod)
      buckets == Touched(mem.senders, s)
      own     == Last(buckets) IN
  IF global.tokens < GlobalPeriod THEN [ok |-> FALSE, global |-> global, senders |-> mem.senders]
  ELSE IF own.tokens < SenderPeriod THEN [ok |-> FALSE, global |-> global, senders |-> buckets]
  ELSE [ok |-> TRUE, global |-> [global EXCEPT !.tokens = @ - GlobalPeriod],
        senders |-> Front(buckets) \o <<[own EXCEPT !.tokens = @ - SenderPeriod]>>]

(* restore: the buckets on disk. What is kept of a bucket is enough.       *)
(* Mutant: a process starts with a full bucket. *)
RestoredFull(state) == [state EXCEPT !.global = [tokens |-> GlobalCap * GlobalPeriod, at |-> now]]

Restored(state) == state

-----------------------------------------------------------------------------
Row(m) == mem.rows[m]
Free == lock = Nobody
Current(m) == Row(m).rev = turn[m].rev

Becomes(m, pc) == turn' = [turn EXCEPT ![m].pc = pc]

(* A turn begins. An analysis of this revision, finished or only submitted,*)
(* is not made again; else the token and the mark that the files may have  *)
(* left are written first (beginMediaAnalysisForIngress).                  *)
(* Mutant: only a finished analysis is reused. *)
CachedIfComplete(m) == Row(m).of = Row(m).rev /\ Row(m).analysis # "submitted"

Cached(m) == Row(m).of = Row(m).rev

Reuses(m) ==
  /\ turn[m].pc = "idle" /\ Row(m).rev # Gone /\ Cached(m)
  /\ turn' = [turn EXCEPT ![m] = [Idle EXCEPT !.pc = "brain", !.rev = Row(m).rev]]
  /\ UNCHANGED <<now, bot, queue, call, posted, charged, left>>

Begins(m) ==
  /\ turn[m].pc = "idle" /\ Row(m).rev # Gone /\ ~Cached(m) /\ Free
  /\ turn' = [turn EXCEPT ![m] = [Idle EXCEPT !.pc = "begin", !.rev = Row(m).rev]]
  /\ LET got == Reserved(Sender[m]) IN
     mem' = [rows |-> [mem.rows EXCEPT ![m].analysis = IF got.ok THEN "submitted" ELSE "budget",
                                       ![m].of = Row(m).rev],
             global |-> got.global, senders |-> got.senders]
  /\ lock' = [of |-> {m}, before |-> {mem}]
  /\ UNCHANGED <<now, disk, queue, call, posted, charged, left>>

Running == {m \in Messages : turn[m].pc \in {"job", "fetch"}}

(* The analysis is run, waits, or finds the queue full.                    *)
Enqueued(m) ==
  \/ Cardinality(Running) < MaxConcurrent /\ Becomes(m, "job") /\ UNCHANGED queue
  \/ /\ Cardinality(Running) >= MaxConcurrent /\ Len(queue) < MaxQueued
     /\ Becomes(m, "queued") /\ queue' = Append(queue, m)
  \/ /\ Cardinality(Running) >= MaxConcurrent /\ Len(queue) >= MaxQueued
     /\ turn' = [turn EXCEPT ![m].pc = "result", ![m].result = "unavailable"]
     /\ UNCHANGED queue

(* The reservation is on disk.                                             *)
BeginSaved(m) ==
  /\ turn[m].pc = "begin" /\ disk' = mem /\ lock' = Nobody
  /\ IF Row(m).analysis = "budget"
     THEN Becomes(m, "brain") /\ UNCHANGED <<charged, queue>>
     ELSE /\ charged' = [charged EXCEPT ![m][Row(m).rev] = mem.global.at]
          /\ Enqueued(m)
  /\ UNCHANGED <<now, mem, call, posted, left>>

(* It is not, or nobody can tell: the token and the mark are given back.   *)
BeginUnsaved(m) ==
  /\ turn[m].pc = "begin" /\ Fault("disk") /\ lock' = Nobody
  /\ mem' \in lock.before /\ disk' \in {disk, mem}
  /\ Becomes(m, "idle")
  /\ UNCHANGED <<now, queue, call, posted, charged>>

(* The slot of a job that has settled goes to the next that waits.         *)
(* Mutant: it is kept. *)
FreedNot(m, entry) == turn' = [turn EXCEPT ![m] = entry] /\ UNCHANGED queue

Freed(m, entry) ==
  IF queue = <<>> THEN turn' = [turn EXCEPT ![m] = entry] /\ UNCHANGED queue
  ELSE turn' = [turn EXCEPT ![m] = entry, ![Head(queue)].pc = "job"] /\ queue' = Tail(queue)

Got(m, result) == [turn[m] EXCEPT !.pc = "result", !.result = result]

(* analyzeNow: nothing for a turn that was withdrawn, nor when no file can *)
(* be read; else the files are sent.                                       *)
Runs(m) ==
  /\ turn[m].pc = "job"
  /\ \/ /\ turn[m].aborted /\ Freed(m, Idle) /\ UNCHANGED <<call, posted>>
     \/ /\ ~turn[m].aborted /\ Freed(m, Got(m, "complete")) /\ UNCHANGED <<call, posted>>
     \/ /\ ~turn[m].aborted /\ Becomes(m, "fetch") /\ UNCHANGED queue
        /\ posted' = [posted EXCEPT ![m][turn[m].rev] = @ + 1]
        /\ call' = [call EXCEPT ![m][turn[m].rev] = [NoCall EXCEPT !.phase = "reading"]]
  /\ UNCHANGED <<now, bot, charged, left>>

Hangs(m) == [call EXCEPT ![m][turn[m].rev].gone = @ \/ call[m][turn[m].rev].phase # "none"]

Answered(m) ==
  /\ turn[m].pc = "fetch" /\ ~turn[m].aborted
  /\ LET c == call[m][turn[m].rev] IN
     /\ c.phase \in {"good", "bad"} /\ call' = [call EXCEPT ![m][turn[m].rev] = NoCall]
     /\ Freed(m, Got(m, IF c.phase = "good" THEN "complete" ELSE "unavailable"))
  /\ UNCHANGED <<now, bot, posted, charged, left>>

TimesOut(m) ==
  /\ turn[m].pc = "fetch" /\ ~turn[m].aborted /\ Fault("timeout")
  /\ call' = Hangs(m) /\ Freed(m, Got(m, "unavailable"))
  /\ UNCHANGED <<now, bot, posted, charged>>

(* A withdrawn turn hangs up, and ends.                                    *)
Ends(m) ==
  /\ turn[m].pc \in {"fetch", "result", "brain"} /\ (turn[m].aborted \/ ~Current(m))
  /\ IF turn[m].pc = "fetch" THEN call' = Hangs(m) /\ Freed(m, Idle)
     ELSE Becomes(m, "idle") /\ UNCHANGED <<call, queue>>
  /\ UNCHANGED <<now, bot, posted, charged, left>>

(* persistMediaAnalysisForIngress                                          *)
Records(m) ==
  /\ turn[m].pc = "result" /\ Current(m) /\ ~turn[m].aborted /\ Free
  /\ mem' = [mem EXCEPT !.rows[m].analysis = turn[m].result, !.rows[m].of = turn[m].rev]
  /\ lock' = [of |-> {m}, before |-> {mem}] /\ Becomes(m, "record")
  /\ UNCHANGED <<now, disk, queue, call, posted, charged, left>>

Recorded(m) ==
  /\ turn[m].pc = "record" /\ lock' = Nobody
  /\ \/ disk' = mem /\ Becomes(m, "brain") /\ UNCHANGED left
     \/ disk' \in {disk, mem} /\ Fault("disk") /\ Becomes(m, "idle")
  /\ UNCHANGED <<now, mem, queue, call, posted, charged>>

(* The agent answers, and the row is complete; or it fails, and the turn   *)
(* is tried again.                                                         *)
Answers(m) ==
  /\ turn[m].pc = "brain" /\ Current(m) /\ ~turn[m].aborted
  /\ \/ Free /\ mem' = [mem EXCEPT !.rows[m].rev = Gone] /\ UNCHANGED left
     \/ Fault("brain") /\ UNCHANGED mem
  /\ Becomes(m, "idle")
  /\ UNCHANGED <<now, disk, lock, queue, call, posted, charged>>

-----------------------------------------------------------------------------
(* An edit, a deletion or /stop: abortMediaAnalysis reaches whatever the   *)
(* turn does.                                                              *)
(* Mutant: only a request that is under way is aborted. *)
AbortsActive(m) ==
  IF turn[m].pc = "fetch" THEN [turn EXCEPT ![m].aborted = TRUE] ELSE turn

Aborts(m) == IF turn[m].pc = "idle" THEN turn ELSE [turn EXCEPT ![m].aborted = TRUE]

Changes(m) ==
  /\ Free /\ Row(m).rev # Gone /\ Fault("change") /\ turn' = Aborts(m)
  /\ \/ Row(m).rev < MaxRev /\ mem' = [mem EXCEPT !.rows[m] = [rev |-> @.rev + 1, analysis |-> "none", of |-> Gone]]
     \/ mem' = [mem EXCEPT !.rows[m].rev = Gone]
  /\ UNCHANGED <<now, disk, lock, queue, call, posted, charged>>

(* Any other change is written.                                            *)
Saves ==
  /\ Free /\ disk # mem /\ disk' = mem
  /\ UNCHANGED <<now, mem, lock, jobs, call, posted, charged, left>>

(* What was being written may be on disk. The worker is another process.   *)
Crashes ==
  /\ Fault("crash")
  /\ \E state \in {disk} \cup {mem : m \in lock.of} : mem' = Restored(state) /\ disk' = state
  /\ lock' = Nobody /\ queue' = <<>> /\ turn' = [m \in Messages |-> Idle]
  /\ call' = [m \in Messages |-> [r \in Revs |->
                [call[m][r] EXCEPT !.gone = (call[m][r].phase # "none")]]]
  /\ UNCHANGED <<now, posted, charged>>

Ticks ==
  /\ now < MaxTicks /\ now' = now + 1
  /\ UNCHANGED <<bot, jobs, call, posted, charged, left>>

-----------------------------------------------------------------------------
(* createMediaAnalyzerHttpHandler: reads, asks the provider, answers; a    *)
(* client that hung up is noticed at any of these.                         *)
Worker(m, r, phase) ==
  /\ call' = [call EXCEPT ![m][r] = [@ EXCEPT !.phase = phase]]
  /\ UNCHANGED <<now, bot, jobs, posted, charged>>

WorkerReads(m, r) == call[m][r].phase = "reading" /\ Worker(m, r, "provider") /\ UNCHANGED left

ProviderAnswers(m, r) ==
  /\ call[m][r].phase = "provider"
  /\ \/ Worker(m, r, "good") /\ UNCHANGED left
     \/ Worker(m, r, "bad") /\ Fault("provider")

Disconnects(m, r) ==
  /\ call[m][r].gone /\ call' = [call EXCEPT ![m][r] = NoCall]
  /\ UNCHANGED <<now, bot, jobs, posted, charged, left>>

-----------------------------------------------------------------------------
Steps(m) ==
  \/ Reuses(m) \/ Begins(m) \/ BeginSaved(m) \/ Runs(m) \/ Answered(m) \/ Ends(m)
  \/ Records(m) \/ Recorded(m) \/ Answers(m)

Works ==
  \/ \E m \in Messages : Steps(m)
  \/ \E m \in Messages, r \in Revs : WorkerReads(m, r) \/ ProviderAnswers(m, r) \/ Disconnects(m, r)

Next ==
  \/ Works \/ Saves \/ Crashes \/ Ticks
  \/ \E m \in Messages : BeginUnsaved(m) \/ TimesOut(m) \/ Changes(m)

Fairness == WF_vars(Works)

Spec == Init /\ [][Next]_vars /\ Fairness
-----------------------------------------------------------------------------
Rows == [rev : {Gone} \cup Revs, analysis : {"none", "submitted", "budget", "complete", "unavailable"},
         of : {Gone} \cup Revs]

TypeOK ==
  /\ now \in 0 .. MaxTicks /\ \A s \in {mem, disk} \cup lock.before :
       /\ s.rows \in [Messages -> Rows] /\ s.global.tokens \in 0 .. GlobalCap * GlobalPeriod
       /\ s.global.at \in 0 .. now
  /\ \A m \in Messages : turn[m].pc \in {"idle", "begin", "queued", "job", "fetch", "result", "record", "brain"}
  /\ posted \in [Messages -> [Revs -> Nat]] /\ charged \in [Messages -> [Revs -> Int]]

(* The files of one revision of a message leave the bot at most once,      *)
(* whatever fails, is retried or restarts: "write the at-most-once         *)
(* `submitted` boundary before any attachment bytes leave the transport"   *)
(* (t3ams/index.mjs:846-847).                                              *)
SubmittedOnce == \A m \in Messages, r \in Revs : posted[m][r] <= 1

(* In no stretch of time are more analyses charged than a full bucket and  *)
(* what it gained meanwhile pay for, restarts included (budget.mjs:1-4).   *)
SpendIsBounded == \A a, b \in 0 .. MaxTicks :
  a <= b =>
    LET spent == {k \in Messages \X Revs : charged[k[1]][k[2]] \in a .. b} IN
    Cardinality(spent) * GlobalPeriod <= GlobalCap * GlobalPeriod + (b - a)

(* The files of a message that was edited, deleted or stopped before they  *)
(* were sent are not sent: also not those of a job that waited in the queue*)
(* meanwhile (t3ams-media-analyzer.mjs:269, t3ams/index.mjs:3117-3130).    *)
WithdrawnIsNotSent ==
  [][\A m \in Messages, r \in Revs : posted'[m][r] > posted[m][r] => Row(m).rev = r]_vars

(* Every job that holds a place ends, and the next one gets it.            *)
EveryAnalysisEnds == \A m \in Messages :
  [](turn[m].pc \in {"queued", "job", "fetch"} => <>(turn[m].pc \notin {"queued", "job", "fetch"}))
=============================================================================
