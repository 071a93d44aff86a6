---------------------------- MODULE HopTransfer ----------------------------
(***************************************************************************)
(* Files on their way: the HOP node of the sandbox (lib/hop-node.mjs), the *)
(* uploads of a persona and of the bot (hop.mjs, hop-client.mjs), and the  *)
(* downloads of the bot (index.mjs 481-594, hop-client.mjs, the cache of   *)
(* media-store.mjs) and of a persona (hop.mjs, persona.mjs 283-317).       *)
(*                                                                         *)
(* A file is some chunks and, submitted last, the metadata that names      *)
(* them. Its receiver claims an entry, checks it, and acknowledges it; the *)
(* node then drops it, so that nothing is handed out again. The bot runs a *)
(* bounded number of downloads, shares one among the messages that carry   *)
(* the same file, and reconnects once; a persona does neither.             *)
(*                                                                         *)
(* Sizes are counted in chunks. Not modelled: signatures and encryption    *)
(* (an entry that was altered fails a check), sizes that lie, URLs, frames *)
(* that are too large, the deadline of an upload, several recipients.      *)
(***************************************************************************)
EXTENDS Naturals, Sequences, FiniteSets, SequencesExt

CONSTANTS
  Files,     \* files that are sent
  ChunksOf,  \* [Files -> Nat]: chunks of each
  Requests,  \* attachments of received messages, which ask for a file
  FileOf,    \* [Requests -> Files]
  Slots,     \* downloads at a time (BOT_MEDIA_MAX_CONCURRENT_DOWNLOADS)
  Budget,    \* chunks reserved at a time (BOT_MEDIA_MAX_INFLIGHT_BYTES), enough for any file
  None,
  Plans      \* [bot: BOOLEAN, files: set, asks: set of requests, faults: [Kinds -> Nat],
             \*  room: limits]. bot: the bot receives, not a persona. The limits:
             \*  pool: chunks that the node holds; metadata counts as nothing,
             \*  queue: downloads that wait (BOT_MEDIA_DOWNLOAD_QUEUE_CAP),
             \*  cache: chunks in the cache (BOT_MEDIA_MAX_TOTAL_MB)

VARIABLES
  pool,      \* what the node has of each entry: "none", "held", "gone"
  up,        \* the entry that each upload submits next, None when it failed
  ask,       \* [state, on]: what became of a request, and whose download it waits for
  job,       \* the download of a request, None if it has none
  queue,     \* requests whose download waits for capacity
  used,      \* [active, reserved]: activeMediaDownloads, reservedMediaBytes
  inflight,  \* the request that downloads each file
  cache,     \* the files in the cache, the oldest first
  plan, left

vars == <<pool, up, ask, job, queue, used, inflight, cache, plan, left>>
bot == <<job, queue, used, inflight, cache, ask>>

(* loss: the connection breaks; refuse: the node says later; alter: an     *)
(* entry comes back changed, or the node has dropped it; late: the         *)
(* deadline of a download; disk: a failed write; crash; expire: a file     *)
(* has been in the cache for its time.                                     *)
Kinds == {"loss", "refuse", "alter", "late", "disk", "crash", "expire"}
Fault(kind) == left[kind] > 0 /\ left' = [left EXCEPT ![kind] = @ - 1]

-----------------------------------------------------------------------------
(* Entry 0 of a file is its metadata; it is submitted last, and claimed    *)
(* first.                                                                  *)
Size(f) == ChunksOf[f]
Entries(f) == 0 .. Size(f)
Chunks(files) == UNION {{f} \X (1 .. Size(f)) : f \in files}
Total(cached) == Cardinality(Chunks({cached[n].file : n \in DOMAIN cached}))
Sent(f) == up[f] = Size(f) + 2
Held == Cardinality({e \in Chunks(Files) : pool[e[1]][e[2]] = "held"})

Cached(f) == {n \in DOMAIN cache : cache[n].file = f}

(* A cached file of the wrong size is an error, not a miss.                *)
FromCache(f) == IF \A n \in Cached(f) : cache[n].whole THEN "done" ELSE "failed"

NewJob == [at |-> "begin", on |-> 0, parts |-> <<>>, try |-> 1, open |-> FALSE]

Init ==
  /\ plan \in Plans /\ left = plan.faults
  /\ pool = [f \in Files |-> [e \in Entries(f) |-> "none"]]
  /\ up = [f \in Files |-> IF f \in plan.files THEN 1 ELSE None]
  /\ ask = [r \in Requests |-> [state |-> "none", on |-> r]]
  /\ job = [r \in Requests |-> None] /\ queue = <<>> /\ cache = <<>>
  /\ used = [active |-> 0, reserved |-> 0]
  /\ inflight = [f \in Files |-> None]

-----------------------------------------------------------------------------
(* Uploads.                                                                *)

(* The node takes an entry for which its pool has room, hands it to whoever*)
(* may claim it, and drops it once it is acknowledged.                     *)
NodeHasRoom(e) == e = 0 \/ Held < plan.room.pool
NodeTakes(f, e) == [pool EXCEPT ![f][e] = "held"]
NodeHas(f, e) == pool[f][e] = "held"
NodeDrops(f, e) == [pool EXCEPT ![f][e] = "gone"]

Submitted(f) == IF up[f] > Size(f) THEN 0 ELSE up[f]

(* hop_submit of the next entry: each chunk, then the metadata. A call     *)
(* that fails ends the upload; what is in the pool stays there.            *)
Uploads(f) ==
  /\ up[f] # None /\ ~Sent(f)
  /\ LET e == Submitted(f)
     IN  \/ /\ NodeHasRoom(e) /\ pool' = NodeTakes(f, e) /\ up' = [up EXCEPT ![f] = @ + 1]
            /\ UNCHANGED left
         \/ /\ ~NodeHasRoom(e) /\ up' = [up EXCEPT ![f] = None] /\ UNCHANGED <<pool, left>>
         \/ /\ Fault("refuse") /\ up' = [up EXCEPT ![f] = None] /\ UNCHANGED pool
         \/ /\ NodeHasRoom(e) /\ Fault("loss") /\ up' = [up EXCEPT ![f] = None]
            /\ \/ pool' = NodeTakes(f, e) \/ UNCHANGED pool
  /\ UNCHANGED <<bot, plan>>

-----------------------------------------------------------------------------
(* The downloads of the bot: capacity and sharing.                         *)

(* What a sequence has at some of its places.                              *)
At(s, places) ==
  [n \in 1 .. Cardinality(places) |->
     s[CHOOSE i \in places : Cardinality({j \in places : j <= i}) = n]]

Load(waiting, places) == Cardinality(UNION {{i} \X (1 .. Size(FileOf[waiting[i]])) : i \in places})

(* drainMediaDownloads: the first of the queue for which there is capacity,*)
(* again and again; what was passed over fits no better later.             *)
Admitted(waiting, u) ==
  {places \in SUBSET DOMAIN waiting :
     \A i \in DOMAIN waiting :
       LET before == {j \in places : j < i}
       IN  i \in places <=> /\ u.active + Cardinality(before) < Slots
                           /\ u.reserved + Load(waiting, before \cup {i}) <= Budget}

Drains(waiting, u, jobs) ==
  \E places \in Admitted(waiting, u) :
    /\ queue' = At(waiting, DOMAIN waiting \ places)
    /\ used' = [active |-> u.active + Cardinality(places), reserved |-> u.reserved + Load(waiting, places)]
    /\ job' = [r \in Requests |-> IF r \in {waiting[i] : i \in places} THEN NewJob ELSE jobs[r]]

(* Mutant: two messages with the same file download it twice. *)
SharesNever(f) == None

(* inflightMediaDownloads: one download for all who want the file.         *)
Shares(f) == inflight[f]

Answers(r, state) == ask' = [ask EXCEPT ![r].state = state]

(* downloadAttachment                                                      *)
Asks(r) ==
  /\ plan.bot /\ r \in plan.asks /\ ask[r].state = "none" /\ Sent(FileOf[r])
  /\ LET f == FileOf[r] IN
     IF Cached(f) # {}
     THEN /\ Answers(r, FromCache(f))
          /\ UNCHANGED <<job, queue, used, inflight>>
     ELSE IF Shares(f) # None
     THEN /\ ask' = [ask EXCEPT ![r] = [state |-> "waiting", on |-> Shares(f)]]
          /\ UNCHANGED <<job, queue, used, inflight>>
     ELSE IF Len(queue) >= plan.room.queue
     THEN /\ Answers(r, "failed") /\ UNCHANGED <<job, queue, used, inflight>>
     ELSE /\ inflight' = [inflight EXCEPT ![f] = r]
          /\ ask' = [ask EXCEPT ![r] = [state |-> "waiting", on |-> r]]
          /\ Drains(Append(queue, r), used, [job EXCEPT ![r] = [NewJob EXCEPT !.at = "queued"]])
  /\ UNCHANGED <<pool, up, cache, plan, left>>

(* downloadFile of a persona does not try again.                           *)
PersonaJob == [NewJob EXCEPT !.try = 2]

(* claimAttachments: a persona begins at once.                             *)
PersonaClaims(r) ==
  /\ ~plan.bot /\ r \in plan.asks /\ ask[r].state = "none" /\ Sent(FileOf[r])
  /\ ask' = [ask EXCEPT ![r].state = "waiting"]
  /\ job' = [job EXCEPT ![r] = PersonaJob]
  /\ UNCHANGED <<pool, up, queue, used, inflight, cache, plan, left>>

(* Mutant: a download that failed keeps its reservation. *)
FreedWhenDone(r, state) ==
  IF state = "done" THEN [active |-> used.active - 1, reserved |-> used.reserved - Size(FileOf[r])]
  ELSE [active |-> used.active - 1, reserved |-> used.reserved]

(* What a download gives back, however it ended.                           *)
Freed(r, state) == [active |-> used.active - 1, reserved |-> used.reserved - Size(FileOf[r])]

(* The end of a download: for all who wait for it, and for the queue.      *)
Ends(r, state) ==
  /\ ask' = [q \in Requests |-> IF ask[q].state = "waiting" /\ ask[q].on = r
                                THEN [ask[q] EXCEPT !.state = state] ELSE ask[q]]
  /\ IF plan.bot
     THEN Drains(queue, Freed(r, state), [job EXCEPT ![r] = None])
     ELSE job' = [job EXCEPT ![r] = None] /\ UNCHANGED <<queue, used>>
  /\ inflight' = [inflight EXCEPT ![FileOf[r]] = IF @ = r THEN None ELSE @]

-----------------------------------------------------------------------------
(* One download.                                                           *)

Working(r) == job[r] # None /\ job[r].at # "queued"
Goes(r, next) == job' = [job EXCEPT ![r] = next] /\ UNCHANGED <<ask, queue, used, inflight>>

(* Mutant: the second attempt starts from nothing. *)
ResumedAfresh(j) == [j EXCEPT !.at = "connect", !.try = 2, !.on = 0, !.parts = <<>>]

(* The second attempt goes on where the first one stopped.                 *)
Resumed(j) == [j EXCEPT !.at = "connect", !.try = 2]

(* A lost connection, a timeout, or an answer that says "later": the bot   *)
(* reconnects once.                                                        *)
Troubled(r) == IF job[r].try = 1 THEN Goes(r, Resumed(job[r])) ELSE Ends(r, "failed")

(* The task looks into the cache again, then connects.                     *)
Begins(r) ==
  /\ Working(r) /\ job[r].at = "begin"
  /\ IF plan.bot /\ Cached(FileOf[r]) # {} THEN Ends(r, FromCache(FileOf[r]))
     ELSE Goes(r, [job[r] EXCEPT !.at = "connect"])
  /\ UNCHANGED <<pool, up, cache, plan, left>>

Connects(r) ==
  /\ Working(r) /\ job[r].at = "connect"
  /\ \/ Goes(r, [job[r] EXCEPT !.at = "claim", !.open = TRUE]) /\ UNCHANGED left
     \/ Fault("loss") /\ Troubled(r)
  /\ UNCHANGED <<pool, up, cache, plan>>

(* What a claimed entry is to the download: the list of the chunks, or one *)
(* more of them.                                                           *)
Checked(j) == [j EXCEPT !.at = "ack", !.parts = IF j.on = 0 THEN @ ELSE Append(@, j.on)]

(* A call over a connection that is lost is never answered.                *)
TimesOut(r) == ~job[r].open /\ Troubled(r)

(* hop_claim: the entry stays in the pool.                                 *)
ClaimsEntry(r) ==
  /\ Working(r) /\ job[r].at = "claim"
  /\ LET j == job[r]
         there == NodeHas(FileOf[r], j.on)
     IN  \/ /\ j.open /\ there /\ Goes(r, Checked(j)) /\ UNCHANGED left
         \/ /\ TimesOut(r) /\ UNCHANGED left
         \/ /\ j.open /\ ~there /\ Ends(r, "failed") /\ UNCHANGED left
         \/ /\ j.open /\ (Fault("loss") \/ Fault("refuse")) /\ Troubled(r)
         \/ /\ j.open /\ there /\ Fault("alter") /\ Ends(r, "failed")
         \/ /\ plan.bot /\ Fault("late") /\ Ends(r, "failed")
  /\ UNCHANGED <<pool, up, cache, plan>>

(* After an entry comes the next one, after the last one the file.         *)
Onward(r, j) == IF j.on = Size(FileOf[r]) THEN [j EXCEPT !.at = "save"] ELSE [j EXCEPT !.at = "claim", !.on = @ + 1]

(* hop_ack drops the entry. Whether it arrives, and what is answered, the  *)
(* download does not mind.                                                 *)
AcksEntry(r) ==
  /\ Working(r) /\ job[r].at = "ack"
  /\ LET j == job[r]
         dropped == NodeDrops(FileOf[r], j.on)
     IN  \/ /\ j.open /\ pool' = dropped /\ Goes(r, Onward(r, j)) /\ UNCHANGED left
         \/ /\ ~j.open /\ Goes(r, Onward(r, j)) /\ UNCHANGED <<pool, left>>
         \/ /\ j.open /\ Fault("refuse") /\ Goes(r, Onward(r, j)) /\ UNCHANGED pool
         \/ /\ j.open /\ Fault("loss") /\ Goes(r, [Onward(r, j) EXCEPT !.open = FALSE])
            /\ \/ pool' = dropped \/ UNCHANGED pool
  /\ UNCHANGED <<up, cache, plan>>

-----------------------------------------------------------------------------
(* The cache.                                                              *)

Others(f) == IF Cached(f) = {} THEN cache ELSE RemoveAt(cache, CHOOSE n \in Cached(f) : TRUE)

(* Mutant: room is made for what is there, not for what comes. *)
RoomForNothing(files, n) == IF Total(files) > plan.room.cache THEN Tail(files) ELSE files

(* evictFor: the oldest go until the new file fits.                        *)
RoomFor(files, n) ==
  LET fits == {k \in 0 .. Len(files) : Total(SubSeq(files, k + 1, Len(files))) + n <= plan.room.cache}
  IN  SubSeq(files, (CHOOSE k \in fits : \A i \in fits : k <= i) + 1, Len(files))

Stored(f, whole) ==
  Append(IF plan.bot THEN RoomFor(Others(f), Size(f)) ELSE Others(f), [file |-> f, whole |-> whole])

Complete(r) == job[r].parts = [k \in 1 .. Size(FileOf[r]) |-> k]
Fits(f) == plan.bot => Size(f) <= plan.room.cache

(* save: the content is complete, or the download failed. A write that     *)
(* fails leaves what it wrote.                                             *)
Saves(r) ==
  /\ Working(r) /\ job[r].at = "save"
  /\ LET f == FileOf[r] IN
     \/ /\ Complete(r) /\ Fits(f) /\ cache' = Stored(f, TRUE) /\ Ends(r, "done")
        /\ UNCHANGED left
     \/ /\ ~(Complete(r) /\ Fits(f)) /\ Ends(r, "failed") /\ UNCHANGED <<cache, left>>
     \/ /\ Complete(r) /\ Fits(f) /\ Fault("disk") /\ cache' = Stored(f, FALSE) /\ Ends(r, "failed")
  /\ UNCHANGED <<pool, up, plan>>

(* sweep: a file that is old enough goes.                                  *)
Sweeps ==
  /\ cache # <<>> /\ plan.bot /\ Fault("expire") /\ cache' = Tail(cache)
  /\ UNCHANGED <<pool, up, ask, job, queue, used, inflight, plan>>

(* The bot dies; the messages it still owes an answer ask again. A file    *)
(* that was being written stays as it is.                                  *)
Crashes ==
  /\ plan.bot /\ Fault("crash")
  /\ ask' = [r \in Requests |-> IF ask[r].state = "waiting" THEN [state |-> "none", on |-> r] ELSE ask[r]]
  /\ job' = [r \in Requests |-> None] /\ queue' = <<>> /\ used' = [active |-> 0, reserved |-> 0]
  /\ inflight' = [f \in Files |-> None]
  /\ \/ UNCHANGED cache
     \/ \E r \in Requests : Working(r) /\ job[r].at = "save" /\ Fits(FileOf[r]) /\ cache' = Stored(FileOf[r], FALSE)
  /\ UNCHANGED <<pool, up, plan>>

-----------------------------------------------------------------------------
Works ==
  \/ \E f \in Files : Uploads(f)
  \/ \E r \in Requests :
       \/ Asks(r) \/ PersonaClaims(r) \/ Begins(r) \/ Connects(r) \/ ClaimsEntry(r) \/ AcksEntry(r) \/ Saves(r)

Next == Works \/ Sweeps \/ Crashes

(* Every call is answered or times out.                                    *)
Fairness == WF_vars(Works)

Spec == Init /\ [][Next]_vars /\ Fairness
-----------------------------------------------------------------------------
TypeOK ==
  /\ \A f \in Files : pool[f] \in [Entries(f) -> {"none", "held", "gone"}] /\ up[f] \in {None} \cup 1 .. Size(f) + 2
  /\ \A r \in Requests : ask[r] \in [state : {"none", "waiting", "done", "failed"}, on : Requests]
  /\ \A r \in Requests : job[r] # None =>
       /\ job[r].at \in {"queued", "begin", "connect", "claim", "ack", "save"} /\ job[r].try \in 1 .. 2
       /\ job[r].on \in Entries(FileOf[r]) /\ Len(job[r].parts) <= Size(FileOf[r])
  /\ used.active \in 0 .. Slots /\ used.reserved \in 0 .. Budget /\ Len(queue) <= plan.room.queue
  /\ \A f \in Files : inflight[f] \in Requests \cup {None}

Lost == (plan.faults["loss"] - left["loss"]) + (plan.faults["refuse"] - left["refuse"])
Harmed == \E k \in Kinds \ {"loss", "refuse"} : left[k] < plan.faults[k]
Roomy ==
  /\ Cardinality(plan.asks) <= plan.room.queue
  /\ Cardinality(Chunks(plan.files)) <= plan.room.cache

(* One lost connection, wherever it strikes between a claim and an         *)
(* acknowledgement, or one answer that says "later", costs the bot no      *)
(* file, and every message that carries the file gets it, although the     *)
(* node hands out nothing twice (hop-client.mjs:433-497, index.mjs:481-483,*)
(* 544).                                                                   *)
OneLossIsAbsorbed == \A r \in Requests :
  plan.bot /\ ask[r].state = "failed" /\ Roomy => Lost > 1 \/ Harmed

(* The cache never holds more than its capacity, also between an eviction  *)
(* and a write, and after a crash (media-store.mjs:55, 110).               *)
CacheBounded == plan.bot => Total(cache) <= plan.room.cache

(* A download that waits for capacity gets it, whatever became of those    *)
(* before it, and every request is answered                                *)
(* (index.mjs:488-504, 570-575).                                           *)
EveryFetchEnds == [](\A r \in Requests : ask[r].state = "waiting" => <>(ask[r].state # "waiting"))

-----------------------------------------------------------------------------
(* Properties the code does not have.                                      *)

(* What the node has dropped is in the cache or on its way there: a crash, *)
(* a failed write, an altered later chunk or the cache's limit loses it.   *)
AckedIsKept == \A f \in Files : pool[f][0] = "gone" =>
  Cached(f) # {} \/ \E r \in Requests : FileOf[r] = f /\ job[r] # None
=============================================================================
