--------------------------- MODULE HermesAdapter ---------------------------
(***************************************************************************)
(* The Hermes plugin (hermes-plugin/polkadot/adapter.py): it polls the     *)
(* bridge of a bot for leased deliveries, runs those of one chat in order  *)
(* and those of several chats on a few workers, and acknowledges what it   *)
(* has handed to Hermes. Tasks of asyncio run from one await to the next.  *)
(*                                                                         *)
(* The bridge is what BridgeQueue and T3amsBridge promise: a delivery is   *)
(* leased under a new number, comes back when the lease lapses, and is     *)
(* acknowledged under the current lease only; the bridge of T3ams takes a  *)
(* reply only under the current lease, too.                                *)
(*                                                                         *)
(* Not modelled: malformed deliveries, texts, sizes and types of           *)
(* attachments, edits and typing notices (they carry the same claim as a   *)
(* reply), the context of the operator, the back-off.                      *)
(***************************************************************************)
EXTENDS Naturals, FiniteSets, SequencesExt, FiniteSetsExt

CONSTANTS
  Deliveries,    \* 1 .. n, in the order of the bridge
  Chats, ChatOf, \* [Deliveries -> Chats]
  Workers,       \* _MAX_CONCURRENT_DISPATCHES
  MaxPending,    \* _MAX_PENDING_DISPATCHES
  None,
  Plans          \* [files: deliveries with an attachment, sends: deliveries answered with a file,
                 \*  fenced: the bridge is that of T3ams, faults: [Faults -> Nat]]

VARIABLES
  lease,      \* the bridge: the lease of a delivery, 0 if none, None once acknowledged
  leases,     \* leases given so far
  vault,      \* files staged in the vault of the bridge, by the lease of their turn
  session,    \* [gen, open]: the HTTP session
  loop,       \* [at, rest]: the polling task and what it has yet to submit
  queues,     \* [Chats -> Seq]: _queues, pairs of a delivery and its lease
  ready, scheduled, running,  \* _ready, _scheduled_keys, _running_keys
  pending,    \* _pending
  jobs,       \* the deliveries that the workers are at
  claims,     \* [Chats -> pair or None]: _active_delivery_claims
  dirs,       \* _attachment_dirs, by the lease
  handed,     \* deliveries that Hermes has handled
  replies,    \* replies that the bridge took: [of, claim]
  plan, left

bridge == <<lease, leases, vault>>
pool == <<queues, ready, scheduled, running, pending>>
vars == <<bridge, session, loop, pool, jobs, claims, dirs, handed, replies, plan, left>>

(* slow: a lease lapses although somebody is at it; net: a poll fails;     *)
(* lost: a call arrives and its answer does not; refuse: a call fails;     *)
(* turn: Hermes raises; stop: the platform is disconnected.                *)
Faults == {"slow", "net", "lost", "refuse", "turn", "stop"}
Fault(k) == left[k] > 0 /\ left' = [left EXCEPT ![k] = @ - 1]
Same == UNCHANGED left

Init ==
  /\ plan \in Plans /\ left = plan.faults
  /\ lease = [d \in Deliveries |-> 0] /\ leases = 0 /\ vault = {}
  /\ session = [gen |-> 1, open |-> TRUE] /\ loop = [at |-> "poll", rest |-> <<>>]
  /\ queues = [c \in Chats |-> <<>>] /\ ready = <<>> /\ scheduled = {} /\ running = {} /\ pending = 0
  /\ jobs = {} /\ claims = [c \in Chats |-> None] /\ dirs = {} /\ handed = {} /\ replies = {}

-----------------------------------------------------------------------------
(* The bridge.                                                             *)
Current(d, n) == lease[d] = n
Waiting == {d \in Deliveries : lease[d] = 0}
HeldBy == {<<j.d, j.lease>> : j \in jobs} \cup UNION {Range(queues[c]) : c \in Chats} \cup Range(loop.rest)

Lapses(d) ==
  /\ lease[d] # None /\ lease[d] # 0
  /\ IF <<d, lease[d]>> \in HeldBy THEN Fault("slow") ELSE Same
  /\ lease' = [lease EXCEPT ![d] = 0]
  /\ UNCHANGED <<leases, vault, session, loop, pool, jobs, claims, dirs, handed, replies, plan>>

-----------------------------------------------------------------------------
(* The polling task.                                                       *)

(* GET /inbound: the oldest ones, twice as many as there are workers, each *)
(* with a new lease.                                                       *)
Room == IF Cardinality(Waiting) > 2 * Workers THEN 2 * Workers ELSE Cardinality(Waiting)
Batches ==
  {[k \in 1 .. Room |-> <<oldest[k], leases + k>>] : oldest \in
     {s \in [1 .. Room -> Waiting] : \A k \in 1 .. Room : s[k] = Min(Waiting \ {s[n] : n \in 1 .. k - 1})}}

Polls ==
  /\ loop.at = "poll" /\ Waiting # {}
  /\ \/ \E batch \in Batches :
          /\ lease' = [d \in Deliveries |->
               IF \E b \in Range(batch) : b[1] = d THEN (CHOOSE b \in Range(batch) : b[1] = d)[2] ELSE lease[d]]
          /\ leases' = leases + Len(batch)
          /\ \/ loop' = [at |-> "submit", rest |-> batch] /\ Same
             \/ Fault("lost") /\ loop' = [at |-> "retry", rest |-> <<>>]
     \/ Fault("net") /\ loop' = [at |-> "retry", rest |-> <<>>] /\ UNCHANGED <<lease, leases>>
  /\ UNCHANGED <<vault, session, pool, jobs, claims, dirs, handed, replies, plan>>

(* After an error, a new session; the old one is closed first.             *)
ClosesSession ==
  /\ loop.at = "retry" /\ session.open /\ session' = [session EXCEPT !.open = FALSE]
  /\ UNCHANGED <<bridge, loop, pool, jobs, claims, dirs, handed, replies, plan, left>>

NewSession ==
  /\ loop.at = "retry" /\ ~session.open
  /\ session' = [gen |-> session.gen + 1, open |-> TRUE] /\ loop' = [loop EXCEPT !.at = "poll"]
  /\ UNCHANGED <<bridge, pool, jobs, claims, dirs, handed, replies, plan, left>>

-----------------------------------------------------------------------------
(* _BoundedKeyedDispatcher.                                                *)

(* Mutant: a chat may be scheduled while it runs. *)
SchedulableAnyway(c, busy) == c \notin scheduled

(* _schedule: not twice, and not while the chat runs.                      *)
Schedulable(c, busy) == c \notin scheduled /\ c \notin busy

Schedules(c, qs, busy) ==
  IF Schedulable(c, busy) /\ qs[c] # <<>>
  THEN scheduled' = scheduled \cup {c} /\ ready' = Append(ready, c)
  ELSE UNCHANGED <<scheduled, ready>>

(* submit waits while too many are pending.                                *)
Submits ==
  /\ loop.at = "submit"
  /\ IF loop.rest = <<>>
     THEN loop' = [loop EXCEPT !.at = "poll"] /\ UNCHANGED pool
     ELSE LET b == Head(loop.rest)
              c == ChatOf[b[1]]
          IN  /\ pending < MaxPending
              /\ queues' = [queues EXCEPT ![c] = Append(@, b)] /\ pending' = pending + 1
              /\ Schedules(c, queues', running) /\ UNCHANGED running
              /\ loop' = [loop EXCEPT !.rest = Tail(@)]
  /\ UNCHANGED <<bridge, session, jobs, claims, dirs, handed, replies, plan, left>>

(* A worker takes the next chat that is ready, and its first delivery.     *)
Takes ==
  /\ ready # <<>> /\ Cardinality(jobs) < Workers
  /\ LET c == Head(ready) IN
     /\ ready' = Tail(ready) /\ scheduled' = scheduled \ {c}
     /\ IF queues[c] = <<>> THEN UNCHANGED <<queues, running, jobs>>
        ELSE /\ queues' = [queues EXCEPT ![c] = Tail(@)] /\ running' = running \cup {c}
             /\ jobs' = jobs \cup {[d |-> Head(queues[c])[1], lease |-> Head(queues[c])[2], at |-> "fetch",
                                    gen |-> 0, tries |-> 0, ok |-> FALSE, out |-> {}, before |-> None]}
  /\ UNCHANGED <<bridge, session, loop, pending, claims, dirs, handed, replies, plan, left>>

Becomes(j, next) == jobs' = (jobs \ {j}) \cup {next}

(* Mutant: the chat still counts as running when it is scheduled. *)
StillBusy(c) == running

(* The chat no longer runs when the worker looks for more of it.           *)
BusyAfter(c) == running \ {c}

(* The end of a delivery, however it went.                                 *)
Done(j) ==
  LET c == ChatOf[j.d] IN
  /\ jobs' = jobs \ {j} /\ running' = running \ {c} /\ pending' = pending - 1
  /\ Schedules(c, queues, BusyAfter(c)) /\ UNCHANGED queues

-----------------------------------------------------------------------------
(* _process_delivery.                                                      *)

(* _fetch_attachments: what cannot be fetched is left out. From then on a  *)
(* reply to the chat carries the claim of this delivery.                   *)
Fetches(j) ==
  /\ j \in jobs /\ j.at = "fetch"
  /\ dirs' = IF j.d \in plan.files /\ session.open THEN dirs \cup {j.lease} ELSE dirs
  /\ Becomes(j, [j EXCEPT !.at = "turn", !.before = claims[ChatOf[j.d]]])
  /\ claims' = [claims EXCEPT ![ChatOf[j.d]] = <<j.d, j.lease>>]
  /\ UNCHANGED pool
  /\ UNCHANGED <<bridge, session, loop, handed, replies, plan, left>>

(* What the bridge of T3ams asks of a reply.                               *)
Claimed(c) == plan.fenced => claims[c] # None /\ Current(claims[c][1], claims[c][2])

(* send: once in a turn. A failure is reported to Hermes, not raised.      *)
Sends(j) ==
  /\ j \in jobs /\ j.at = "turn" /\ "text" \notin j.out
  /\ Becomes(j, [j EXCEPT !.out = @ \cup {"text"}])
  /\ LET c == ChatOf[j.d]
         taken == replies' = replies \cup {[of |-> <<j.d, j.lease>>, claim |-> claims[c]]}
     IN  \/ session.open /\ Claimed(c) /\ taken /\ Same
         \/ session.open /\ Claimed(c) /\ Fault("lost") /\ taken
         \/ ~(session.open /\ Claimed(c)) /\ UNCHANGED <<replies, left>>
         \/ Fault("refuse") /\ UNCHANGED replies
  /\ UNCHANGED <<bridge, session, loop, pool, claims, dirs, handed, plan>>

(* _stage_outbound_file: a copy for the vault of the bridge. A call whose  *)
(* answer is lost leaves a file whose name is forgotten.                   *)
StagesFile(j) ==
  /\ j \in jobs /\ j.at = "turn" /\ j.d \in plan.sends /\ "file" \notin j.out
  /\ LET staged == vault' = vault \cup {j.lease} IN
     \/ session.open /\ staged /\ Becomes(j, [j EXCEPT !.at = "file", !.out = @ \cup {"file"}]) /\ Same
     \/ session.open /\ Fault("lost") /\ staged /\ Becomes(j, [j EXCEPT !.out = @ \cup {"file"}])
     \/ ~session.open /\ Becomes(j, [j EXCEPT !.out = @ \cup {"file"}]) /\ UNCHANGED <<vault, left>>
  /\ UNCHANGED <<lease, leases, session, loop, pool, claims, dirs, handed, replies, plan>>

(* /send of the staged file, answered or not.                              *)
SendsFile(j) ==
  /\ j \in jobs /\ j.at = "file" /\ Becomes(j, [j EXCEPT !.at = "unstage"])
  /\ LET c == ChatOf[j.d] IN
     \/ /\ session.open /\ Claimed(c)
        /\ replies' = replies \cup {[of |-> <<j.d, j.lease>>, claim |-> claims[c]]} /\ Same
     \/ ~(session.open /\ Claimed(c)) /\ UNCHANGED <<replies, left>>
     \/ Fault("refuse") /\ UNCHANGED replies
  /\ UNCHANGED <<bridge, session, loop, pool, claims, dirs, handed, plan>>

(* Mutant: the copy is removed when the reply was taken. *)
RemovesIfSent(j) == \E r \in replies : r.of = <<j.d, j.lease>>

(* The copy is removed in any case.                                        *)
Removes(j) == TRUE

UnstagesFile(j) ==
  /\ j \in jobs /\ j.at = "unstage" /\ Becomes(j, [j EXCEPT !.at = "turn"])
  /\ \/ vault' = (IF session.open /\ Removes(j) THEN vault \ {j.lease} ELSE vault) /\ Same
     \/ Fault("refuse") /\ UNCHANGED vault
  /\ UNCHANGED <<lease, leases, session, loop, pool, claims, dirs, handed, replies, plan>>

(* handle_message returns or raises; either way the claim of before comes  *)
(* back.                                                                   *)
TurnEnds(j) ==
  /\ j \in jobs /\ j.at = "turn" /\ claims' = [claims EXCEPT ![ChatOf[j.d]] = j.before]
  /\ \/ Becomes(j, [j EXCEPT !.at = "clean", !.ok = TRUE]) /\ handed' = handed \cup {j.d} /\ Same
     \/ Fault("turn") /\ Becomes(j, [j EXCEPT !.at = "clean"]) /\ UNCHANGED handed
  /\ UNCHANGED <<bridge, session, loop, pool, dirs, replies, plan>>

(* Mutant: whatever became of the turn, the delivery is acknowledged. *)
HandedOffAnyway(j) == TRUE

(* Only what was handed to Hermes is acknowledged.                         *)
HandedOff(j) == j.ok

(* _cleanup_attachments                                                    *)
Cleans(j) ==
  /\ j \in jobs /\ j.at = "clean" /\ dirs' = dirs \ {j.lease}
  /\ IF HandedOff(j) THEN Becomes(j, [j EXCEPT !.at = "renew"]) /\ UNCHANGED pool ELSE Done(j)
  /\ UNCHANGED <<bridge, session, loop, claims, handed, replies, plan, left>>

(* The lease is renewed once more. The acknowledgement keeps the session   *)
(* that it starts with.                                                    *)
Renews(j) ==
  /\ j \in jobs /\ j.at = "renew"
  /\ \/ /\ session.open /\ Current(j.d, j.lease) /\ Becomes(j, [j EXCEPT !.at = "ack", !.gen = session.gen])
        /\ UNCHANGED pool /\ Same
     \/ ~(session.open /\ Current(j.d, j.lease)) /\ Done(j) /\ Same
     \/ Fault("refuse") /\ Done(j)
  /\ UNCHANGED <<bridge, session, loop, claims, dirs, handed, replies, plan>>

Retries(j) == IF j.tries = 2 THEN Done(j) ELSE Becomes(j, [j EXCEPT !.tries = @ + 1]) /\ UNCHANGED pool

(* _acknowledge_with_retry: three times; one whose answer was lost counts  *)
(* as unknown when it is repeated.                                         *)
Acks(j) ==
  /\ j \in jobs /\ j.at = "ack"
  /\ LET works == session = [gen |-> j.gen, open |-> TRUE] /\ Current(j.d, j.lease)
         settled == lease' = [lease EXCEPT ![j.d] = None]
     IN  \/ works /\ settled /\ Done(j) /\ Same
         \/ works /\ Fault("lost") /\ settled /\ Retries(j)
         \/ ~works /\ Retries(j) /\ UNCHANGED <<lease, left>>
         \/ works /\ Fault("refuse") /\ Retries(j) /\ UNCHANGED lease
  /\ UNCHANGED <<leases, vault, session, loop, claims, dirs, handed, replies, plan>>

-----------------------------------------------------------------------------
(* disconnect: the polling task and the workers are cancelled, their       *)
(* directories are removed.                                                *)
Disconnects ==
  /\ loop.at # "off" /\ Fault("stop")
  /\ loop' = [at |-> "off", rest |-> <<>>] /\ session' = [session EXCEPT !.open = FALSE]
  /\ queues' = [c \in Chats |-> <<>>] /\ ready' = <<>> /\ scheduled' = {} /\ running' = {} /\ pending' = 0
  /\ jobs' = {} /\ claims' = [c \in Chats |-> None] /\ dirs' = {}
  /\ UNCHANGED <<bridge, handed, replies, plan>>

(* connect, once /health answers.                                          *)
Connects ==
  /\ loop.at = "off"
  /\ session' = [gen |-> session.gen + 1, open |-> TRUE] /\ loop' = [at |-> "poll", rest |-> <<>>]
  /\ UNCHANGED <<bridge, pool, jobs, claims, dirs, handed, replies, plan, left>>

-----------------------------------------------------------------------------
Steps ==
  \/ Polls \/ ClosesSession \/ NewSession \/ Submits \/ Takes \/ Connects
  \/ \E j \in jobs :
       \/ Fetches(j) \/ Sends(j) \/ StagesFile(j) \/ SendsFile(j) \/ UnstagesFile(j)
       \/ TurnEnds(j) \/ Cleans(j) \/ Renews(j) \/ Acks(j)
  \/ \E d \in Deliveries : Lapses(d)

Next == Steps \/ Disconnects

(* The tasks run, calls are answered or fail, leases lapse, and Hermes     *)
(* connects again.                                                         *)
Fairness == WF_vars(Steps)

Spec == Init /\ [][Next]_vars /\ Fairness
-----------------------------------------------------------------------------
TypeOK ==
  /\ pending \in 0 .. MaxPending
  /\ pending = Cardinality(jobs) + FoldFunction(LAMBDA q, n : Len(q) + n, 0, queues)
  /\ running = {ChatOf[j.d] : j \in jobs} /\ scheduled = Range(ready)
  /\ \A j \in jobs : j.at \in {"fetch", "turn", "file", "unstage", "clean", "renew", "ack"}
  /\ loop.at \in {"poll", "submit", "retry", "off"}

(* What the bridge forgets, Hermes has handled, whatever calls failed and  *)
(* whatever was cancelled (adapter.py:437-467).                            *)
AckedWasHandled == \A d \in Deliveries : lease[d] = None => d \in handed

(* A reply carries the claim of the delivery it answers, although several  *)
(* deliveries of a chat are in hand (adapter.py:189-197, 555-612).         *)
RepliesAreTheirOwn == \A r \in replies : r.claim = r.of

(* No directory stays without its turn, and no copy in the vault, unless   *)
(* the call that made or removed it failed or its turn was cancelled       *)
(* (adapter.py:426-435, 597-606, 772-776).                                 *)
FilesAreRemoved ==
  /\ dirs \subseteq {j.lease : j \in jobs}
  /\ \/ vault \subseteq {j.lease : j \in jobs}
     \/ \E k \in {"net", "lost", "refuse", "stop"} : left[k] < plan.faults[k]

(* Every delivery is acknowledged in the end, over lapsed leases, failed   *)
(* calls and a reconnection (adapter.py:114-169, 317-331, 507-530).        *)
EveryDeliveryIsAcked == <>[](\A d \in Deliveries : lease[d] = None)

-----------------------------------------------------------------------------
(* Properties the code does not have.                                      *)

(* A delivery that was handled is not handled again: its lease may lapse   *)
(* in the queue, or the acknowledgement may hold on to a closed session.   *)
HandledOnce == \A j \in jobs : j.at = "turn" => j.d \notin handed
=============================================================================
