---------------------------- MODULE SandboxChat ----------------------------
(***************************************************************************)
(* Two personas of the sandbox chat with one another: sandbox/lib/chat.mjs *)
(* (identity channel, peer session, session registry, chat engine),        *)
(* persona.mjs (the state that the devices of a persona share, adding and  *)
(* removing devices) and requests.mjs (the request and its intake).        *)
(*                                                                         *)
(* A persona is a person with several devices. Each device that is online  *)
(* has an engine, and all engines of a persona work on one state: the      *)
(* request, the contact with the peer's devices, the message rows. alice   *)
(* asks, bob accepts or declines; then each side announces its devices,    *)
(* and messages go from one device to all devices the sender knows of. A   *)
(* sending device keeps what is not acknowledged in one statement, which   *)
(* each new message replaces; a receiving device acknowledges what it read.*)
(*                                                                         *)
(* The library's session is external: its batch, its statement and its     *)
(* restored batch are modelled from how chat.mjs uses them. Not modelled:  *)
(* encryption and identity proofs, reactions, messages that cannot be      *)
(* decoded, the welcome text of a bot, uploads.                            *)
(***************************************************************************)
EXTENDS Naturals, FiniteSets, SequencesExt, FiniteSetsExt

CONSTANTS
  Devices,      \* the devices of both
  AliceDevices, \* those of alice, the one who asks
  Messages,     \* ids of the messages that are sent
  Welcome,      \* the welcome text of the request, a message with a row of its own
  None,
  Plans         \* [online: devices, scripts: a sequence of command sequences,
                \*  lookups: failed lookups, posts: failed posts, lands and acks:
                \*  batches and acknowledgements that are lost, restarts: number]

VARIABLES
  person,   \* the state of each persona
  engine,   \* the engine of each device, None while it is offline
  gone,     \* the devices that were removed
  job,      \* what a device's request, acceptance or announcement has left to do
  asked,    \* the request is in the store
  accepts,  \* bob's devices whose acceptance is in the store
  slot,     \* the statement of each device's session in the store
  answered, \* what peers acknowledged of each device's messages
  lost,     \* history: whether the last batch of a device, or the acknowledgement
            \* of what it holds, did not get through
  plan, at, left \* the plan, the next command of each script, the remaining faults

vars == <<person, engine, gone, job, asked, accepts, slot, answered, lost, plan, at, left>>

-----------------------------------------------------------------------------
People == {"alice", "bob"}
OwnerOf(d) == IF d \in AliceDevices THEN "alice" ELSE "bob"
Other(p) == IF p = "alice" THEN "bob" ELSE "alice"
Rows == Messages \cup {Welcome}

(* The devices of a persona: each has an engine until it is removed.       *)
Online(p) == {d \in Devices : OwnerOf(d) = p /\ engine[d] # None}

(* An item of a batch: its kind, what it is about, and its sender.         *)
Item(kind, arg, d) == [kind |-> kind, arg |-> arg, from |-> d]

(* A row: direction and sender, status, who received and acknowledged it,  *)
(* which version of its text, which devices claimed its file.              *)
Outgoing(d, status) ==
  [out |-> TRUE, by |-> d, status |-> status, got |-> {}, acked |-> {}, read |-> TRUE, text |-> 0, claims |-> {}]
Incoming(got, read) ==
  [out |-> FALSE, by |-> None, status |-> "received", got |-> got, acked |-> {}, read |-> read, text |-> 0,
   claims |-> {}]

Unread(s) == {m \in Rows : s.rows[m] # None /\ ~s.rows[m].read}

(* A new engine: a channel when there is a contact or a request of ours    *)
(* that is pending, the batch the library restores from the store, and the *)
(* rows that the first acknowledgement will settle.                        *)
Fresh(s, d) ==
  [chan   |-> s.devices # None \/ (s.request.out /\ s.request.status = "pending"),
   heard  |-> {}, asked |-> FALSE, seen |-> {}, read |-> [e \in Devices |-> 0], owes |-> <<>>,
   batch  |-> SelectSeq(slot[d].items, LAMBDA i : i \notin answered[d]), dirty |-> FALSE,
   settle |-> IF s.devices = None THEN {} ELSE {m \in Rows : s.rows[m] # None}]

(* What every engine of p does when the contact has changed: a channel and *)
(* a session. A session's rows to settle are those of its first moment.    *)
Watched(engines, p, before, after) ==
  [d \in Devices |->
    IF engines[d] = None \/ OwnerOf(d) # p \/ before = after THEN engines[d]
    ELSE [engines[d] EXCEPT !.chan = TRUE,
            !.settle = IF before.devices = None THEN {m \in Rows : before.rows[m] # None} ELSE @]]

(* upsertDevice, removeDevice.                                             *)
Upsert(s, d) == [s EXCEPT !.devices = (IF @ = None THEN {} ELSE @) \cup {d}]
Dropped(s, d) == IF s.devices = None THEN s ELSE [s EXCEPT !.devices = @ \ {d}]
(* addPeerDevice: only a contact learns devices.                           *)
Learnt(s, d) == IF s.devices = None THEN s ELSE Upsert(s, d)

(* messages.add: an existing row is left as it is.                         *)
Add(s, m, row) ==
  IF s.rows[m] # None THEN s
  ELSE [s EXCEPT !.rows[m] = row, !.unread = @ + IF row.read THEN 0 ELSE 1]

-----------------------------------------------------------------------------
(* Init: nobody knows the other.                                           *)

Stranger(p) ==
  [request |-> [out |-> p = "alice", status |-> None, device |-> None, sender |-> None],
   devices |-> None, rows |-> [m \in Rows |-> None], unread |-> 0]
NoSlot == [items |-> <<>>, for |-> {}, no |-> 0]
NoJob == [step |-> "idle", to |-> <<>>]

Init ==
  /\ plan \in Plans /\ left = [lookups |-> plan.lookups, posts |-> plan.posts, lands |-> plan.lands,
                               acks |-> plan.acks, restarts |-> plan.restarts]
  /\ at = [n \in DOMAIN plan.scripts |-> 1]
  /\ person = [p \in People |-> Stranger(p)]
  /\ slot = [d \in Devices |-> NoSlot] /\ answered = [d \in Devices |-> {}]
  /\ lost = [d \in Devices |-> "no"]
  /\ gone = {} /\ asked = None /\ accepts = {}
  /\ job = [d \in Devices |-> NoJob]
  /\ engine = [d \in Devices |-> IF d \in plan.online THEN Fresh(Stranger(OwnerOf(d)), d) ELSE None]

(* The next command of a script.                                           *)
Command(n, op) ==
  /\ at[n] \in DOMAIN plan.scripts[n] /\ plan.scripts[n][at[n]].op = op
  /\ at' = [at EXCEPT ![n] = @ + 1]
Its(n) == plan.scripts[n][at[n]]

-----------------------------------------------------------------------------
(* The request.                                                            *)

(* sendRequest: the statement first ...                                    *)
Submits(n) ==
  /\ Command(n, "request") /\ LET d == Its(n).by IN
       /\ engine[d] # None /\ job[d] = NoJob
       /\ asked' = d /\ job' = [job EXCEPT ![d].step = "record"]
  /\ UNCHANGED <<person, engine, gone, accepts, slot, answered, lost, plan, left>>

(* Mutant: the channel is opened when there is a contact, not before. *)
OpenedLater(d) == engine

Opened(d) == IF engine[d] = None THEN engine ELSE [engine EXCEPT ![d].chan = TRUE]

(* ... then the row, and this device's channel, on which the answer comes. *)
Records(d) ==
  /\ job[d].step = "record"
  /\ person' = [person EXCEPT !.alice.request =
       [out |-> TRUE, status |-> "pending", device |-> d, sender |-> d]]
  /\ engine' = Opened(d)
  /\ job' = [job EXCEPT ![d] = NoJob]
  /\ UNCHANGED <<gone, asked, accepts, slot, answered, lost, plan, at, left>>

(* subscribeToIncomingRequests and intakeRequestStatement: an engine hands *)
(* over a statement once; the row is written once. A lookup that fails     *)
(* ends the intake.                                                        *)
Intake(d) ==
  /\ d \in Online("bob") /\ asked # None /\ ~engine[d].asked
  /\ engine' = [engine EXCEPT ![d].asked = TRUE]
  /\ \/ /\ person' = IF person.bob.request.status # None THEN person
                     ELSE [person EXCEPT !.bob.request =
                            [out |-> FALSE, status |-> "pending", device |-> None, sender |-> asked]]
        /\ UNCHANGED left
     \/ left.lookups > 0 /\ left' = [left EXCEPT !.lookups = @ - 1] /\ UNCHANGED person
  /\ UNCHANGED <<gone, job, asked, accepts, slot, answered, lost, plan, at>>

(* establishContact and the welcome text.                                  *)
Established(s, d, row) == Add(Upsert(s, d), Welcome, row)

(* acceptRequest up to its first await.                                    *)
Accepts(n) ==
  /\ Command(n, "accept") /\ LET d == Its(n).by
                                 s == person.bob IN
       /\ engine[d] # None /\ job[d] = NoJob /\ s.request.status = "pending"
       /\ LET t == Established([s EXCEPT !.request.status = "accepted", !.request.device = d],
                               s.request.sender, Incoming(Online("bob"), TRUE)) IN
            /\ person' = [person EXCEPT !.bob = t]
            /\ engine' = Watched(engine, "bob", s, t)
            /\ job' = [job EXCEPT ![d].step = "post"]
  /\ UNCHANGED <<gone, asked, accepts, slot, answered, lost, plan, left>>

(* declineRequest: nobody is told.                                         *)
Declines(n) ==
  /\ Command(n, "decline") /\ LET d == Its(n).by IN
       /\ engine[d] # None /\ person.bob.request.status = "pending"
       /\ person' = [person EXCEPT !.bob.request.status = "declined", !.bob.request.device = d]
  /\ UNCHANGED <<engine, gone, job, asked, accepts, slot, answered, lost, plan, left>>

(* The acceptance goes to the identity channel; the announcement of all    *)
(* devices follows. A post that fails, or an engine that has stopped,      *)
(* ends both.                                                              *)
Posts(d) ==
  /\ job[d].step = "post"
  /\ \/ /\ engine[d] # None /\ accepts' = accepts \cup {d}
        /\ job' = [job EXCEPT ![d] = [step |-> "fan", to |-> SetToSeq(Online(OwnerOf(d)))]]
        /\ UNCHANGED left
     \/ /\ engine[d] = None \/ left.posts > 0
        /\ left' = IF engine[d] = None THEN left ELSE [left EXCEPT !.posts = @ - 1]
        /\ job' = [job EXCEPT ![d] = NoJob] /\ UNCHANGED accepts
  /\ UNCHANGED <<person, engine, gone, asked, slot, answered, lost, plan, at>>

(* The request when an acceptance has come: the first one counts.          *)
AcceptedBy(r) == [r EXCEPT !.status = IF @ = "pending" THEN "accepted" ELSE @]

(* onIdentityEvent "accepted": on each device of alice with a channel. The *)
(* device that asked announces all devices, if it is the first to hear.    *)
Hears(d, e) ==
  /\ d \in Online("alice") /\ engine[d].chan /\ e \in accepts \ engine[d].heard
  /\ LET s == person.alice
         known == s.request.status # None
         t == IF known THEN Established([s EXCEPT !.request = AcceptedBy(@)], e, Outgoing(s.request.device, "delivered"))
              ELSE Learnt(s, e)
     IN  /\ person' = [person EXCEPT !.alice = t]
         /\ engine' = [Watched(engine, "alice", s, t) EXCEPT ![d].heard = @ \cup {e}]
         /\ job' = IF s.request.status = "pending" /\ s.request.device = d
                   THEN [job EXCEPT ![d] = [step |-> "fan", to |-> SetToSeq(Online("alice"))]] ELSE job
  /\ UNCHANGED <<gone, asked, accepts, slot, answered, lost, plan, at, left>>

-----------------------------------------------------------------------------
(* Messages out.                                                           *)

(* The session of a device takes a message when the peer has a device.     *)
CanSend(d) == engine[d] # None /\ person[OwnerOf(d)].devices \notin {None, {}}

Queued(d, i) == [engine EXCEPT ![d].batch = Append(@, i), ![d].dirty = TRUE]

(* One announcement of fanOutDevices; a send that is refused ends it.      *)
FansOut(d) ==
  /\ job[d].step = "fan"
  /\ IF job[d].to # <<>> /\ CanSend(d)
     THEN /\ engine' = Queued(d, Item("added", Head(job[d].to), d))
          /\ job' = [job EXCEPT ![d].to = Tail(@)]
     ELSE job' = [job EXCEPT ![d] = NoJob] /\ UNCHANGED engine
  /\ UNCHANGED <<person, gone, asked, accepts, slot, answered, lost, plan, at, left>>

(* sendMessage, call: the row, then the session. What a session refuses    *)
(* stays as a row that failed.                                             *)
Sends(n) ==
  /\ \/ Command(n, "text") \/ Command(n, "file") \/ Command(n, "call")
  /\ LET c == Its(n)
         d == c.by
         p == OwnerOf(d)
     IN  /\ engine[d] # None /\ person[p].devices # None
         /\ person' = [person EXCEPT ![p] =
              Add(@, c.arg, Outgoing(d, IF CanSend(d) THEN "sent" ELSE "failed"))]
         /\ engine' = IF CanSend(d) THEN Queued(d, Item(c.op, c.arg, d)) ELSE engine
  /\ UNCHANGED <<gone, job, asked, accepts, slot, answered, lost, plan, left>>

(* edit: the own row first.                                                *)
Edits(n) ==
  /\ Command(n, "edit")
  /\ LET c == Its(n)
         p == OwnerOf(c.by)
     IN  /\ CanSend(c.by) /\ person[p].rows[c.arg] # None /\ person[p].rows[c.arg].out
         /\ person' = [person EXCEPT ![p].rows[c.arg].text = @ + 1]
         /\ engine' = Queued(c.by, [kind |-> "edit", arg |-> c.arg, from |-> c.by,
                                    text |-> person[p].rows[c.arg].text + 1])
  /\ UNCHANGED <<gone, job, asked, accepts, slot, answered, lost, plan, left>>

(* The library submits the whole batch, for the devices the contact has.   *)
Lands(d) ==
  /\ CanSend(d) /\ engine[d].dirty
  /\ slot' = [slot EXCEPT ![d] =
       [items |-> engine[d].batch, for |-> person[OwnerOf(d)].devices, no |-> @.no + 1]]
  /\ engine' = [engine EXCEPT ![d].dirty = FALSE]
  /\ lost' = [lost EXCEPT ![d] = "no"]
  /\ UNCHANGED <<person, gone, job, asked, accepts, answered, plan, at, left>>

(* It gives the statement up: the rows stay as sent, and the batch waits   *)
(* for the next message (CHAT_NO_ACK).                                     *)
LandsNot(d) ==
  /\ CanSend(d) /\ engine[d].dirty
  /\ left.lands > 0 /\ left' = [left EXCEPT !.lands = @ - 1]
  /\ engine' = [engine EXCEPT ![d].dirty = FALSE]
  /\ lost' = [lost EXCEPT ![d] = "batch"]
  /\ UNCHANGED <<person, gone, job, asked, accepts, slot, answered, plan, at>>

-----------------------------------------------------------------------------
(* Messages in.                                                            *)

(* Mutant: every device that decodes a message claims its file. *)
ClaimsEach(s, d, m) == TRUE

(* A file is claimed by the device that wrote the row.                     *)
Claims(s, d, m) == s.rows[m] = None

(* Mutant: every device's copy of a message counts as unread. *)
ReceivedByEach(s, d, m) ==
  IF s.rows[m] = None THEN Add(s, m, Incoming({d}, FALSE))
  ELSE [s EXCEPT !.rows[m].got = @ \cup {d}, !.unread = @ + IF d \in s.rows[m].got THEN 0 ELSE 1]

(* messages.receive                                                        *)
Received(s, d, m) ==
  IF s.rows[m] = None THEN Add(s, m, Incoming({d}, FALSE)) ELSE [s EXCEPT !.rows[m].got = @ \cup {d}]

(* handleIncoming: what an item does to the state of the device's persona. *)
Handled(s, d, i) ==
  CASE i.kind = "text" -> Received(s, d, i.arg)
    [] i.kind = "file" ->
         LET claim == Claims(s, d, i.arg) IN
         [Received(s, d, i.arg) EXCEPT !.rows[i.arg].claims = IF claim THEN @ \cup {d} ELSE @]
    [] i.kind = "call" -> Add(s, i.arg, Incoming({}, TRUE))
    [] i.kind = "edit" -> IF s.rows[i.arg] = None THEN s ELSE [s EXCEPT !.rows[i.arg].text = i.text]
    [] i.kind = "added" -> Learnt(s, i.arg)
    [] i.kind = "removed" -> Dropped(s, i.arg)
    [] OTHER -> s

(* A call is declined on the session that brought the offer.               *)
Declined(items, d) ==
  FoldLeft(LAMBDA out, i : IF i.kind = "call" THEN Append(out, Item("declined", i.arg, d)) ELSE out, <<>>, items)

(* messages.acked: a device has told that it received these.               *)
AckedRows(s, d, items) ==
  [s EXCEPT !.rows = [m \in Rows |->
     IF @[m] # None /\ \E i \in items : i.arg = m /\ i.kind \in {"text", "file"}
     THEN [@[m] EXCEPT !.acked = @ \cup {d}] ELSE @[m]]]

(* Mutant: of a statement only the last message is handled. *)
UnseenLast(d, items) ==
  IF items = <<>> \/ Last(items) \in engine[d].seen THEN <<>> ELSE <<Last(items)>>

(* Each session handles a message once.                                    *)
Unseen(d, items) == SelectSeq(items, LAMBDA i : i \notin engine[d].seen)

(* A page of the session: device d reads the statement of e, a device it   *)
(* knows, that was written for d; it owes the acknowledgement of all of it.*)
Reads(d, e) ==
  /\ engine[d] # None /\ OwnerOf(e) # OwnerOf(d)
  /\ person[OwnerOf(d)].devices # None /\ e \in person[OwnerOf(d)].devices
  /\ d \in slot[e].for /\ engine[d].read[e] < slot[e].no
  /\ LET p == OwnerOf(d)
         new == Unseen(d, slot[e].items)
         t == FoldLeft(LAMBDA s, i : Handled(s, d, i), person[p], new)
         watched == Watched(engine, p, [person[p] EXCEPT !.rows = t.rows, !.unread = t.unread], t)
         calls == Declined(new, d)
     IN  /\ person' = [person EXCEPT ![p] = t]
         /\ engine' = [watched EXCEPT ![d].seen = @ \cup ToSet(new), ![d].read[e] = slot[e].no,
              ![d].owes = Append(@, [to |-> e, items |-> ToSet(slot[e].items)]),
              ![d].batch = @ \o calls, ![d].dirty = @ \/ calls # <<>>]
  /\ UNCHANGED <<gone, job, asked, accepts, slot, answered, lost, plan, at, left>>

(* submitResponseMessage: the acknowledgement reaches the store, or it     *)
(* fails, which is written to the log and not tried again.                 *)
Acks(d) ==
  /\ engine[d] # None
  /\ \E n \in DOMAIN engine[d].owes :
       LET ack == engine[d].owes[n]
           p == OwnerOf(d)
       IN /\ engine' = [engine EXCEPT ![d].owes = RemoveAt(@, n)]
          /\ \/ /\ person' = [person EXCEPT ![p] = AckedRows(@, d, ack.items)]
                /\ answered' = [answered EXCEPT ![ack.to] = @ \cup ack.items]
                /\ lost' = [lost EXCEPT ![ack.to] =
                     IF @ = "ack" /\ ToSet(slot[ack.to].items) \subseteq ack.items THEN "no" ELSE @]
                /\ UNCHANGED left
             \/ /\ left.acks > 0 /\ left' = [left EXCEPT !.acks = @ - 1]
                /\ lost' = [lost EXCEPT ![ack.to] =
                     IF @ = "no" /\ ~(ack.items \subseteq answered[ack.to]) THEN "ack" ELSE @]
                /\ UNCHANGED <<person, answered>>
  /\ UNCHANGED <<gone, job, asked, accepts, slot, plan, at>>

(* onDelivered, and onBatchDelivered for the first acknowledgement of a    *)
(* session: all rows that were sent when it started are delivered.         *)
Delivered(s, ids, settle) ==
  [s EXCEPT !.rows = [m \in Rows |->
     IF @[m] # None /\ @[m].out /\ (m \in ids \/ (m \in settle /\ @[m].status = "sent"))
     THEN [@[m] EXCEPT !.status = "delivered"] ELSE @[m]]]

AckArrives(d) ==
  /\ engine[d] # None /\ ToSet(engine[d].batch) \cap answered[d] # {}
  /\ LET done == ToSet(engine[d].batch) \cap answered[d]
         ids == {i.arg : i \in {j \in done : j.kind \in {"text", "file", "call"}}}
     IN  person' = [person EXCEPT ![OwnerOf(d)] = Delivered(@, ids, engine[d].settle)]
  /\ engine' = [engine EXCEPT ![d].batch = SelectSeq(@, LAMBDA i : i \notin answered[d]), ![d].settle = {}]
  /\ UNCHANGED <<gone, job, asked, accepts, slot, answered, lost, plan, at, left>>

(* markRoomRead                                                            *)
MarksRead(n) ==
  /\ Command(n, "read") /\ LET p == OwnerOf(Its(n).by) IN
       /\ person[p].devices # None
       /\ person' = [person EXCEPT ![p].unread = 0,
            ![p].rows = [m \in Rows |-> IF @[m] = None THEN None ELSE [@[m] EXCEPT !.read = TRUE]]]
  /\ UNCHANGED <<engine, gone, job, asked, accepts, slot, answered, lost, plan, left>>

-----------------------------------------------------------------------------
(* Devices come and go.                                                    *)

AddsDevice(n) ==
  /\ Command(n, "add") /\ LET d == Its(n).by IN
       /\ engine[d] = None /\ d \notin gone
       /\ engine' = [engine EXCEPT ![d] = Fresh(person[OwnerOf(d)], d)]
  /\ UNCHANGED <<person, gone, job, asked, accepts, slot, answered, lost, plan, left>>

(* removeDevice: the device stops, and another one tells the contact.      *)
RemovesDevice(n) ==
  /\ Command(n, "remove") /\ LET d == Its(n).by IN
       /\ engine[d] # None
       /\ \E e \in Online(OwnerOf(d)) \ {d} :
            LET stopped == [engine EXCEPT ![d] = None] IN
            engine' = IF CanSend(e)
                      THEN [stopped EXCEPT ![e].batch = Append(@, Item("removed", d, e)), ![e].dirty = TRUE]
                      ELSE stopped
       /\ gone' = gone \cup {d}
  /\ UNCHANGED <<person, job, asked, accepts, slot, answered, lost, plan, left>>

(* rewire: every engine stops, the node restarts with its statements, and  *)
(* new engines start on the state the personas have.                       *)
Restarts ==
  /\ left.restarts > 0 /\ left' = [left EXCEPT !.restarts = @ - 1]
  /\ engine' = [d \in Devices |-> IF engine[d] = None THEN None ELSE Fresh(person[OwnerOf(d)], d)]
  /\ job' = [d \in Devices |-> IF job[d].step = "record" THEN job[d] ELSE NoJob]
  /\ UNCHANGED <<person, gone, asked, accepts, slot, answered, lost, plan, at>>

-----------------------------------------------------------------------------
Commands ==
  \E n \in DOMAIN plan.scripts :
    \/ Submits(n) \/ Accepts(n) \/ Declines(n) \/ Sends(n) \/ Edits(n) \/ MarksRead(n)
    \/ AddsDevice(n) \/ RemovesDevice(n)

Jobs(d) == Records(d) \/ Posts(d) \/ FansOut(d)

Works ==
  \/ Commands
  \/ \E d \in Devices : Jobs(d) \/ Intake(d) \/ Lands(d) \/ Acks(d) \/ AckArrives(d)
  \/ \E d, e \in Devices : Hears(d, e) \/ Reads(d, e)

Next == Works \/ Restarts \/ \E d \in Devices : LandsNot(d)

(* Requests are awaited, subscriptions deliver what is in the store, and   *)
(* the people do what the plan says: something is done while there is      *)
(* anything to do.                                                         *)
Fairness == WF_vars(Works)

Spec == Init /\ [][Next]_vars /\ Fairness
-----------------------------------------------------------------------------
(* What a row, a persona and an engine are.                                *)
TypeOK ==
  /\ \A p \in People :
       /\ person[p].devices = None \/ person[p].devices \subseteq {d \in Devices : OwnerOf(d) # p}
       /\ person[p].request.status \in {None, "pending", "accepted", "declined"}
       /\ person[p].unread \in 0 .. Cardinality(Messages)
       /\ \A m \in Rows : person[p].rows[m] # None =>
            /\ person[p].rows[m].status \in {"received", "sent", "failed", "delivered"}
            /\ person[p].rows[m].got \cup person[p].rows[m].acked \cup person[p].rows[m].claims \subseteq Devices
  /\ \A d \in Devices :
       /\ job[d].step \in {"idle", "record", "post", "fan"} /\ job[d].to \in Seq(Devices)
       /\ engine[d] # None => engine[d].read \in [Devices -> Nat] /\ d \notin gone
       /\ slot[d].for \subseteq Devices /\ slot[d].no \in Nat

(* A file is claimed once: HOP gives it out once, and the devices of a     *)
(* persona, which all decode the message, do not compete for it            *)
(* (persona.mjs:283-288, chat.mjs:453-463).                                *)
ClaimedOnce == \A p \in People : \A m \in Rows :
  person[p].rows[m] # None => Cardinality(person[p].rows[m].claims) <= 1

(* The number on a room is the number of its unread messages, also when    *)
(* devices receive late and statements are read again                      *)
(* (persona.mjs:144-158, 220-227).                                         *)
UnreadIsCounted == \A p \in People : person[p].unread = Cardinality(Unread(person[p]))

(* A persona does not get a message before an earlier one of the same      *)
(* device, whichever of its devices reads, and whoever acknowledged it:    *)
(* what landed in the store is sent again until it is acknowledged         *)
(* (chat.mjs:217-219, 282-284).                                            *)
SentBefore(m, n) == \E i \in DOMAIN plan.scripts : \E j, k \in DOMAIN plan.scripts[i] :
  /\ j < k /\ plan.scripts[i][j].by = plan.scripts[i][k].by
  /\ plan.scripts[i][j].arg = m /\ plan.scripts[i][k].arg = n
  /\ plan.scripts[i][j].op \in {"text", "file"} /\ plan.scripts[i][k].op \in {"text", "file"}
NothingSkipped == plan.restarts = 0 => \A p \in People : \A m, n \in Messages :
  /\ SentBefore(m, n) /\ person[p].rows[n] # None /\ ~person[p].rows[n].out
  /\ person[Other(p)].rows[m].status # "failed"
  => person[p].rows[m] # None

(* What the acceptor has posted makes alice's request accepted, and she    *)
(* has a contact with that device on all of hers                           *)
(* (chat.mjs:573-604, 521-527).                                            *)
AcceptedIsHeard == [](
  accepts # {} /\ gone = {} =>
    <>(gone # {} \/ (person.alice.request.status = "accepted" /\ \E e \in accepts : e \in person.alice.devices
                    /\ \A d \in Online("alice") : engine[d].chan)))

(* Every message that a session took reaches the peer, and its sender      *)
(* learns it, as long as nothing restarts and no device is removed: also   *)
(* those of a batch that did not land, or whose acknowledgement failed,    *)
(* when a later batch of the device gets through. "`sent` is optimistic    *)
(* and nothing walks it back" (chat.mjs:346-347) when none does; and a     *)
(* failed acknowledgement alone keeps no message from the peer (323-326).  *)
Shown(p, m, status) == person[p].rows[m] # None /\ person[p].rows[m].status = status
Calm == plan.restarts = 0 /\ gone = {} /\ left.posts = plan.posts
Taken(p) == {m \in Messages : Shown(p, m, "sent") \/ Shown(p, m, "delivered")}
SentIsDelivered == []<>(Calm => \A p \in People : \A m \in Taken(p) :
  LET d == person[p].rows[m].by
  IN  /\ lost[d] # "batch" => person[Other(p)].rows[m] # None
      /\ lost[d] = "no" => Shown(p, m, "delivered"))

-----------------------------------------------------------------------------
(* Properties the code does not have.                                      *)

(* A message shown as delivered was received (persona.mjs:180).            *)
DeliveredIsReceived == \A p \in People : \A m \in Messages :
  Shown(p, m, "delivered") => person[Other(p)].rows[m] # None

(* A removed device is not addressed again once the peer had dropped it    *)
(* (persona.mjs:361-365).                                                  *)
RemovedStaysRemoved == [][\A p \in People : \A d \in gone :
  person[p].devices # None /\ d \notin person[p].devices /\ OwnerOf(d) # p => d \notin person'[p].devices]_vars

(* The peer learns all of alice's devices (chat.mjs:539-545).              *)
AllAreAnnounced == [](person.alice.request.status = "accepted" =>
  <>(person.bob.devices # None /\ Online("alice") \subseteq person.bob.devices))
=============================================================================
