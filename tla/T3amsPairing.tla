---------------------------- MODULE T3amsPairing ----------------------------
(***************************************************************************)
(* First contact in the T3ams protocol client                              *)
(* (src/bot-core/transports/t3ams/t3ams-protocol.mjs, receiveInbox,        *)
(* addPeer, parkPendingTrust, greetPeer, replayPendingTrust; the startup   *)
(* of t3ams/index.mjs). A person's request or accept is a retained         *)
(* statement that is handled again at each replay. A bot with an allowlist *)
(* parks the keys nobody has approved and handles the approved one at the  *)
(* next start; a public bot enrols whom it has room for. Two tasks handle  *)
(* statements: the inbound callbacks, one at a time, and the startup,      *)
(* which replays what was parked and then greets. Each waits for the       *)
(* node's answer while the other goes on.                                  *)
(*                                                                         *)
(* Not modelled: names, signatures (each statement is its device's),       *)
(* invites (T3amsWorkspace), direct messages (only that they touch the     *)
(* peer), the caps of greeted and parked people, and the 20 hours after    *)
(* which an unanswered greeting is repeated.                               *)
(***************************************************************************)
EXTENDS Naturals, Sequences, FiniteSets, SequencesExt

CONSTANTS
  Peers,         \* people
  None,          \* no value
  KeysPerPeer,   \* T3AMS_PENDING_TRUST_KEYS_PER_XID
  PeerLimit,     \* maxPeers of a public bot
  AdmissionCap,  \* publicPeerAdmissionLimit in one window
  Setups         \* bounds: the bots to check, each a record of mode ("pinned"
                 \* or "public"), who takes part, and how many statements of
                 \* people, devices, windows, restarts, crashes and failed
                 \* submissions there are

VARIABLES
  mode,     \* requireTrustedPeers ("pinned") or publicTofuEnrollment
  device,   \* the key of each person's present device
  inbox,    \* what each person retains in the bot's inbox
  node,     \* what the bot submitted for each: the newest request answered,
            \* the greetings and the greeting texts
  config,   \* the approved keys in the configuration
  trusted,  \* trustedPeers: the approved keys of this process
  bot,      \* state: peers, parked (pendingTrust), greeted, pending
            \* (pendingGreetings), recent (peers by activity, oldest first),
            \* stale (those inactive for a window), admitted (in this window)
  call,     \* what each task waits for
  startup,  \* whom the startup has still to replay, and to greet
  disk,     \* the last snapshot of the state on disk
  bound     \* what is left of the bounds

vars == <<mode, device, inbox, node, config, trusted, bot, call, startup, disk, bound>>
people == <<mode, device, inbox, config>>

Tasks == {"inbound", "startup"}
Spends(what) == bound[what] > 0 /\ bound' = [bound EXCEPT ![what] = @ - 1]
Fresh == 1 + Max({s.statements : s \in Setups}) - bound.statements

(* With a pin the peer is on the roster from the start, without a handshake. *)
Pinned(peers, pins) ==
  [p \in Peers |->
     IF pins[p] = None THEN peers[p]
     ELSE IF peers[p] = None THEN [key |-> pins[p], ack |-> 0, done |-> FALSE]
     ELSE [peers[p] EXCEPT !.key = pins[p]]]

Starts(b, pins) ==
  /\ trusted' = pins
  /\ bot' = [b EXCEPT !.peers = Pinned(@, pins)]
  /\ call' = [t \in Tasks |-> None]
  /\ startup' = [replay |-> {p \in Peers : b.parked[p] # <<>> /\ pins[p] # None},
                 greet |-> IF mode = "pinned" THEN bound.who ELSE {}]

Nobody == [p \in Peers |-> None]
Empty == [peers |-> Nobody, parked |-> [p \in Peers |-> <<>>], greeted |-> {}, pending |-> {},
          recent |-> <<>>, stale |-> {}, admitted |-> 0]

Init ==
  /\ bound \in Setups /\ mode = bound.mode
  /\ device = [p \in Peers |-> 1] /\ inbox = Nobody
  /\ node = [p \in Peers |-> [acked |-> 0, greets |-> 0, texts |-> 0]]
  /\ config = Nobody /\ trusted = Nobody
  /\ bot = Empty /\ disk = Empty
  /\ call = [t \in Tasks |-> None]
  /\ startup = [replay |-> {}, greet |-> IF mode = "pinned" THEN bound.who ELSE {}]

-----------------------------------------------------------------------------
(* People and the operator.                                                *)

Requests(p) ==
  /\ p \in bound.who /\ Spends("statements")
  /\ inbox' = [inbox EXCEPT ![p] = [kind |-> "request", at |-> Fresh, key |-> device[p]]]
  /\ UNCHANGED <<mode, device, node, config, trusted, bot, call, startup, disk>>

(* The app accepts a greeting by itself.                                   *)
Accepts(p) ==
  /\ node[p].greets > 0 /\ Spends("statements")
  /\ inbox' = [inbox EXCEPT ![p] = [kind |-> "accept", at |-> Fresh, key |-> device[p]]]
  /\ UNCHANGED <<mode, device, node, config, trusted, bot, call, startup, disk>>

(* The app is installed anew, with another key.                            *)
Reinstalls(p) ==
  /\ p \in bound.who /\ Spends("devices")
  /\ device' = [device EXCEPT ![p] = @ + 1]
  /\ UNCHANGED <<mode, inbox, node, config, trusted, bot, call, startup, disk>>

(* pca trust: the operator compares a parked key, in the state file, with  *)
(* that of the person's device.                                            *)
Approves(p) ==
  /\ config[p] = None /\ device[p] \in ToSet([i \in DOMAIN disk.parked[p] |-> disk.parked[p][i].key])
  /\ config' = [config EXCEPT ![p] = device[p]]
  /\ UNCHANGED <<mode, device, inbox, node, trusted, bot, call, startup, disk, bound>>

-----------------------------------------------------------------------------
(* The roster.                                                             *)

(* A new object takes the place of the peer's: a task that waits with the  *)
(* old one writes its marks there, where nobody reads them.                *)
Replaced(calls, gone) ==
  [t \in Tasks |->
     IF calls[t] # None /\ calls[t].peer \in gone THEN [calls[t] EXCEPT !.same = FALSE] ELSE calls[t]]

Active(b, p) ==
  [b EXCEPT !.recent = Append(SelectSeq(@, LAMBDA q : q # p), p), !.stale = @ \ {p}]

(* touchPeer, for a direct message: the inbound callback is not waiting.   *)
Touches(p) ==
  /\ call["inbound"] = None /\ bot.peers[p] # None /\ bot.peers[p].done
  /\ call["startup"] # None /\ call["startup"].peer = p /\ call["startup"].same
  /\ bot' = Active(bot, p) /\ call' = Replaced(call, {p})
  /\ UNCHANGED <<people, node, trusted, startup, disk, bound>>

Roster(b) == {p \in Peers : b.peers[p] # None}

(* Mutant: one peer more than the limit is kept. *)
FullByOneMore == mode = "public" /\ Cardinality(Roster(bot)) > PeerLimit

(* The roster of a public bot is bounded.                                  *)
Full == mode = "public" /\ Cardinality(Roster(bot)) >= PeerLimit

(* oldestEvictablePeerId: of those who were not active in the last window. *)
Evictable == SelectSeq(bot.recent, LAMBDA q : q \in bot.stale /\ bot.peers[q] # None)

(* The refusals of addPeer.                                                *)
MayAdd(p, r) ==
  /\ bot.peers[p] # None => bot.peers[p].key \in {None, r.key}
  /\ bot.peers[p] = None /\ mode = "public" =>
       (Full => Evictable # <<>>) /\ bot.admitted < AdmissionCap

(* Mutant: a request counts as answered before the answer is submitted. *)
EntryMarked(p, r) ==
  [key |-> r.key, ack |-> r.at, done |-> bot.peers[p] # None /\ bot.peers[p].done]

Entry(p, r) ==
  [key |-> r.key, ack |-> IF bot.peers[p] = None THEN 0 ELSE bot.peers[p].ack,
   done |-> bot.peers[p] # None /\ bot.peers[p].done]

Evicted(p) == IF bot.peers[p] = None /\ Full THEN {Head(Evictable)} ELSE {}

(* addPeer                                                                 *)
Added(p, r) ==
  LET b == [bot EXCEPT
              !.peers = [q \in Peers |->
                 IF q = p THEN Entry(p, r) ELSE IF q \in Evicted(p) THEN None ELSE @[q]],
              !.recent = SelectSeq(@, LAMBDA q : q \notin Evicted(p)),
              !.admitted = IF bot.peers[p] = None /\ mode = "public" THEN @ + 1 ELSE @]
  IN Active(b, p)

-----------------------------------------------------------------------------
(* receiveInbox.                                                           *)

Waits(p, r, step) == [peer |-> p, r |-> r, step |-> step, same |-> TRUE]

(* Mutant: the parked greeting goes once it was sent. *)
AfterHandshakeKept(b, p) == [b EXCEPT !.greeted = @ \ {p}]

(* The pairing is complete: nothing more is outstanding.                   *)
AfterHandshake(b, p) == [b EXCEPT !.greeted = @ \ {p}, !.pending = @ \ {p}]

(* What is left after the answer to a request, or without one: the marks,  *)
(* and the greeting text that waited for the peer's key.                   *)
Completes(t, b, calls, p, r, same) ==
  LET marked == IF b.peers[p] # None /\ same
                THEN [b EXCEPT !.peers[p].done = TRUE, !.peers[p].ack = IF r.kind = "request" THEN r.at ELSE @]
                ELSE b IN
  /\ bot' = AfterHandshake(marked, p)
  /\ call' = [calls EXCEPT ![t] =
       IF p \in b.pending THEN [Waits(p, r, "greeting") EXCEPT !.same = same] ELSE None]

(* A retained request is answered once: its time is compared.              *)
Asks(p, r) == r.kind = "request" /\ (bot.peers[p] # None => r.at > bot.peers[p].ack)

(* An accept answers a request or a greeting.                              *)
Solicited(p, r) == r.kind = "accept" => bot.peers[p] # None \/ p \in bot.greeted

Handles(t, p, r) ==
  /\ MayAdd(p, r)
  /\ LET b == Added(p, r)  calls == Replaced(call, {p} \cup Evicted(p)) IN
     IF Asks(p, r)
     THEN bot' = b /\ call' = [calls EXCEPT ![t] = Waits(p, r, "ack")]
     ELSE Completes(t, b, calls, p, r, r.kind = "accept")

(* parkPendingTrust: the newest keys win.                                  *)
ParkedWith(p, r) ==
  LET s == Append(SelectSeq(bot.parked[p], LAMBDA e : e.key # r.key), r)
  IN  SubSeq(s, IF Len(s) > KeysPerPeer THEN Len(s) - KeysPerPeer + 1 ELSE 1, Len(s))

Receives(p) ==
  /\ call["inbound"] = None /\ inbox[p] # None /\ Solicited(p, inbox[p])
  /\ IF mode = "pinned" /\ trusted[p] = None
     THEN bot' = [bot EXCEPT !.parked[p] = ParkedWith(p, inbox[p])] /\ call' = call
     ELSE /\ mode = "pinned" => inbox[p].key = trusted[p]
          /\ Handles("inbound", p, inbox[p])
  /\ <<bot', call'>> # <<bot, call>>
  /\ UNCHANGED <<people, node, trusted, startup, disk, bound>>

AckSent(t) ==
  /\ call[t] # None /\ call[t].step = "ack"
  /\ LET c == call[t] IN
     /\ node' = [node EXCEPT ![c.peer].acked = IF @ < c.r.at THEN c.r.at ELSE @]
     /\ Completes(t, bot, call, c.peer, c.r, c.same)
  /\ UNCHANGED <<people, trusted, startup, disk, bound>>

GreetingSent(t) ==
  /\ call[t] # None /\ call[t].step = "greeting"
  /\ node' = [node EXCEPT ![call[t].peer].texts = @ + 1]
  /\ bot' = AfterHandshake(bot, call[t].peer)
  /\ call' = [call EXCEPT ![t] = None]
  /\ UNCHANGED <<people, trusted, startup, disk, bound>>

(* A submission fails: the handler throws, or drops the greeting's text.   *)
CallFails(t) ==
  /\ call[t] # None /\ Spends("faults")
  /\ call' = [call EXCEPT ![t] = None]
  /\ UNCHANGED <<people, node, trusted, bot, startup, disk>>

-----------------------------------------------------------------------------
(* The startup.                                                            *)

(* replayPendingTrust: what was parked goes, and the approved key's        *)
(* statement is handled; addPeer does not refuse a pinned key.             *)
Replays(p) ==
  /\ p \in startup.replay /\ call["startup"] = None
  /\ startup' = [startup EXCEPT !.replay = @ \ {p}]
  /\ LET match == SelectSeq(bot.parked[p], LAMBDA e : e.key = trusted[p])
         b == [bot EXCEPT !.parked[p] = <<>>] IN
     IF match = <<>> \/ ~Solicited(p, Head(match)) THEN bot' = b /\ call' = call
     ELSE LET after == [Added(p, Head(match)) EXCEPT !.parked[p] = <<>>]
              calls == Replaced(call, {p}) IN
          IF Asks(p, Head(match))
          THEN bot' = after /\ call' = [calls EXCEPT !["startup"] = Waits(p, Head(match), "ack")]
          ELSE Completes("startup", after, calls, p, Head(match), Head(match).kind = "accept")
  /\ UNCHANGED <<people, node, trusted, disk, bound>>

(* greetPeer, up to its submission.                                        *)
Greets(p) ==
  /\ startup.replay = {} /\ p \in startup.greet /\ call["startup"] = None
  /\ startup' = [startup EXCEPT !.greet = @ \ {p}]
  /\ call' = IF (bot.peers[p] # None => ~bot.peers[p].done) /\ p \notin bot.greeted
             THEN [call EXCEPT !["startup"] = Waits(p, None, "greet")] ELSE call
  /\ UNCHANGED <<people, node, trusted, bot, disk, bound>>

Greeted ==
  /\ call["startup"] # None /\ call["startup"].step = "greet"
  /\ LET p == call["startup"].peer IN
     /\ node' = [node EXCEPT ![p].greets = @ + 1]
     /\ bot' = [bot EXCEPT !.greeted = @ \cup {p}, !.pending = @ \cup {p}]
  /\ call' = [call EXCEPT !["startup"] = None]
  /\ UNCHANGED <<people, trusted, startup, disk, bound>>

-----------------------------------------------------------------------------
(* Time, the snapshot and restarts.                                        *)

(* A window passes: nobody was active in it.                               *)
WindowPasses ==
  /\ mode = "public" /\ Spends("windows")
  /\ bot' = [bot EXCEPT !.stale = Roster(bot), !.admitted = 0]
  /\ UNCHANGED <<people, node, trusted, call, startup, disk>>

(* persist. Bound: only where somebody reads the file.                     *)
Saved ==
  /\ disk # bot /\ disk' = bot
  /\ bound.crashes > 0 \/ \E p \in Peers : config[p] = None /\ bot.parked[p] # <<>>
  /\ UNCHANGED <<people, node, trusted, bot, call, startup, bound>>

(* The shutdown flushes the state and waits for nothing else.              *)
Restarts ==
  /\ Spends("restarts")
  /\ Starts(bot, config) /\ disk' = bot
  /\ UNCHANGED <<people, node>>

Crashes ==
  /\ Spends("crashes")
  /\ Starts(disk, config)
  /\ UNCHANGED <<people, node, disk>>

-----------------------------------------------------------------------------
Next ==
  \/ \E p \in Peers : Requests(p) \/ Accepts(p) \/ Reinstalls(p) \/ Approves(p)
  \/ \E p \in Peers : Touches(p) \/ Receives(p) \/ Replays(p) \/ Greets(p)
  \/ \E t \in Tasks : AckSent(t) \/ GreetingSent(t) \/ CallFails(t)
  \/ Greeted \/ WindowPasses \/ Saved \/ Restarts \/ Crashes

(* Retained statements are replayed, submissions are answered in the end   *)
(* and the startup runs to its end.                                        *)
Fairness ==
  /\ \A p \in Peers : WF_vars(Receives(p)) /\ WF_vars(Replays(p)) /\ WF_vars(Greets(p))
  /\ \A t \in Tasks : WF_vars(AckSent(t) \/ GreetingSent(t))
  /\ WF_vars(Greeted)

Spec == Init /\ [][Next]_vars /\ Fairness

-----------------------------------------------------------------------------
TypeOK ==
  /\ mode \in {"pinned", "public"}
  /\ \A p \in Peers :
       /\ inbox[p] # None => inbox[p].kind \in {"request", "accept"}
       /\ Len(bot.parked[p]) <= KeysPerPeer
       /\ bot.peers[p] # None => bot.peers[p].ack \in Nat /\ bot.peers[p].done \in BOOLEAN
  /\ bot.greeted \subseteq Peers /\ bot.pending \subseteq Peers
  /\ Cardinality(Roster(bot)) <= IF mode = "public" THEN PeerLimit ELSE Cardinality(Peers)
  /\ \A t \in Tasks : call[t] # None => call[t].peer \in Peers
  /\ call["inbound"] # None => call["inbound"].step \in {"ack", "greeting"}

(* The approved key; for a public bot the key the peer was enrolled with.  *)
Fits(p) ==
  /\ inbox[p] # None
  /\ IF mode = "pinned" THEN trusted[p] = inbox[p].key
     ELSE bot.peers[p] # None /\ bot.peers[p].key = inbox[p].key

(* The newest request of a person whose key fits is answered in the end,   *)
(* though the two tasks replace each other's peer, submissions fail and    *)
(* the bot restarts; after a new installation, too                         *)
(* (t3ams-protocol.mjs:1426-1455).                                         *)
FreshIsAcknowledged ==
  \A p \in Peers :
    <>[](Fits(p) /\ inbox[p].kind = "request") =>
      []<>(inbox[p] # None => node[p].acked >= inbox[p].at)

(* The text of a greeting is sent at most once for each greeting, whoever  *)
(* of the two tasks completes the pairing; a crash may repeat it           *)
(* (t3ams-protocol.mjs:1467-1478).                                         *)
GreetingSentOnce ==
  \A p \in Peers :
    node[p].texts <= node[p].greets + Max({s.crashes : s \in Setups}) - bound.crashes

=============================================================================
