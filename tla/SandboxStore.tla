---------------------------- MODULE SandboxStore ----------------------------
(***************************************************************************)
(* The statement store node of the sandbox (src/sandbox/lib/store-node     *)
(* .mjs), which the transports are tested against. It keeps one statement  *)
(* per signer and channel, replaces it by one of a strictly higher expiry  *)
(* only, keeps a limited number per account, forgets what has expired,     *)
(* sends a subscriber what it holds and then what is new, and can be told  *)
(* to lose, delay and hold back.                                           *)
(*                                                                         *)
(* Not modelled: decoding, proofs and topics (every subscription matches   *)
(* every statement), dump pages and the order within a dump, the answers'  *)
(* fields, the history of the slots and the other views of the inspector,  *)
(* the wire events.                                                        *)
(***************************************************************************)
EXTENDS Naturals, FiniteSets

CONSTANTS
  Statements, \* statements
  SignerOf,   \* the account that signed each, a function on Statements
  ChannelOf,  \* its channel, or None
  ExpiryOf,   \* <<second, sequence>> of its expiry
  None,
  AccountCap, \* maxCountPerAccount
  Subs,       \* subscription ids
  Plans       \* bounds: a record each, with what is submitted and how often,
              \* the subscriptions, the seconds, restarts and resets, the
              \* faults that can be set, with their counts, and which
              \* accounts have an allowance

VARIABLES
  statements, \* what the node holds
  seconds,    \* the clock
  subs,       \* state and deliveries of each subscription
  faults,     \* the faults that are set: kind to count, 0 for none
  delayed,    \* submits that are held back as a whole
  late,       \* answers that are held back
  answers,    \* the answers the node gave, to a connection that may be gone
  plan        \* what is left of the plan

vars == <<statements, seconds, subs, faults, delayed, late, answers, plan>>

Kinds == {"drop", "delay", "delaySubmitReply", "holdDump"}

NoSub == [state |-> "none", got |-> {}]

Init ==
  /\ plan \in Plans /\ statements = {} /\ seconds = 0
  /\ subs = [n \in Subs |-> NoSub] /\ faults = [k \in Kinds |-> 0]
  /\ delayed = {} /\ late = {} /\ answers = {}

-----------------------------------------------------------------------------
(* The rules.                                                              *)

Before(a, b) == a[1] < b[1] \/ (a[1] = b[1] /\ a[2] < b[2])
Expired(s)   == seconds >= ExpiryOf[s][1]

(* pruneExpired                                                            *)
Alive == {s \in statements : ~Expired(s)}

(* The statement in the slot of another.                                   *)
Previous(s) ==
  {t \in Alive : ChannelOf[s] # None /\ SignerOf[t] = SignerOf[s] /\ ChannelOf[t] = ChannelOf[s]}

Own(s) == {t \in Alive : SignerOf[t] = SignerOf[s]} \ Previous(s)

(* The statements of the account that have to go, the lowest first.        *)
Surplus(s) ==
  LET n == Cardinality(Own(s)) + 1
      k == IF n > AccountCap THEN n - AccountCap ELSE 0
  IN  CHOOSE e \in SUBSET Own(s) :
        Cardinality(e) = k /\ \A t \in e : \A u \in Own(s) \ e : ~Before(ExpiryOf[u], ExpiryOf[t])

(* Mutant: an equal expiry is enough to replace a statement. *)
OutranksOrEquals(s, t) == ~Before(ExpiryOf[s], ExpiryOf[t])

(* Strictly greater.                                                       *)
Outranks(s, t) == Before(ExpiryOf[t], ExpiryOf[s])

(* submit: the answer to a statement.                                      *)
Verdict(s) ==
  CASE Expired(s) -> "alreadyExpired"
    [] s \in Alive -> "known"
    [] SignerOf[s] \notin plan.allowed -> "noAllowance"
    [] \E t \in Previous(s) : ~Outranks(s, t) -> "channelPriorityTooLow"
    [] \E t \in Surplus(s) : ~Outranks(s, t) -> "accountFull"
    [] faults["drop"] > 0 -> "dropped"
    [] OTHER -> "new"

Answer(s) == IF Verdict(s) = "dropped" THEN "new" ELSE Verdict(s)

Pushed(s) == [n \in Subs |-> IF subs[n].state \in {"active", "again"} THEN [subs[n] EXCEPT !.got = @ \cup {s}] ELSE subs[n]]

(* A fault with a count goes when it is spent.                             *)
Hit(kind, hits) == [faults EXCEPT ![kind] = IF hits /\ @ > 0 THEN @ - 1 ELSE @]

(* What a submit does, and its answer, at once or late.                    *)
Submits(s) ==
  LET new   == Verdict(s) = "new"
      slow  == faults["delaySubmitReply"] > 0
      spent == Hit("drop", Verdict(s) = "dropped")
  IN  /\ statements' = IF new THEN (Alive \ (Previous(s) \cup Surplus(s))) \cup {s} ELSE Alive
      /\ subs' = IF new THEN Pushed(s) ELSE subs
      /\ faults' = [spent EXCEPT !["delaySubmitReply"] = IF slow THEN @ - 1 ELSE @]
      /\ IF slow THEN late' = late \cup {<<s, Answer(s)>>} /\ UNCHANGED answers
         ELSE answers' = answers \cup {<<s, Answer(s)>>} /\ UNCHANGED late

-----------------------------------------------------------------------------
(* statement_submit. A delay holds back the whole submit.                  *)
Submit(s) ==
  /\ s \in plan.submits /\ plan.times[s] > 0 /\ plan' = [plan EXCEPT !.times[s] = @ - 1]
  /\ IF faults["delay"] > 0
     THEN /\ delayed' = delayed \cup {s} /\ faults' = Hit("delay", TRUE)
          /\ UNCHANGED <<statements, subs, late, answers>>
     ELSE Submits(s) /\ UNCHANGED delayed
  /\ UNCHANGED seconds

DelayedRuns(s) ==
  /\ s \in delayed /\ delayed' = delayed \ {s} /\ Submits(s)
  /\ UNCHANGED <<seconds, plan>>

LateAnswer(a) ==
  /\ a \in late /\ late' = late \ {a} /\ answers' = answers \cup {a}
  /\ UNCHANGED <<statements, seconds, subs, faults, delayed, plan>>

(* Mutant: a subscription begins with what is new. *)
NoDump == {}

(* sendDump                                                                *)
Dump == Alive

(* statement_subscribeStatement                                            *)
Subscribes(n) ==
  /\ subs[n].state = "none" /\ plan.subs > 0 /\ plan' = [plan EXCEPT !.subs = @ - 1]
  /\ IF faults["holdDump"] > 0
     THEN subs' = [subs EXCEPT ![n] = [state |-> "held", got |-> {}]] /\ UNCHANGED statements
     ELSE /\ subs' = [subs EXCEPT ![n] = [state |-> "active", got |-> Dump]]
          /\ statements' = Alive
  /\ UNCHANGED <<seconds, faults, delayed, late, answers>>

(* statement_unsubscribeStatement. One that is held back is not found.     *)
Unsubscribes(n) ==
  /\ subs[n].state \in {"active", "held"}
  /\ subs' = [subs EXCEPT ![n].state = IF @ = "active" THEN "closed" ELSE "held, closed"]
  /\ UNCHANGED <<statements, seconds, faults, delayed, late, answers, plan>>

SetsFault(kind) ==
  /\ plan.faults[kind] > 0 /\ faults[kind] = 0
  /\ faults' = [faults EXCEPT ![kind] = plan.faults[kind]]
  /\ plan' = [plan EXCEPT !.faults[kind] = 0]
  /\ UNCHANGED <<statements, seconds, subs, delayed, late, answers>>

(* clearFault: what was held back is released.                             *)
ClearsFault(kind) ==
  /\ faults[kind] > 0 /\ faults' = [faults EXCEPT ![kind] = 0]
  /\ IF kind = "holdDump"
     THEN /\ subs' = [n \in Subs |-> IF subs[n].state \in {"held", "held, closed"}
                                     THEN [state |-> IF subs[n].state = "held" THEN "active" ELSE "again", got |-> Dump]
                                     ELSE subs[n]]
          /\ statements' = Alive
     ELSE UNCHANGED <<subs, statements>>
  /\ UNCHANGED <<seconds, delayed, late, answers, plan>>

Tick ==
  /\ plan.seconds > 0 /\ plan' = [plan EXCEPT !.seconds = @ - 1] /\ seconds' = seconds + 1
  /\ UNCHANGED <<statements, subs, faults, delayed, late, answers>>

(* dropClients: the connections are gone.                                  *)
Dropped == [n \in Subs |-> IF subs[n].state = "none" THEN NoSub ELSE [subs[n] EXCEPT !.state = "closed"]]

Restarts ==
  /\ plan.restarts > 0 /\ plan' = [plan EXCEPT !.restarts = @ - 1]
  /\ subs' = Dropped
  /\ UNCHANGED <<statements, seconds, faults, delayed, late, answers>>

Resets ==
  /\ plan.resets > 0 /\ plan' = [plan EXCEPT !.resets = @ - 1]
  /\ subs' = Dropped /\ statements' = {}
  /\ UNCHANGED <<seconds, faults, delayed, late, answers>>

Next ==
  \/ \E s \in Statements : Submit(s) \/ DelayedRuns(s)
  \/ \E a \in late : LateAnswer(a)
  \/ \E n \in Subs : Subscribes(n) \/ Unsubscribes(n)
  \/ \E k \in Kinds : SetsFault(k) \/ ClearsFault(k)
  \/ Tick \/ Restarts \/ Resets

Spec == Init /\ [][Next]_vars

-----------------------------------------------------------------------------
TypeOK ==
  /\ statements \subseteq Statements
  /\ \A n \in Subs :
       /\ subs[n].state \in {"none", "held", "held, closed", "active", "again", "closed"}
       /\ subs[n].got \subseteq Statements
  /\ delayed \subseteq Statements /\ \A a \in answers \cup late : a[1] \in Statements

(* There is one statement in a slot and no more than the account's limit   *)
(* of them, whatever was delayed, dropped, evicted or has expired          *)
(* (store-node.mjs:12-30).                                                 *)
SlotsHold ==
  /\ \A s, t \in statements : s # t /\ ChannelOf[s] # None /\ SignerOf[s] = SignerOf[t] => ChannelOf[s] # ChannelOf[t]
  /\ \A s \in statements : Cardinality({t \in statements : SignerOf[t] = SignerOf[s]}) <= AccountCap

(* A slot's expiry never goes down, unless what it held had expired, was   *)
(* evicted for the account's limit or wiped                                *)
(* (store-node.mjs:12-18).                                                 *)
ExpiryGrows ==
  [][\A s \in statements \ statements' : \A t \in statements' :
       SignerOf[s] = SignerOf[t] /\ ChannelOf[s] = ChannelOf[t] /\ ChannelOf[s] # None
         => Before(ExpiryOf[s], ExpiryOf[t]) \/ Expired(s)]_vars

(* Whoever is subscribed has, by the dump or after it, all that the node   *)
(* holds and has not expired, also when the dump was held back and         *)
(* statements came meanwhile (store-node.mjs:194-221).                     *)
SubscribersSeeAll ==
  \A n \in Subs : subs[n].state = "active" => Alive \subseteq subs[n].got

-----------------------------------------------------------------------------
(* A property the code does not have: a subscription that was ended while  *)
(* its dump was held back gets nothing (statement_unsubscribeStatement     *)
(* looks for live ones only, and the release brings it to life).           *)
EndedStaysEnded == \A n \in Subs : subs[n].state # "again"

=============================================================================
