----------------------------- MODULE T3amsRoutes -----------------------------
(***************************************************************************)
(* The subscriptions of the T3ams transport                                *)
(* (src/bot-core/transports/t3ams/index.mjs, subscription, syncSubscrip-   *)
(* tions, syncTopology, requestIngressReplay and the callback queue;       *)
(* t3ams-subscription-set.mjs). A route is opened on a topic and delivers  *)
(* what is retained there, then what is new. Which routes there should be  *)
(* follows from what was handled: an invite brings a workspace's routes,   *)
(* its documents its channels. What is handled too early, before the key   *)
(* or the registry it needs, is ignored and must come again.               *)
(*                                                                         *)
(* Each pass over the routes is one step, as in the code. Not modelled:    *)
(* what the statements say (their items are fixed), the delays of the      *)
(* timers, pages that arrive while a route is being opened, the restart,   *)
(* which begins with no route at all.                                      *)
(***************************************************************************)
EXTENDS Naturals, Sequences, FiniteSets, SequencesExt

CONSTANTS
  Sets,       \* the route sets in the order of a pass: sequences of routes
  Inbox,      \* the route that is always wanted
  Retained,   \* the items of each route, in the order in which the node sends
              \* them whenever the route is opened
  Needs,      \* what must have been handled before an item has an effect
  Adds,       \* the routes an item makes wanted
  Removes,    \* the routes an item makes unwanted
  Forces,     \* the routes its topology change opens again
  Plans       \* bounds: a record each, with the route cap, inboundCallbackCap
              \* (room), the items, those published from the start, and how many
              \* installations and open routes fail, and routes that go silent

VARIABLES
  published, \* the items people have retained
  subs,      \* subscriptions: a route's state and what it has delivered, or {}
  retry,     \* subscriptionRetryTimers
  reconcile, \* whether the subscriptionReconcileTimer is set
  replay,    \* whether the ingressReplayTimer is set
  wanted,    \* the routes of the present topology
  queue,     \* inboundCallbacks with the active one: items
  handled,   \* the items that had their effect
  plan       \* the plan, with what is left of its faults

vars == <<published, subs, retry, reconcile, replay, wanted, queue, handled, plan>>

Routes == UNION {ToSet(Sets[i]) : i \in DOMAIN Sets}
Items  == UNION {ToSet(Retained[r]) : r \in Routes}

(* A route that is not subscribed, and one just opened.                    *)
Closed == [state |-> "closed", got |-> {}]
Opened == [state |-> "open", got |-> {}]

IsOpen(s, r)     == s[r].state # "closed"
Delivering(s, r) == s[r].state \in {"open", "kept"}

Init ==
  /\ plan \in Plans /\ published = plan.first
  /\ subs = [r \in Routes |-> IF r = Inbox THEN Opened ELSE Closed]
  /\ retry = {} /\ reconcile = FALSE /\ replay = FALSE
  /\ wanted = {Inbox} /\ queue = <<>> /\ handled = {}

-----------------------------------------------------------------------------
(* One pass, syncSubscriptions.                                            *)

(* subscription: what has to be opened.                                    *)
Stale(acc, r) == r \in acc.force \/ ~IsOpen(acc.subs, r)

(* A set is opened. A route that cannot be opened anew stays as it is,     *)
(* without a new page, and is taken for opened.                            *)
Open(acc, set, kept) ==
  LET new == {r \in ToSet(set) : Stale(acc, r)} \ kept
  IN  [acc EXCEPT !.desired = @ \cup ToSet(set), !.retry = @ \ new,
                  !.subs = [r \in Routes |-> IF r \in new THEN Opened
                                                ELSE IF r \in kept /\ Delivering(@, r)
                                                THEN [@[r] EXCEPT !.state = "kept"] ELSE @[r]],
                  !.fails = @ - Cardinality(kept), !.reconcile = @ \/ kept # {}]

(* Of a set that cannot be opened, what was tried and is open from before  *)
(* stays.                                                                  *)
Keep(acc, tried) ==
  [acc EXCEPT !.desired = @ \cup {r \in tried : IsOpen(acc.subs, r)},
              !.fails = @ - 1, !.reconcile = TRUE]

(* Mutant: a set that fails is not tried again. *)
KeepSilently(acc, tried) ==
  [acc EXCEPT !.desired = @ \cup {r \in tried : IsOpen(acc.subs, r)}, !.fails = @ - 1]

(* What was tried in a set up to the route that fails.                     *)
AfterFailure(acc, tried) == Keep(acc, tried)

(* installT3amsSubscriptionRouteSet: all routes of a set, or none, are     *)
(* opened. A route outside a set is its own.                               *)
Outcomes(acc, set) ==
  IF ~(ToSet(set) \subseteq acc.want) \/ Cardinality(acc.desired) + Len(set) > plan.cap THEN {acc}
  ELSE {Open(acc, set, kept) :
          kept \in {k \in SUBSET {r \in ToSet(set) : IsOpen(acc.subs, r) /\ Stale(acc, r)} :
                      Cardinality(k) <= acc.fails}}
       \cup {AfterFailure(acc, {set[j] : j \in 1 .. i}) :
                i \in {n \in DOMAIN set : acc.fails > 0 /\ ~IsOpen(acc.subs, set[n])}}

(* What is not desired at the end is closed.                               *)
Cleaned(acc) ==
  [acc EXCEPT !.subs = [r \in Routes |-> IF r \in acc.desired THEN @[r] ELSE Closed],
              !.retry = @ \cap acc.desired]

(* A pass, in which installations may fail.                                *)
Syncs(s, timers, want, force, already) ==
  LET first == [desired |-> {}, subs |-> s, retry |-> timers, reconcile |-> already,
                want |-> want, force |-> force, fails |-> plan.fails]
      all == FoldLeft(LAMBDA accs, set : UNION {Outcomes(acc, set) : acc \in accs}, {first}, Sets)
  IN  \E done \in {Cleaned(acc) : acc \in all} :
        /\ subs' = done.subs /\ retry' = done.retry /\ reconcile' = done.reconcile
        /\ plan' = [plan EXCEPT !.fails = done.fails]

-----------------------------------------------------------------------------
(* The node.                                                               *)

Publish(i) ==
  /\ i \in plan.items \ published /\ published' = published \cup {i}
  /\ UNCHANGED <<subs, retry, reconcile, replay, wanted, queue, handled, plan>>

(* What an open route has not delivered yet, in the node's order.          *)
Fresh(r) == SelectSeq(Retained[r], LAMBDA i : i \in published \ subs[r].got)

(* A page: what there is, or its first part. Its items are offered to the  *)
(* queue one after the other in one go (enqueueInboundCallback): those for *)
(* which there is no room are refused, and everything is asked for again   *)
(* (requestIngressReplay).                                                 *)
PageArrives(r) ==
  /\ Delivering(subs, r)
  /\ \E n \in DOMAIN Fresh(r) :
       LET page == SubSeq(Fresh(r), 1, n)
           taken == SubSeq(page, 1, Min({n, plan.room - Len(queue)}))
       IN /\ subs' = [subs EXCEPT ![r].got = @ \cup ToSet(page)]
          /\ queue' = queue \o taken
          /\ replay' = (replay \/ Len(taken) < n)
  /\ UNCHANGED <<published, retry, reconcile, wanted, handled, plan>>

(* A subscription fails, and is opened again after a while.                *)
RouteFails(r) ==
  /\ Delivering(subs, r) /\ plan.deaths > 0 /\ plan' = [plan EXCEPT !.deaths = @ - 1]
  /\ subs' = [subs EXCEPT ![r].state = "failed"] /\ retry' = retry \cup {r}
  /\ UNCHANGED <<published, reconcile, replay, wanted, queue, handled>>

(* It remains connected and delivers nothing more.                         *)
RouteGoesSilent(r) ==
  /\ Delivering(subs, r) /\ plan.silent > 0 /\ plan' = [plan EXCEPT !.silent = @ - 1]
  /\ subs' = [subs EXCEPT ![r].state = "silent"]
  /\ UNCHANGED <<published, retry, reconcile, replay, wanted, queue, handled>>

-----------------------------------------------------------------------------
(* The callbacks.                                                          *)

(* Mutant: a topology change leaves open routes as they are. *)
ReopensNone(i) == {}

(* syncTopology: what may have been ignored before is asked for again.     *)
Reopens(i) == Forces[i]

(* A callback runs: its item has its effect once, when what it needs was   *)
(* handled, and the routes follow.                                         *)
Handle ==
  /\ queue # <<>> /\ queue' = Tail(queue)
  /\ LET i == Head(queue) IN
     IF i \in handled \/ ~(Needs[i] \subseteq handled)
     THEN UNCHANGED <<subs, retry, reconcile, wanted, handled, plan>>
     ELSE /\ handled' = handled \cup {i}
          /\ wanted' = (wanted \cup Adds[i]) \ Removes[i]
          /\ IF Adds[i] \cup Removes[i] \cup Forces[i] = {} THEN UNCHANGED <<subs, retry, reconcile, plan>>
             ELSE Syncs(subs, retry, wanted', Reopens(i), reconcile)
  /\ UNCHANGED <<published, replay>>

-----------------------------------------------------------------------------
(* The timers.                                                             *)

RetryFires(r) ==
  /\ r \in retry
  /\ Syncs([subs EXCEPT ![r] = Closed], retry \ {r}, wanted, {}, reconcile)
  /\ UNCHANGED <<published, replay, wanted, queue, handled>>

ReconcileFires ==
  /\ reconcile
  /\ Syncs(subs, retry, wanted, {}, FALSE)
  /\ UNCHANGED <<published, replay, wanted, queue, handled>>

(* Bound: the second it waits is enough for the queue to drain.            *)
ReplayFires ==
  /\ replay /\ queue = <<>> /\ replay' = FALSE
  /\ Syncs([r \in Routes |-> Closed], {}, wanted, {}, reconcile)
  /\ UNCHANGED <<published, wanted, queue, handled>>

(* The refresh, every two minutes. Bound: only while a route is silent or  *)
(* could not be opened anew, so that nothing else depends on it.           *)
Refresh ==
  /\ \E r \in Routes : subs[r].state \in {"silent", "kept"}
  /\ Syncs(subs, retry, wanted, {r \in Routes : IsOpen(subs, r)}, reconcile)
  /\ UNCHANGED <<published, replay, wanted, queue, handled>>

-----------------------------------------------------------------------------
Next ==
  \/ \E i \in Items : Publish(i)
  \/ \E r \in Routes : PageArrives(r) \/ RouteFails(r) \/ RouteGoesSilent(r) \/ RetryFires(r)
  \/ Handle \/ ReconcileFires \/ ReplayFires \/ Refresh

(* The node sends the pages of an open route, callbacks end, timers fire.  *)
(* Nothing is assumed of who finds room in the queue.                      *)
Fairness ==
  /\ \A r \in Routes : WF_vars(PageArrives(r))
  /\ WF_vars(\E r \in Routes : RetryFires(r))
  /\ WF_vars(Handle) /\ WF_vars(ReconcileFires)
  /\ WF_vars(ReplayFires) /\ WF_vars(Refresh)

Spec == Init /\ [][Next]_vars /\ Fairness

-----------------------------------------------------------------------------
TypeOK ==
  /\ \A r \in Routes :
       subs[r].state \in {"closed", "open", "kept", "failed", "silent"} /\ subs[r].got \subseteq published
  /\ Cardinality({r \in Routes : IsOpen(subs, r)}) <= plan.cap
  /\ {r \in Routes : IsOpen(subs, r)} \subseteq wanted
  /\ retry = {r \in Routes : subs[r].state = "failed"}
  /\ Len(queue) <= plan.room /\ handled \subseteq published

(* Of a route set that is wanted, and that there is room for, all routes   *)
(* are open, or a timer is set that will open the rest; never is a set     *)
(* left half open (t3ams/index.mjs:2425-2429).                             *)
PartialIsTemporary ==
  \A n \in DOMAIN Sets :
    (\E r \in ToSet(Sets[n]) : IsOpen(subs, r)) /\ (\E r \in ToSet(Sets[n]) : ~IsOpen(subs, r))
      => reconcile \/ retry # {} \/ replay

(* What people have retained is handled in the end, once what it needs is: *)
(* the workspace behind an invite, the channels behind its documents, the  *)
(* messages behind a key; however early they came, and although            *)
(* installations fail, routes die or go silent and callbacks are refused   *)
(* (t3ams/index.mjs:2585-2587, 2607-2610). The queue has to have room for  *)
(* all that is retained: a page is offered in its own order, so that every *)
(* replay may refuse the same tail.                                        *)
Expected(i) ==
  /\ i \in published /\ \A j \in published : Needs[j] \subseteq published
  /\ \A j \in published : \A r \in Removes[j] : i \notin ToSet(Retained[r])
  /\ plan.cap >= Cardinality(Routes)

EveryPageFits == Cardinality(published) <= plan.room

RetainedIsHandled == []<>(EveryPageFits => \A i \in Items : Expected(i) => i \in handled)

-----------------------------------------------------------------------------
(* Properties the code does not have.                                      *)

(* "reconnect once it drains so an uncommitted carrier is reconciled from  *)
(* its retained source instead of being forgotten" (t3ams/index.mjs:       *)
(* 2625-2627). Of more items than the queue has room for, those that come  *)
(* first take the room in every replay, though they were handled long ago; *)
(* the others never enter.                                                 *)
RefusedIsHandled == []<>(\A i \in Items : Expected(i) => i \in handled)

(* A route that is open and still wanted stays open when a sibling cannot  *)
(* be opened (t3ams-subscription-set.mjs:1-3: "on failure, the last known- *)
(* good routes remain in the desired roster for this sync pass"). A route  *)
(* that died and cannot be opened again takes the siblings that come after *)
(* it with it. (The pass after a full queue closes all routes first.)      *)
KnownGoodStays ==
  [][\A r \in Routes :
       Delivering(subs, r) /\ r \in wanted' /\ (replay => replay') /\ plan.cap >= Cardinality(Routes)
         => IsOpen(subs', r)]_vars

=============================================================================
