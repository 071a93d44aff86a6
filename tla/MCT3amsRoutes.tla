--------------------------- MODULE MCT3amsRoutes ---------------------------
(***************************************************************************)
(* Small instances of two components by which people reach the T3ams bot:  *)
(* the first contact (T3amsPairing) and the routes on which it hears them  *)
(* (T3amsRoutes). They share no variable and are checked in one run: a     *)
(* behaviour runs the component named by part, and the other one rests in  *)
(* a first state.                                                          *)
(***************************************************************************)
EXTENDS Naturals

CONSTANTS alice, bob, None

VARIABLES
  part,
  (* of T3amsPairing *)
  mode, device, inbox, node, config, trusted, agent, call, startup, peerDisk, bound,
  (* of T3amsRoutes *)
  published, subs, retry, reconcile, replay, wanted, queue, handled, plan

peerVars  == <<mode, device, inbox, node, config, trusted, agent, call, startup, peerDisk, bound>>
routeVars == <<published, subs, retry, reconcile, replay, wanted, queue, handled, plan>>
vars      == <<part, peerVars, routeVars>>

-----------------------------------------------------------------------------
(* A pinned bot for one person, with a new device, restarts, a crash, a    *)
(* failed submit; a public one for two, of whom it keeps one.              *)
Setup(m, who, statements, devices, windows, restarts, crashes, faults) ==
  [mode |-> m, who |-> who, statements |-> statements, devices |-> devices, windows |-> windows,
   restarts |-> restarts, crashes |-> crashes, faults |-> faults]
Setups == {Setup("pinned", {alice}, 3, 0, 0, 2, 0, 1), Setup("pinned", {alice}, 3, 1, 0, 1, 0, 0),
           Setup("pinned", {alice}, 2, 0, 0, 1, 1, 1), Setup("public", {alice, bob}, 3, 1, 1, 0, 0, 1)}

Pairing == INSTANCE T3amsPairing WITH
  Peers <- {alice, bob}, KeysPerPeer <- 1, PeerLimit <- 1, AdmissionCap <- 2,
  bot <- agent, disk <- peerDisk

-----------------------------------------------------------------------------
(* An invite opens the plane and the notifications, a document the channel,*)
(* a key lets its message be read; a request opens a direct conversation.  *)
No(items) == [i \in items |-> {}]
Items == {"invite", "request", "doc", "archived", "key", "post"}
Base  == {"invite", "doc", "key", "post"}
Run(cap, room, items, first, fails, deaths, silent) ==
  [cap |-> cap, room |-> room, items |-> items, first |-> first, fails |-> fails, deaths |-> deaths, silent |-> silent]

Routes == INSTANCE T3amsRoutes WITH
  Sets    <- << <<"inbox">>, <<"plane", "notify">>, <<"channel">>, <<"dm">> >>,
  Inbox   <- "inbox",
  Retained <- [inbox |-> <<"request", "invite">>, plane |-> <<"doc", "archived">>, notify |-> <<"key">>,
               channel |-> <<"post">>, dm |-> <<>>],
  Needs   <- [No(Items) EXCEPT !.doc = {"invite"}, !.archived = {"doc"}, !.key = {"doc"}, !.post = {"key"}],
  Adds    <- [No(Items) EXCEPT !.invite = {"plane", "notify"}, !.request = {"dm"}, !.doc = {"channel"}],
  Removes <- [No(Items) EXCEPT !.archived = {"channel"}],
  Forces  <- [No(Items) EXCEPT !.invite = {"plane", "notify"}, !.doc = {"plane", "notify", "channel"},
                               !.archived = {"plane", "notify", "channel"}, !.key = {"plane", "notify", "channel"}],
  Plans <- {Run(5, 4, Base, Base, 1, 0, 0), Run(5, 4, Base, Base \ {"post"}, 0, 1, 0),
            Run(5, 2, {"invite", "doc"}, {"invite"}, 1, 1, 0), Run(5, 4, Base, Base, 0, 0, 1),
            Run(5, 5, Base \cup {"archived"}, Base, 0, 0, 0),
            Run(5, 1, {"invite", "request"}, {"request"}, 0, 0, 0),
            Run(3, 2, Base \cup {"request"}, Base \cup {"request"}, 0, 0, 0)}

-----------------------------------------------------------------------------
Init ==
  /\ part \in {"pairing", "routes"}
  /\ Pairing!Init /\ (part = "pairing" \/ bound = CHOOSE s \in Setups : TRUE)
  /\ Routes!Init /\ (part = "routes" \/ plan.silent = 1)

Next ==
  \/ part = "pairing" /\ Pairing!Next /\ UNCHANGED <<part, routeVars>>
  \/ part = "routes" /\ Routes!Next /\ UNCHANGED <<part, peerVars>>

(* The fairness of the two modules, for the component that runs.           *)
Spec ==
  /\ Init /\ [][Next]_vars
  /\ \A h \in {alice, bob} :
       /\ WF_peerVars(part = "pairing" /\ Pairing!Receives(h))
       /\ WF_peerVars(part = "pairing" /\ Pairing!Replays(h))
       /\ WF_peerVars(part = "pairing" /\ Pairing!Greets(h))
  /\ \A t \in Pairing!Tasks :
       WF_peerVars(part = "pairing" /\ (Pairing!AckSent(t) \/ Pairing!GreetingSent(t)))
  /\ WF_peerVars(part = "pairing" /\ Pairing!Greeted)
  /\ \A r \in Routes!Routes : WF_routeVars(part = "routes" /\ Routes!PageArrives(r))
  /\ WF_routeVars(part = "routes" /\ \E r \in Routes!Routes : Routes!RetryFires(r))
  /\ WF_routeVars(part = "routes" /\ Routes!Handle)
  /\ WF_routeVars(part = "routes" /\ Routes!ReconcileFires)
  /\ WF_routeVars(part = "routes" /\ Routes!ReplayFires)
  /\ WF_routeVars(part = "routes" /\ Routes!Refresh)

-----------------------------------------------------------------------------
(* The two modules' type invariants.                                       *)
TypesOK == Pairing!TypeOK /\ Routes!TypeOK

(* The properties, explained in the modules. The newest request is         *)
(* acknowledged in the end: T3amsPairing (t3ams-protocol.mjs:1426-1455).   *)
FreshIsAcknowledged == part = "pairing" => Pairing!FreshIsAcknowledged
(* A greeting's text goes out once: T3amsPairing                           *)
(* (t3ams-protocol.mjs:1467-1478).                                         *)
GreetingSentOnce == Pairing!GreetingSentOnce
(* No route set stays half open: T3amsRoutes (t3ams/index.mjs:2425-2429).  *)
PartialIsTemporary == Routes!PartialIsTemporary
(* What is retained for the bot is handled in the end: T3amsRoutes         *)
(* (t3ams/index.mjs:2585-2587, 2607-2610).                                 *)
RetainedIsHandled == part = "routes" => Routes!RetainedIsHandled

=============================================================================
