-------------------------------- MODULE Host --------------------------------
(***************************************************************************)
(* What there is on the host of a bot: its state file (StateStore), the    *)
(* files of its peers (FileVault), the marker of an allowance that is      *)
(* being granted (FileAllowance), the file that keeps a second process     *)
(* from serving the identity (InstanceGuard), the files that say how far   *)
(* its registration is (Registration), and the statement store of a        *)
(* sandbox that runs there in the place of the real network (SandboxStore),*)
(* whose expiry is a second and a sequence number. They share no variable. *)
(***************************************************************************)
EXTENDS StateStore, Sequences

CONSTANTS
  None,
  (* of FileVault *)
  Paths, PeerOf, Versions, SizeOf, TotalCap, PeerCap, EntryCap, Readers, Unknown, Plans,
  (* of FileAllowance *)
  Runs, Granted, Least, MaxAges,
  (* of InstanceGuard *)
  Procs, PidOf, Drills,
  (* of Registration *)
  Clients, Trials,
  (* of SandboxStore *)
  Statements, SignerOf, ChannelOf, ExpiryOf, AccountCap, Listeners, NodePlans

VARIABLES
  (* of FileVault *)
  entry, manifest, file, told, op, reader, up, plan, left,
  (* of FileAllowance *)
  run, marker, tx, chain, settled, excused, ages,
  (* of InstanceGuard *)
  drill, pidfile, mutex, proc, harm, guardLeft,
  (* of Registration *)
  trial, record, secret, client, filed, people, count, blame, claimLeft,
  (* of SandboxStore *)
  statements, seconds, nodeSubs, armed, delayed, late, answers, nodePlan

Vault  == INSTANCE FileVault
Grants == INSTANCE FileAllowance
Guard  == INSTANCE InstanceGuard WITH left <- guardLeft
Names  == INSTANCE Registration WITH left <- claimLeft
Node   == INSTANCE SandboxStore WITH
  Subs <- Listeners, Plans <- NodePlans, subs <- nodeSubs, faults <- armed, plan <- nodePlan

Content == Versions \cup {None}
Updates == [path : Paths, new : Content, at : {"stage", "aside", "place", "list", "tidy"}, aside : Content]
Reading == [at : {"stat", "open", "read", "sent", "failed"}, path : Paths, declared : Nat, stat : Nat,
            handle : Content, sent : Seq(Versions \X Nat)]
Marker  == [token : Runs, state : {"checking", "unresolved"}]

(* A file has a size, and None is nothing that the variables hold else.    *)
ASSUME VaultAssumption ==
  /\ SizeOf \in [Versions -> Nat \ {0}]
  /\ None \notin Versions /\ None \notin Updates /\ None \notin Reading

ASSUME GrantAssumption ==
  /\ Granted \in Nat /\ Least \in Nat /\ MaxAges \in Nat
  /\ None \notin Marker

ASSUME GuardAssumption == PidOf \in [Procs -> Nat \ {0}] /\ None \notin Guard!File

ASSUME ExpiryAssumption == ExpiryOf \in [Statements -> Nat \X Nat]

-----------------------------------------------------------------------------
(* The properties, explained in the modules; those of the state file are   *)
(* StateStore's own. What a peer is sent of a file is one version of it,   *)
(* whole: FileVault (hop-client.mjs:332-383).                              *)
DeliveredIsWhole == Vault!DeliveredIsWhole
(* No second grant while the outcome of one is not known: FileAllowance    *)
(* (testnet-file-allowance.mjs:55-57, 188-190; cli.mjs:401-403).           *)
OneOpenGrant == Grants!OneOpenGrant
(* One process serves the identity: InstanceGuard (index.mjs:2496-2498;    *)
(* t3ams/index.mjs:4242-4246).                                             *)
OneServes == Guard!OneServes
(* An identity has one claim at a time on a username: Registration         *)
(* (cli.mjs:1176-1180; registration.mjs:113-121).                          *)
ClaimedOnce == Names!ClaimedOnce
(* Subscribers are shown all that the store has and takes: SandboxStore    *)
(* (store-node.mjs:194-221).                                               *)
SubscribersSeeAll == Node!SubscribersSeeAll

=============================================================================
