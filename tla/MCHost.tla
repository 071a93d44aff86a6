------------------------------- MODULE MCHost -------------------------------
(***************************************************************************)
(* Small instances of six components on the bot's host, checked in one     *)
(* run: the state file (StateStore), the files that are kept for peers     *)
(* (FileVault), the marker of an allowance that is being granted           *)
(* (FileAllowance), the guard against a second process (InstanceGuard),    *)
(* the registration of its username (Registration) and the statement store *)
(* of a sandbox (SandboxStore). They share no variable: a behaviour runs   *)
(* the component named by part, and the others rest in a first state.      *)
(***************************************************************************)
EXTENDS Host, TLC

CONSTANTS f1, f2, v1, v2, v3, r1, r2, p1, p2, p3, s1, s2, s3, s4

VARIABLE part

storeVars == <<latest, pending, stage, data, timer, seq, stale, disk, asked, faults>>
vaultVars == <<entry, manifest, file, told, op, reader, up, plan, left>>
grantVars == <<run, marker, tx, chain, settled, excused, ages>>
guardVars == <<drill, pidfile, mutex, proc, harm, guardLeft>>
nameVars  == <<trial, record, secret, client, filed, people, count, blame, claimLeft>>
nodeVars  == <<statements, seconds, nodeSubs, armed, delayed, late, answers, nodePlan>>
hostVars  == <<part, storeVars, vaultVars, grantVars, guardVars, nameVars, nodeVars>>

-----------------------------------------------------------------------------
(* Two paths of different peers; three puts with a removal and failures, a *)
(* download during an update, a mode that cannot be set. Three invocations *)
(* of pca, each of which grants or recovers.                               *)
Peers == f1 :> "a" @@ f2 :> "b"
Sizes == v1 :> 1 @@ v2 :> 2 @@ v3 :> 1
Files(puts, removals, reads, writes, modes, crashes, http) ==
  [calls |-> [put |-> puts, rm |-> removals, read |-> reads],
   faults |-> [write |-> writes, mode |-> modes, crash |-> crashes], http |-> http]
FilePlans == {Files(3, 1, 0, 1, 0, 1, {}), Files(2, 1, 2, 0, 0, 0, {r2}), Files(2, 0, 0, 0, 1, 1, {})}

-----------------------------------------------------------------------------
(* Three processes, two of which are given the same process id.            *)
Pids == p1 :> 1 @@ p2 :> 2 @@ p3 :> 1
Drill(kind, crashes, stalls) == [kind |-> kind, who |-> {p1, p2, p3}, crashes |-> crashes, stalls |-> stalls]
GuardDrills == {Drill("chat", 1, 1), Drill("t3ams", 2, 0), Drill("t3ams", 1, 1)}

-----------------------------------------------------------------------------
(* Two clients and at most two claims. A bot on a network that wants no    *)
(* proof, with a migration, and on one that does, with a voucher, a lost   *)
(* answer and a process that dies; a persona on either.                    *)
Trial(kind, proof, commands, starts, wipes, deaths, old) ==
  [kind |-> kind, proof |-> proof, commands |-> commands, claims |-> 2, starts |-> starts, wipes |-> wipes,
   lost |-> deaths, deaths |-> deaths, ages |-> old, vouchers |-> IF proof THEN 1 ELSE 0]
NameTrials ==
  {Trial("bot", FALSE, {"create", "register", "again", "look", "edit"}, 3, 1, 0, 0),
   Trial("bot", TRUE, {"create", "register", "delete"}, 3, 0, 1, 0),
   Trial("persona", FALSE, {"create", "register", "look"}, 4, 1, 0, 0),
   Trial("persona", TRUE, {"create", "register"}, 2, 0, 1, 1)}

-----------------------------------------------------------------------------
(* Four statements of one account with room for two: two of one channel    *)
(* with the same expiry, then another channel, then one that outlasts all. *)
Armed(dropped, delays, slow, held) ==
  [drop |-> dropped, delay |-> delays, delaySubmitReply |-> slow, holdDump |-> held]
Submits(times, n, ticks, restarts, resets, kinds) ==
  [submits |-> DOMAIN times, times |-> times, subs |-> n, seconds |-> ticks,
   restarts |-> restarts, resets |-> resets, faults |-> kinds, allowed |-> {"bot"}]

Signers  == [s \in {s1, s2, s3, s4} |-> "bot"]
Channels == s1 :> "c" @@ s2 :> "c" @@ s3 :> "d" @@ s4 :> "e"
Expiries == s1 :> <<2, 1>> @@ s2 :> <<2, 1>> @@ s3 :> <<2, 2>> @@ s4 :> <<3, 0>>
StorePlans ==
  {Submits(s1 :> 1 @@ s2 :> 1 @@ s3 :> 1 @@ s4 :> 1, 1, 3, 0, 0, Armed(0, 0, 0, 0)),
   Submits(s1 :> 2 @@ s2 :> 1 @@ s3 :> 1, 1, 0, 1, 0, Armed(0, 1, 1, 1)),
   Submits(s1 :> 1 @@ s3 :> 1 @@ s4 :> 1, 2, 0, 0, 1, Armed(1, 0, 0, 1)),
   [Submits(s1 :> 1, 1, 0, 0, 0, Armed(0, 0, 0, 0)) EXCEPT !.allowed = {}]}

-----------------------------------------------------------------------------
HostInit ==
  /\ part \in {"store", "vault", "grants", "guard", "names", "node"}
  /\ Init
  /\ Vault!Init /\ (part = "vault" \/ plan.calls.put = 3)
  /\ Grants!Init /\ (part = "grants" \/ chain.quota = 0)
  /\ Guard!Init /\ (part = "guard" \/ drill.kind = "chat")
  /\ Names!Init /\ (part = "names" \/ "delete" \in trial.commands)
  /\ Node!Init /\ (part = "node" \/ nodePlan.seconds = 3)

HostNext ==
  \/ part = "store" /\ Next /\ UNCHANGED <<part, vaultVars, grantVars, guardVars, nameVars, nodeVars>>
  \/ part = "vault" /\ Vault!Next /\ UNCHANGED <<part, storeVars, grantVars, guardVars, nameVars, nodeVars>>
  \/ part = "grants" /\ Grants!Next /\ UNCHANGED <<part, storeVars, vaultVars, guardVars, nameVars, nodeVars>>
  \/ part = "guard" /\ Guard!Next /\ UNCHANGED <<part, storeVars, vaultVars, grantVars, nameVars, nodeVars>>
  \/ part = "names" /\ Names!Next /\ UNCHANGED <<part, storeVars, vaultVars, grantVars, guardVars, nodeVars>>
  \/ part = "node" /\ Node!Next /\ UNCHANGED <<part, storeVars, vaultVars, grantVars, guardVars, nameVars>>

(* The fairness of the state file.                                         *)
HostSpec ==
  /\ HostInit /\ [][HostNext]_hostVars
  /\ WF_storeVars(part = "store" /\ TimerFires) /\ WF_storeVars(part = "store" /\ Write)

-----------------------------------------------------------------------------
(* The type invariants of the modules that StateStore does not extend.     *)
TypesOK == Vault!TypeOK /\ Grants!TypeOK /\ Guard!TypeOK /\ Names!TypeOK /\ Node!TypeOK

=============================================================================
