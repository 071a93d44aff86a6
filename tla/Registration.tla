---------------------------- MODULE Registration ----------------------------
(***************************************************************************)
(* How an identity gets its username: the commands of pca for a bot        *)
(* (src/bot-core/cli.mjs) and the sandbox's daemon for a persona of a real *)
(* network (src/sandbox/lib/registration.mjs, src/sandbox/daemon.mjs),     *)
(* which both claim through src/bot-core/lib/register.mjs. The identity    *)
(* backend takes a claim, an attester puts it on the chain minutes later,  *)
(* and a migration may wipe what is there.                                 *)
(*                                                                         *)
(* Each command of pca is a process with the copy of config.json and       *)
(* secret.json it read when it started, and it saves its copy whole. The   *)
(* requests to the daemon are tasks of one process, which share the        *)
(* persona's record and save it in the step that changes it; copy is then  *)
(* the reg that a task read at its start.                                  *)
(*                                                                         *)
(* A claim is a number: each one that the backend took names a username of *)
(* its own. "minted" is an identity without a username, "claimed" one that *)
(* is not confirmed, "attested" a registered one.                          *)
(*                                                                         *)
(* Not modelled: proofs and signatures; bots of a sandbox network, which   *)
(* are registered at once; a refused number, after which the same claim is *)
(* posted without one; files that are cut off while they are written.      *)
(***************************************************************************)
EXTENDS Naturals, FiniteSets

CONSTANTS
  Clients, \* invocations of pca one after the other, or requests to the daemon
  Trials   \* bounds: [kind, proof, commands, claims, starts, wipes, lost, deaths, ages, vouchers]

VARIABLES
  trial,  \* the bounds of this behaviour; kind is "bot" or "persona"
  record, \* [name, status, needs]: config.json, or the persona's record
  secret, \* the session that is saved: "none", "fresh" or "old"
  client, \* [at, does, copy, session, answer, number]
  filed,  \* claims the backend took that are not on the chain
  people, \* the claim that the chain holds for the account, or 0
  count,  \* claims taken
  blame,  \* ghost: what excuses a second claim
  left    \* what may still happen

vars == <<trial, record, secret, client, filed, people, count, blame, left>>
file == <<record, secret, blame>>
world == <<trial, filed, people, count>>

IsBot == trial.kind = "bot"
Mine(p) == IF IsBot THEN client[p].copy ELSE record
Bearer(p) == IF IsBot THEN client[p].session ELSE secret

NoName == [name |-> 0, status |-> "none", needs |-> FALSE]
Idle == [at |-> "off", does |-> "wait", copy |-> NoName, session |-> "none", answer |-> FALSE, number |-> 0]

Goes(p, at) == client' = [client EXCEPT ![p].at = at]
Leaves(p) == client' = [client EXCEPT ![p] = Idle]
Spends(x) == left[x] > 0 /\ left' = [left EXCEPT ![x] = @ - 1]
Blames(kind, holds) == blame' = IF holds THEN blame \cup {kind} ELSE blame

(* A bot that was deleted has no directory any more: the command fails.    *)
Exists == record.status # "gone"

(* The writer's copy, whole: a change it has not seen is overwritten.      *)
Writes(p, r) ==
  /\ Exists /\ record' = r
  /\ Blames("overwritten", Mine(p).name # record.name)

Init ==
  /\ trial \in Trials
  /\ record = NoName /\ secret = "none"
  /\ client = [p \in Clients |-> Idle]
  /\ filed = {} /\ people = 0 /\ count = 0 /\ blame = {}
  /\ left = [starts |-> trial.starts, wipes |-> trial.wipes, lost |-> trial.lost, deaths |-> trial.deaths,
             ages |-> trial.ages, vouchers |-> trial.vouchers]

-----------------------------------------------------------------------------
(* The commands.                                                           *)

Enters(p, at, does, r) ==
  client' = [client EXCEPT ![p] =
               [at |-> at, does |-> does, copy |-> r, session |-> secret, answer |-> FALSE, number |-> 0]]

(* pca create, and a persona's mint: the identity is saved before anything *)
(* is claimed.                                                             *)
Creates(p) ==
  /\ record.status = "none" /\ record' = [record EXCEPT !.status = "minted"]
  /\ Enters(p, "bearer", "register", record') \/ (IsBot /\ UNCHANGED client)
  /\ UNCHANGED <<secret, blame>>

(* Resumes where the record says it stands.                                *)
Registers(p) ==
  /\ \/ record.status = "minted" /\ Enters(p, "bearer", "register", record) /\ UNCHANGED secret
     \/ record.needs /\ Enters(p, "bearer", "again", record) /\ UNCHANGED secret
     \/ /\ record.status = "claimed" /\ Enters(p, "ask", "wait", record)
        /\ secret' = IF IsBot THEN "none" ELSE secret
  /\ UNCHANGED <<record, blame>>

(* pca register --again                                                    *)
RegistersAgain(p) ==
  /\ IsBot /\ record.name # 0 /\ Exists /\ Enters(p, "bearer", "again", record)
  /\ UNCHANGED file

(* A command that saves its copy later on: pca model, project, trust,      *)
(* deploy.                                                                 *)
Configures(p) ==
  /\ IsBot /\ record.status \notin {"none", "gone"} /\ Enters(p, "edit", "edit", record)
  /\ UNCHANGED file

(* pca info and status; the daemon's start, pcs user list.                 *)
Looks(p) ==
  /\ record.name # 0 /\ Exists
  /\ Enters(p, "ask", IF IsBot THEN "status" ELSE "verify", record)
  /\ UNCHANGED file

Deletes(p) ==
  /\ IsBot /\ record.status \notin {"none", "gone"} /\ record' = [record EXCEPT !.status = "gone"]
  /\ UNCHANGED <<client, secret, blame>>

Starts(p) ==
  /\ client[p].at = "off" /\ Spends("starts") /\ UNCHANGED world
  /\ \/ "create" \in trial.commands /\ Creates(p)
     \/ "register" \in trial.commands /\ Registers(p)
     \/ "again" \in trial.commands /\ RegistersAgain(p)
     \/ "edit" \in trial.commands /\ Configures(p)
     \/ "look" \in trial.commands /\ Looks(p)
     \/ "delete" \in trial.commands /\ Deletes(p)

-----------------------------------------------------------------------------
(* acquireIdentitySession: the bearer a claim carries, where the network   *)
(* wants one.                                                              *)

(* With it, a repeated registration reads the chain first.                 *)
Onward(p) == IF client[p].does = "again" THEN "ask" ELSE "claim"

(* Saved before it is used, so that a claim that fails has it again.       *)
Keeps(p) ==
  /\ Exists /\ secret' = "fresh"
  /\ client' = [client EXCEPT ![p].at = Onward(p), ![p].session = "fresh"]

HasBearer(p) ==
  /\ client[p].at = "bearer"
  /\ \/ trial.proof /\ Bearer(p) = "fresh"
     \/ ~trial.proof
  /\ Goes(p, Onward(p))
  /\ UNCHANGED <<file, world, left>>

Refreshes(p) ==
  /\ client[p].at = "bearer" /\ trial.proof /\ Bearer(p) = "old" /\ Keeps(p)
  /\ UNCHANGED <<record, blame, world, left>>

(* No session, or the refresh was refused.                                 *)
MustEnroll(p) ==
  /\ client[p].at = "bearer" /\ trial.proof /\ Bearer(p) # "fresh" /\ Goes(p, "enroll")
  /\ UNCHANGED <<file, world, left>>

Enrolls(p) ==
  /\ client[p].at = "enroll" /\ Keeps(p)
  /\ UNCHANGED <<record, blame, world, left>>

(* The voucher is presented only after the proof was refused, and is spent *)
(* by it.                                                                  *)
ProofRefused(p) ==
  /\ client[p].at = "enroll" /\ left.vouchers > 0 /\ Goes(p, "redeem")
  /\ UNCHANGED <<file, world, left>>

Redeems(p) ==
  /\ client[p].at = "redeem" /\ Spends("vouchers")
  /\ \/ Keeps(p)
     \/ Leaves(p) /\ UNCHANGED secret
  /\ UNCHANGED <<record, blame, world>>

-----------------------------------------------------------------------------
(* Reads of the chain, and what is done with their answers. An account is  *)
(* looked up by its key; a persona is verified by its username too.        *)

Asks(p) ==
  /\ client[p].at = "ask"
  /\ client' = [client EXCEPT ![p].at = "told",
                              ![p].answer = people # 0 /\ (client[p].does = "verify" => people = record.name)]
  /\ UNCHANGED <<file, world, left>>

Told(p, does) == client[p].at = "told" /\ client[p].does = does

(* It believes an answer that a migration has made untrue meanwhile.       *)
Attested(r) == [r EXCEPT !.status = "attested"]
Confirms(p, r) ==
  /\ Exists /\ record' = r
  /\ blame' = blame \cup (IF Mine(p).name # record.name THEN {"overwritten"} ELSE {})
                    \cup (IF ~IsBot /\ people = 0 THEN {"outdated"} ELSE {})

(* reregisterIdentity. A persona then waits for what it has just read.     *)
WaitsOn(p) == client' = [client EXCEPT ![p].at = "ask", ![p].does = "wait"]
ReadFirst(p) ==
  /\ Told(p, "again")
  /\ \/ client[p].answer /\ Confirms(p, [Attested(Mine(p)) EXCEPT !.needs = FALSE])
        /\ IF IsBot THEN Leaves(p) /\ UNCHANGED secret ELSE WaitsOn(p) /\ secret' = "none"
     \/ ~client[p].answer /\ Goes(p, "claim") /\ UNCHANGED file
  /\ UNCHANGED <<world, left>>

(* waitForAttestation                                                      *)
Waits(p) ==
  /\ Told(p, "wait")
  /\ \/ client[p].answer /\ Confirms(p, Attested(Mine(p))) /\ Leaves(p) /\ UNCHANGED secret
     \/ ~client[p].answer /\ (Goes(p, "ask") \/ Leaves(p)) /\ UNCHANGED file
  /\ UNCHANGED <<world, left>>

(* chainRegistration: "gone" is printed and not saved.                     *)
ShowsStatus(p) ==
  /\ Told(p, "status")
  /\ IF client[p].answer /\ client[p].copy.status # "attested"
     THEN Confirms(p, Attested(client[p].copy)) /\ Leaves(p) /\ UNCHANGED secret
     ELSE Leaves(p) /\ UNCHANGED file
  /\ UNCHANGED <<world, left>>

Kept(r) == [r EXCEPT !.needs = FALSE, !.status = IF @ = "claimed" THEN "attested" ELSE @]

(* Mutant: whatever the chain does not hold is marked. *)
MarksAny(r, onChain) == IF onChain THEN Kept(r) ELSE [r EXCEPT !.needs = TRUE]

(* Only what the chain once attested can be forgotten; a claim it does not *)
(* hold yet is pending.                                                    *)
ApplyCheck(r, onChain) == IF onChain THEN Kept(r) ELSE [r EXCEPT !.needs = @ \/ r.status = "attested"]

Verifies(p) ==
  /\ Told(p, "verify") /\ Leaves(p)
  /\ record' = ApplyCheck(record, client[p].answer)
  /\ Blames("outdated", client[p].answer /\ people = 0)
  /\ UNCHANGED <<secret, world, left>>

-----------------------------------------------------------------------------
(* registerIdentity. The claim is decided on the copy; another may have    *)
(* been posted since, and --again asks although one is pending.            *)
Raced(p) == (\E q \in Clients : client[q].at = "posted") \/ client[p].copy.name # record.name
Insists(p) == IsBot /\ client[p].does = "again" /\ client[p].copy.status = "claimed"

Posts(p) ==
  /\ client[p].at = "claim" /\ count < trial.claims
  /\ count' = count + 1 /\ filed' = filed \cup {count'}
  /\ client' = [client EXCEPT ![p].at = "posted", ![p].number = count']
  /\ blame' = blame \cup (IF Raced(p) THEN {"raced"} ELSE {}) \cup (IF Insists(p) THEN {"insisted"} ELSE {})
  /\ UNCHANGED <<trial, record, secret, people, left>>

(* The username is saved, and then the session is dropped.                 *)
Claimed(p) ==
  /\ client[p].at = "posted"
  /\ LET r == [name |-> client[p].number, status |-> "claimed", needs |-> FALSE] IN
     /\ Writes(p, r)
     /\ client' = [client EXCEPT ![p] = [@ EXCEPT !.at = "ask", !.does = "wait", !.copy = r, !.number = 0]]
  /\ secret' = IF IsBot /\ client[p].session = "none" THEN secret ELSE "none"
  /\ UNCHANGED <<world, left>>

(* The backend took the claim, and nobody learns it.                       *)
LosesAnswer(p) ==
  /\ client[p].at = "posted" /\ Leaves(p) /\ Blames("unanswered", TRUE)
  /\ IF Exists THEN Spends("lost") ELSE UNCHANGED left
  /\ UNCHANGED <<record, secret, world>>

-----------------------------------------------------------------------------
Saves(p) ==
  /\ client[p].at = "edit" /\ Writes(p, client[p].copy) /\ Leaves(p)
  /\ UNCHANGED <<secret, world, left>>

(* A refusal, a network that cannot be reached, or a deleted directory.    *)
Fails(p) ==
  /\ client[p].at \in {"bearer", "enroll", "redeem", "ask", "claim"} \/ (~Exists /\ client[p].at \in {"told", "edit"})
  /\ Leaves(p)
  /\ UNCHANGED <<file, world, left>>

(* A command of pca ends by itself; the daemon takes all its tasks along.  *)
Dies(p) ==
  LET dead == IF IsBot THEN {p} ELSE Clients IN
  /\ client[p].at # "off" /\ Spends("deaths")
  /\ client' = [q \in Clients |-> IF q \in dead THEN Idle ELSE client[q]]
  /\ Blames("unanswered", \E q \in dead : client[q].at = "posted")
  /\ UNCHANGED <<record, secret, world>>

-----------------------------------------------------------------------------
(* An account holds one username on the chain.                             *)
Lands ==
  \E n \in filed :
    /\ filed' = filed \ {n} /\ people' = IF people = 0 THEN n ELSE people
    /\ UNCHANGED <<trial, record, secret, client, count, blame, left>>

Wipes ==
  /\ people # 0 /\ Spends("wipes") /\ people' = 0
  /\ UNCHANGED <<trial, file, client, filed, count>>

Ages ==
  /\ secret = "fresh" /\ Spends("ages") /\ secret' = "old"
  /\ UNCHANGED <<record, blame, client, world>>

Enrolling(p) == HasBearer(p) \/ Refreshes(p) \/ MustEnroll(p) \/ Enrolls(p) \/ ProofRefused(p) \/ Redeems(p)
Reading(p) == Asks(p) \/ ReadFirst(p) \/ Waits(p) \/ ShowsStatus(p) \/ Verifies(p)
Claiming(p) == Posts(p) \/ Claimed(p) \/ LosesAnswer(p)

Next ==
  \/ \E p \in Clients : Starts(p) \/ Enrolling(p) \/ Reading(p) \/ Claiming(p) \/ Saves(p) \/ Fails(p) \/ Dies(p)
  \/ Lands \/ Wipes \/ Ages

Spec == Init /\ [][Next]_vars

-----------------------------------------------------------------------------
Status == {"none", "minted", "claimed", "attested", "gone"}
Record == [name : Nat, status : Status, needs : BOOLEAN]
Client == [at : {"off", "bearer", "enroll", "redeem", "ask", "told", "claim", "posted", "edit"},
           does : {"register", "again", "wait", "status", "verify", "edit"},
           copy : Record, session : {"none", "fresh", "old"}, answer : BOOLEAN, number : Nat]

TypeOK ==
  /\ record \in Record /\ secret \in {"none", "fresh", "old"}
  /\ client \in [Clients -> Client]
  /\ count \in Nat /\ filed \subseteq 1 .. count /\ people \in 0 .. count
  /\ blame \subseteq {"overwritten", "outdated", "raced", "insisted", "unanswered"}

(* An identity has one claim at a time: none is taken while an earlier one *)
(* is queued or on the chain, however often a registration is resumed,     *)
(* verified, repeated after a migration and restarted (cli.mjs:1176-1180,  *)
(* registration.mjs:113-121). What excuses a second one: two clients at    *)
(* once; a copy of the file that is older than the claim, saved over it;   *)
(* an answer that was lost, or died with its client; an answer of the      *)
(* chain from before a migration, used after it; and an operator who asks  *)
(* for another while one is pending.                                       *)
Open == filed \cup ({people} \ {0})
ClaimedOnce == blame # {} \/ Cardinality(Open) <= 1

=============================================================================
