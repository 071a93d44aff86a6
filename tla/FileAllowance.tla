--------------------------- MODULE FileAllowance ---------------------------
(***************************************************************************)
(* The upload allowance of a bot on a test network, as pca grants it       *)
(* (src/bot-core/lib/testnet-file-allowance.mjs, and the commands of       *)
(* src/bot-core/cli.mjs: create, register and deploy call the same         *)
(* provisionTestnetFileAllowance as "pca storage grant").                  *)
(*                                                                         *)
(* Each invocation of pca is a process of its own. They share the chain    *)
(* and one file, the marker: it is created before the chain is asked,      *)
(* turns "unresolved" before a transaction is signed, and stays when the   *)
(* outcome is not known, because authorize_account adds to what is there.  *)
(*                                                                         *)
(* Amounts are small numbers and expiry one of three values. Not modelled: *)
(* keys and addresses (one account), the genesis check (one more way to    *)
(* fail before anything is submitted), the sharing of calls within one     *)
(* process (a process provisions once), what is printed.                   *)
(***************************************************************************)
EXTENDS Naturals, Sequences

CONSTANTS
  Runs,     \* invocations of pca that touch the allowance
  Granted,  \* what authorize_account adds
  Least,    \* the least quota that is sufficient
  MaxAges,  \* how often the authorization gets older
  None

VARIABLES
  run,      \* [at, todo, saw] of each invocation
  marker,   \* the marker file: None or [token, state]; the token is the run's
  tx,       \* the run's transactions: "none", "pool", "landed", "failed", "lost"
  chain,    \* [quota, life]: the account's authorization
  settled,  \* ghost: runs that saw what became of all they submitted
  excused,  \* ghost: runs whose marker an operator cleared
  ages

vars == <<run, marker, tx, chain, settled, excused, ages>>

Ops == {"refresh", "authorize"}
Lives == {"none", "near", "far"}
States == {"none", "pool", "landed", "failed", "lost"}
(* Where an invocation is. "left": it ended and left its marker, or died.  *)
Places == {"new", "read", "mark", "send", "wait", "verify", "recover", "sure", "done", "left"}
Status == [quota : Nat, life : Lives]
Lists == {<<>>, <<"refresh">>, <<"authorize">>, <<"refresh", "authorize">>}

TypeOK ==
  /\ run \in [Runs -> [at : Places, todo : Lists, saw : Status]]
  /\ marker = None \/ marker \in [token : Runs, state : {"checking", "unresolved"}]
  /\ tx \in [Runs -> [Ops -> States]]
  /\ chain \in Status
  /\ settled \subseteq Runs /\ excused \subseteq Runs
  /\ ages \in Nat

Init ==
  /\ run = [r \in Runs |-> [at |-> "new", todo |-> <<>>, saw |-> [quota |-> 0, life |-> "none"]]]
  /\ marker = None
  /\ tx = [r \in Runs |-> [o \in Ops |-> "none"]]
  /\ chain \in {[quota |-> 0, life |-> "none"], [quota |-> Least, life |-> "near"]}
  /\ settled = {} /\ excused = {} /\ ages = 0

-----------------------------------------------------------------------------
(* What a status says.                                                     *)
Sufficient(s) == s.life = "far" /\ s.quota >= Least
Needed(s) ==
  (IF s.life = "near" THEN <<"refresh">> ELSE <<>>) \o
  (IF s.life = "none" \/ s.quota < Least THEN <<"authorize">> ELSE <<>>)

Holds(r) == marker # None /\ marker.token = r
Goes(r, at) == run' = [run EXCEPT ![r].at = at]

(* The finally of a run that does not retain the lock: only its own marker.*)
Released(r) == IF Holds(r) THEN None ELSE marker
Ends(r) == Goes(r, "done") /\ marker' = Released(r)

(* A run that begins while there is a marker ends with a warning.          *)
Grant(r) ==
  /\ run[r].at = "new"
  /\ IF marker = None
     THEN marker' = [token |-> r, state |-> "checking"] /\ Goes(r, "read")
     ELSE Goes(r, "done") /\ UNCHANGED marker
  /\ UNCHANGED <<tx, chain, settled, excused, ages>>

(* The first status, or the failure to get it.                             *)
ReadBefore(r) ==
  /\ run[r].at = "read"
  /\ IF Sufficient(chain)
     THEN Ends(r)
     ELSE /\ run' = [run EXCEPT ![r] = [at |-> "mark", todo |-> Needed(chain), saw |-> chain]]
          /\ UNCHANGED marker
  /\ UNCHANGED <<tx, chain, settled, excused, ages>>

ReadFails(r) ==
  /\ run[r].at = "read" /\ Ends(r)
  /\ UNCHANGED <<tx, chain, settled, excused, ages>>

(* onSubmissionStarting: the marker must still be this run's.              *)
Marked(r) ==
  IF Holds(r)
  THEN marker' = [marker EXCEPT !.state = "unresolved"] /\ Goes(r, "send")
  ELSE Ends(r)

Mark(r) ==
  /\ run[r].at = "mark" /\ Marked(r)
  /\ UNCHANGED <<tx, chain, settled, excused, ages>>

Send(r) ==
  /\ run[r].at = "send" /\ Goes(r, "wait")
  /\ tx' = [tx EXCEPT ![r][Head(run[r].todo)] = "pool"]
  /\ UNCHANGED <<marker, chain, settled, excused, ages>>

(* signAndSubmit resolves with a finalized transaction.                    *)
Finalized(r) ==
  /\ run[r].at = "wait" /\ tx[r][Head(run[r].todo)] = "landed"
  /\ run' = [run EXCEPT ![r].todo = Tail(@),
                        ![r].at = IF Len(run[r].todo) > 1 THEN "mark" ELSE "verify"]
  /\ UNCHANGED <<marker, tx, chain, settled, excused, ages>>

(* result.ok is false: finalized without success.                          *)
Rejected(r) ==
  /\ run[r].at = "wait" /\ tx[r][Head(run[r].todo)] = "failed"
  /\ Ends(r) /\ settled' = settled \cup {r}
  /\ UNCHANGED <<tx, chain, excused, ages>>

(* A timeout, a transport failure or an answer that says neither: the      *)
(* marker is written again, and stays.                                     *)
(* Mutant: the error is treated like any other.                            *)
ReleasedAnyway(r) == Released(r)
Retained(r) == IF Holds(r) THEN [marker EXCEPT !.state = "unresolved"] ELSE marker

OutcomeUnknown(r) ==
  /\ run[r].at = "wait" /\ Goes(r, "left") /\ marker' = Retained(r)
  /\ UNCHANGED <<tx, chain, settled, excused, ages>>

(* The read after the transactions. Without it nothing is verified, and    *)
(* the marker stays.                                                       *)
Verified(r) ==
  /\ run[r].at = "verify" /\ Ends(r) /\ settled' = settled \cup {r}
  /\ UNCHANGED <<tx, chain, excused, ages>>

Unverified(r) ==
  /\ run[r].at = "verify" /\ Goes(r, "left")
  /\ UNCHANGED <<marker, tx, chain, settled, excused, ages>>

Dies(r) ==
  /\ run[r].at \in {"read", "mark", "send", "wait", "verify", "recover", "sure"} /\ Goes(r, "left")
  /\ UNCHANGED <<marker, tx, chain, settled, excused, ages>>

(* "pca storage recover", without and with --yes: a status, then the       *)
(* marker is looked at and removed, whosever it is.                        *)
RecoverReads(r) ==
  /\ run[r].at = "new"
  /\ \E at \in {"recover", "sure"} : run' = [run EXCEPT ![r].at = at, ![r].saw = chain]
  /\ UNCHANGED <<marker, tx, chain, settled, excused, ages>>

MayClear(r) == run[r].at = "sure" \/ Sufficient(run[r].saw)

RecoverClears(r) ==
  /\ run[r].at \in {"recover", "sure"} /\ Goes(r, "done")
  /\ IF marker # None /\ MayClear(r)
     THEN marker' = None /\ excused' = excused \cup {marker.token}
     ELSE UNCHANGED <<marker, excused>>
  /\ UNCHANGED <<tx, chain, settled, ages>>

-----------------------------------------------------------------------------
(* The chain: what a transaction does when it is included, now or after    *)
(* its sender is gone; a transaction may fail or never be included.        *)
After(op) ==
  IF op = "refresh" THEN [chain EXCEPT !.life = "far"]
  ELSE IF chain.life = "none" THEN [quota |-> Granted, life |-> "far"]
  ELSE [chain EXCEPT !.quota = @ + Granted]

Lands(r, op) ==
  /\ tx[r][op] = "pool" /\ (op = "authorize" \/ chain.life # "none")
  /\ tx' = [tx EXCEPT ![r][op] = "landed"] /\ chain' = After(op)
  /\ UNCHANGED <<run, marker, settled, excused, ages>>

Drops(r, op) ==
  /\ tx[r][op] = "pool"
  /\ \E s \in {"failed", "lost"} : tx' = [tx EXCEPT ![r][op] = s]
  /\ UNCHANGED <<run, marker, chain, settled, excused, ages>>

(* The bot uploads, and blocks go by.                                      *)
Uploads ==
  /\ chain.life # "none" /\ chain.quota > 0
  /\ chain' = [chain EXCEPT !.quota = @ - 1]
  /\ UNCHANGED <<run, marker, tx, settled, excused, ages>>

Ages ==
  /\ chain.life # "none" /\ ages < MaxAges /\ ages' = ages + 1
  /\ chain' = [chain EXCEPT !.life = IF @ = "far" THEN "near" ELSE "none"]
  /\ UNCHANGED <<run, marker, tx, settled, excused>>

-----------------------------------------------------------------------------
Next ==
  \/ \E r \in Runs :
       \/ Grant(r) \/ ReadBefore(r) \/ ReadFails(r) \/ Mark(r) \/ Send(r)
       \/ Finalized(r) \/ Rejected(r) \/ OutcomeUnknown(r) \/ Verified(r) \/ Unverified(r)
       \/ Dies(r) \/ RecoverReads(r) \/ RecoverClears(r)
       \/ \E op \in Ops : Lands(r, op) \/ Drops(r, op)
  \/ Uploads \/ Ages

Spec == Init /\ [][Next]_vars

-----------------------------------------------------------------------------
(* Grants of which nobody knows what became, unless an operator answered   *)
(* for them.                                                               *)
Open == {r \in Runs : tx[r]["authorize"] # "none" /\ r \notin settled \cup excused}

(* No second grant is submitted while the outcome of one is not known,     *)
(* through timeouts, late inclusion, unverified ends, deaths and any       *)
(* number of processes, unless an operator cleared the marker with         *)
(* recover: authorize_account adds, and each would be used up              *)
(* (testnet-file-allowance.mjs:55-57, 188-190; cli.mjs:401-403).           *)
OneOpenGrant == \A r, s \in Open : r = s

=============================================================================
