---------------------------- MODULE Host_proofs ----------------------------
(***************************************************************************)
(* What components around the bot keep for every value of their constants: *)
(* those that put something on the host's disk before they act on it, the  *)
(* state file (StateStore), the marker of an allowance (FileAllowance) and *)
(* the files of the vault (FileVault); the analysis of media (T3amsMedia); *)
(* the statement store of the sandbox (SandboxStore); and the two that     *)
(* must exclude one another through a file, the processes that would serve *)
(* an identity (InstanceGuard) and the commands that claim its username    *)
(* (Registration). They share no variable; each has its own invariant.     *)
(*                                                                         *)
(* That an ok flush is true does not follow from the ok itself: it needs   *)
(* that whoever waits is covered by the snapshot that is pending or being  *)
(* written, that this snapshot is the newest of the process, and that what *)
(* was renamed is on the disk.                                             *)
(***************************************************************************)
EXTENDS Host, T3amsMedia, FiniteSetTheorems, SequenceTheorems, TLAPS

(* The snapshot the running drain ends with.                               *)
Newest == IF pending # 0 THEN pending ELSE data

NewestInv ==
  /\ pending # 0 => latest = pending /\ disk < pending
  /\ pending = 0 /\ ~Idle => latest = data
  /\ pending = 0 /\ Idle => latest = disk

WriteInv ==
  /\ stage \in {"opening", "open"} => disk < data
  /\ stage = "renamed" => disk = data

WaitInv == \A c \in Callers : asked[c].state = "wait" => ~Idle /\ asked[c].ticket <= Newest

IInv == TypeOK /\ NewestInv /\ WriteInv /\ WaitInv /\ FlushedIsDurable

-----------------------------------------------------------------------------
LEMMA InitIInv == Init => IInv
  <1> SUFFICES ASSUME Init PROVE IInv OBVIOUS
  <1>1. faults \in [fails : 0 .. MaxFails, crashes : 0 .. MaxCrashes]
        BY BoundsAssumption DEF Init
  <1>2. asked \in [Callers -> [state : {"idle", "wait", "ok", "failed"}, ticket : Nat]]
        BY DEF Init, Nobody
  <1>3. \A c \in Callers : asked[c].state = "idle" /\ asked[c].ticket = 0
        BY DEF Init, Nobody
  <1>4. TypeOK
    <2>1. latest \in Nat /\ pending \in 0 .. latest /\ data \in 0 .. latest /\ disk \in 0 .. latest
          BY DEF Init
    <2>2. /\ stage \in {"none", "opening", "open", "renamed"} /\ (Idle <=> data = 0)
          /\ (pending # 0 => data < pending) /\ timer \in BOOLEAN /\ seq \in Nat
          BY DEF Init, Idle
    <2>3. stale \subseteq Nat BY DEF Init
    <2>4. latest = 0 BY DEF Init
    <2>5. \A c \in Callers : asked[c].ticket <= latest
      <3> SUFFICES ASSUME NEW c \in Callers PROVE asked[c].ticket <= latest OBVIOUS
      <3>1. asked[c].ticket = 0 BY <1>3
      <3> QED BY <3>1, <2>4
    <2> QED BY <1>1, <1>2, <2>1, <2>2, <2>3, <2>5 DEF TypeOK
  <1>5. NewestInv /\ WriteInv BY DEF Init, NewestInv, WriteInv, Idle
  <1> QED BY <1>3, <1>4, <1>5 DEF IInv, WaitInv, FlushedIsDurable

(* The parts of the invariant that a step outside the write can disturb.   *)
LEMMA SaveKeepsIInv == ASSUME IInv, Save PROVE IInv'
  BY DEF Save, IInv, TypeOK, NewestInv, WriteInv, WaitInv, FlushedIsDurable, Newest, Idle

LEMMA SaveAndFlushKeepsIInv == ASSUME IInv, NEW c \in Callers, SaveAndFlush(c) PROVE IInv'
  <1> USE DEF IInv, Idle, Newest
  <1>1. /\ latest' = latest + 1
        /\ asked' = [asked EXCEPT ![c] = [state |-> "wait", ticket |-> latest']]
        /\ asked[c].state = "idle"
        /\ disk' = disk /\ seq' = seq /\ stale' = stale /\ faults' = faults
        /\ timer' = FALSE
        BY DEF SaveAndFlush
  <1>2. \/ /\ stage # "none" /\ pending' = latest + 1 /\ stage' = stage /\ data' = data
        \/ /\ stage = "none" /\ pending' = 0 /\ stage' = "opening" /\ data' = latest + 1
        BY DEF SaveAndFlush, Begin
  <1>3. TypeOK'
    <2>1. /\ asked' \in [Callers -> [state : {"idle", "wait", "ok", "failed"}, ticket : Nat]]
          /\ \A d \in Callers : asked'[d].ticket <= latest'
          BY <1>1 DEF TypeOK
    <2>2. pending' \in 0 .. latest' /\ data' \in 0 .. latest' /\ disk' \in 0 .. latest'
          BY <1>1, <1>2 DEF TypeOK
    <2>3. (stage' = "none" <=> data' = 0) /\ (pending' # 0 => data' < pending')
          BY <1>1, <1>2 DEF TypeOK
    <2> QED BY <1>1, <1>2, <2>1, <2>2, <2>3 DEF TypeOK
  <1>4. NewestInv' BY <1>1, <1>2 DEF TypeOK, NewestInv
  <1>5. WriteInv' BY <1>1, <1>2 DEF TypeOK, WriteInv
  <1>6. WaitInv' BY <1>1, <1>2 DEF TypeOK, NewestInv, WaitInv
  <1>7. FlushedIsDurable' BY <1>1 DEF TypeOK, FlushedIsDurable
  <1> QED BY <1>3, <1>4, <1>5, <1>6, <1>7

LEMMA FlushKeepsIInv == ASSUME IInv, NEW c \in Callers, Flush(c) PROVE IInv'
  <1> USE DEF IInv, Idle, Newest
  <1>1. /\ latest' = latest /\ disk' = disk /\ seq' = seq /\ stale' = stale /\ faults' = faults
        /\ timer' = FALSE
        BY DEF Flush
  <1>2. \E s \in {"wait", "ok"} :
          /\ asked' = [asked EXCEPT ![c] = [state |-> s, ticket |-> latest]]
          /\ s = "ok" => stage = "none" /\ pending = 0
          /\ s = "wait" => stage' # "none"
        BY DEF Flush, Begin
  <1>3. \/ stage' = stage /\ pending' = pending /\ data' = data
        \/ stage = "none" /\ pending # 0 /\ stage' = "opening" /\ data' = pending /\ pending' = 0
        BY DEF Flush, Begin
  <1>4. TypeOK'
    <2>1. /\ asked' \in [Callers -> [state : {"idle", "wait", "ok", "failed"}, ticket : Nat]]
          /\ \A d \in Callers : asked'[d].ticket <= latest'
          BY <1>1, <1>2 DEF TypeOK
    <2> QED BY <1>1, <1>3, <2>1 DEF TypeOK, NewestInv
  <1>5. NewestInv' BY <1>1, <1>3 DEF TypeOK, NewestInv
  <1>6. WriteInv' BY <1>1, <1>3 DEF TypeOK, NewestInv, WriteInv
  <1>7. WaitInv' BY <1>1, <1>2, <1>3 DEF TypeOK, NewestInv, WaitInv
  <1>8. FlushedIsDurable' BY <1>1, <1>2 DEF TypeOK, NewestInv, FlushedIsDurable
  <1> QED BY <1>4, <1>5, <1>6, <1>7, <1>8

LEMMA TimerKeepsIInv == ASSUME IInv, TimerFires PROVE IInv'
  BY DEF TimerFires, Begin, IInv, TypeOK, NewestInv, WriteInv, WaitInv, FlushedIsDurable, Newest,
     Idle

LEMMA LeavesKeepsIInv == ASSUME IInv, NEW c \in Callers, Leaves(c) PROVE IInv'
  BY DEF Leaves, IInv, TypeOK, NewestInv, WriteInv, WaitInv, FlushedIsDurable, Newest, Idle, Nobody

-----------------------------------------------------------------------------
(* The steps of the write.                                                 *)

LEMMA OpensKeepsIInv == ASSUME IInv, Opens PROVE IInv'
  BY DEF Opens, IInv, TypeOK, NewestInv, WriteInv, WaitInv, FlushedIsDurable, Newest, Idle

LEMMA RenamesKeepsIInv == ASSUME IInv, Renames PROVE IInv'
  BY DEF Renames, IInv, TypeOK, NewestInv, WriteInv, WaitInv, FlushedIsDurable, Newest, Idle

(* Telling those who wait changes nobody's ticket.                         *)
LEMMA ToldAsked ==
  ASSUME TypeOK, NEW r \in {"ok", "failed"}, Told(r)
  PROVE  /\ asked' \in [Callers -> [state : {"idle", "wait", "ok", "failed"}, ticket : Nat]]
         /\ \A c \in Callers :
              /\ asked'[c].ticket = asked[c].ticket
              /\ asked'[c].state = IF asked[c].state = "wait" THEN r ELSE asked[c].state
  BY DEF TypeOK, Told

LEMMA ReturnsKeepsIInv == ASSUME IInv, Returns PROVE IInv'
  <1> USE DEF IInv, Idle, Newest
  <1>1. /\ stage = "renamed"
        /\ latest' = latest /\ timer' = timer /\ seq' = seq /\ stale' = stale /\ disk' = disk
        /\ faults' = faults
        BY DEF Returns
  <1>2. CASE pending # 0
    <2>1. stage' = "opening" /\ data' = pending /\ pending' = 0 /\ asked' = asked
          BY <1>2 DEF Returns, Begin
    <2> QED BY <1>1, <1>2, <2>1 DEF TypeOK, NewestInv, WriteInv, WaitInv, FlushedIsDurable
  <1>3. CASE pending = 0
    <2>1. stage' = "none" /\ data' = 0 /\ pending' = 0 /\ Told("ok") BY <1>3 DEF Returns
    <2>2. TypeOK' BY <1>1, <2>1, ToldAsked DEF TypeOK
    <2>3. NewestInv' /\ WriteInv'
          BY <1>1, <1>3, <2>1 DEF TypeOK, NewestInv, WriteInv
    <2>4. WaitInv' BY <2>1, ToldAsked DEF WaitInv
    <2>5. FlushedIsDurable'
          BY <1>1, <1>3, <2>1, ToldAsked DEF TypeOK, WaitInv, WriteInv, FlushedIsDurable
    <2> QED BY <2>2, <2>3, <2>4, <2>5
  <1> QED BY <1>2, <1>3

LEMMA GivenUpKeepsIInv ==
  ASSUME IInv, GivenUp, stage \in {"opening", "open"},
         latest' = latest, disk' = disk, seq' \in Nat, stale' \subseteq Nat,
         faults' \in [fails : 0 .. MaxFails, crashes : 0 .. MaxCrashes]
  PROVE  IInv'
  <1> USE DEF IInv, Idle, Newest
  <1>1. /\ stage' = "none" /\ data' = 0 /\ timer' = TRUE /\ Told("failed")
        /\ pending' = IF pending = 0 THEN data ELSE pending
        BY DEF GivenUp
  <1>2. TypeOK' BY <1>1, ToldAsked DEF TypeOK
  <1>3. NewestInv' BY <1>1 DEF TypeOK, NewestInv, WriteInv
  <1>4. WriteInv' BY <1>1 DEF WriteInv
  <1>5. WaitInv' BY <1>1, ToldAsked DEF WaitInv
  <1>6. FlushedIsDurable' BY <1>1, ToldAsked DEF FlushedIsDurable
  <1> QED BY <1>2, <1>3, <1>4, <1>5, <1>6

LEMMA FailsKeepsIInv == ASSUME IInv, Fails PROVE IInv'
  <1>1. faults' \in [fails : 0 .. MaxFails, crashes : 0 .. MaxCrashes]
        BY BoundsAssumption DEF Fails, IInv, TypeOK
  <1> QED BY <1>1, GivenUpKeepsIInv DEF Fails, IInv, TypeOK

LEMMA CollidesKeepsIInv == ASSUME IInv, Collides PROVE IInv'
  BY GivenUpKeepsIInv DEF Collides, IInv, TypeOK

LEMMA CrashKeepsIInv == ASSUME IInv, Crash PROVE IInv'
  <1>1. /\ latest' = disk /\ pending' = 0 /\ stage' = "none" /\ data' = 0 /\ timer' = FALSE
        /\ seq' = 0 /\ disk' = disk
        /\ asked' = [c \in Callers |-> Nobody]
        BY DEF Crash
  <1>2. faults' \in [fails : 0 .. MaxFails, crashes : 0 .. MaxCrashes]
        BY BoundsAssumption DEF Crash, IInv, TypeOK
  <1>3. stale' \subseteq Nat BY DEF Crash, IInv, TypeOK
  <1>4. /\ asked' \in [Callers -> [state : {"idle", "wait", "ok", "failed"}, ticket : Nat]]
        /\ \A c \in Callers : asked'[c].state = "idle" /\ asked'[c].ticket <= latest'
        BY <1>1 DEF Nobody, IInv, TypeOK
  <1>5. TypeOK'
    <2>1. /\ latest' \in Nat /\ pending' \in 0 .. latest' /\ data' \in 0 .. latest'
          /\ disk' \in 0 .. latest'
          BY <1>1 DEF IInv, TypeOK
    <2> QED BY <1>1, <1>2, <1>3, <1>4, <2>1 DEF TypeOK, Idle
  <1>6. NewestInv' /\ WriteInv' BY <1>1 DEF NewestInv, WriteInv, Idle
  <1> QED BY <1>4, <1>5, <1>6 DEF IInv, WaitInv, FlushedIsDurable

LEMMA NextKeepsIInv == IInv /\ [Next]_vars => IInv'
  <1> SUFFICES ASSUME IInv, [Next]_vars PROVE IInv' OBVIOUS
  <1>1. CASE Save BY <1>1, SaveKeepsIInv
  <1>2. CASE TimerFires BY <1>2, TimerKeepsIInv
  <1>3. CASE Opens BY <1>3, OpensKeepsIInv
  <1>4. CASE Renames BY <1>4, RenamesKeepsIInv
  <1>5. CASE Returns BY <1>5, ReturnsKeepsIInv
  <1>6. CASE Fails BY <1>6, FailsKeepsIInv
  <1>7. CASE Collides BY <1>7, CollidesKeepsIInv
  <1>8. CASE Crash BY <1>8, CrashKeepsIInv
  <1>9. CASE \E c \in Callers : SaveAndFlush(c) \/ Flush(c) \/ Leaves(c)
        BY <1>9, SaveAndFlushKeepsIInv, FlushKeepsIInv, LeavesKeepsIInv
  <1>10. CASE UNCHANGED vars
        BY <1>10 DEF vars, IInv, TypeOK, NewestInv, WriteInv, WaitInv, FlushedIsDurable, Newest, Idle
  <1> QED BY <1>1, <1>2, <1>3, <1>4, <1>5, <1>6, <1>7, <1>8, <1>9, <1>10 DEF Next

LEMMA Inductive == Spec => []IInv
  <1>1. Init /\ [][Next]_vars => []IInv BY InitIInv, NextKeepsIInv, PTL
  <1> QED BY <1>1, PTL DEF Spec

-----------------------------------------------------------------------------
(***************************************************************************)
(* TypeOK, with the drain never holding a snapshot that is not older than  *)
(* the pending one, is an invariant (session-store.mjs 10-96).             *)
(***************************************************************************)
THEOREM StoreTypeCorrect == Spec => []TypeOK
  BY Inductive, PTL DEF IInv

(***************************************************************************)
(* A flush that resolved true is true: everything its caller asked for is  *)
(* in the state file (session-store.mjs 48-80), for any number of callers  *)
(* that share drains, failed writes and crashes.                           *)
(***************************************************************************)
THEOREM StoreDurable == Spec => []FlushedIsDurable
  BY Inductive, PTL DEF IInv

-----------------------------------------------------------------------------
(* Every step of the store is a step of DurableSnapshot, or none.          *)
LEMMA ToldRefines ==
  ASSUME IInv, NEW r \in {"ok", "failed"}, Told(r), latest' = latest, disk' = disk,
         r = "ok" => \A c \in Callers : asked[c].state = "wait" => asked[c].ticket <= disk
  PROVE  Snapshots!Next
  <1> DEFINE S == {c \in Callers : asked[c].state = "wait"}
  <1>1. asked' = [c \in Callers |-> IF c \in S THEN [asked[c] EXCEPT !.state = r] ELSE asked[c]]
        BY DEF Told
  <1>2. S \in SUBSET {c \in Callers : asked[c].state = "wait"} OBVIOUS
  <1>3. r = "ok" => \A c \in S : asked[c].ticket <= disk OBVIOUS
  <1> HIDE DEF S
  <1> QED BY <1>1, <1>2, <1>3 DEF Snapshots!Next, Snapshots!Tell

LEMMA NextRefines == IInv /\ [Next]_vars => [Snapshots!Next]_(Snapshots!vars)
  <1> SUFFICES ASSUME IInv, [Next]_vars PROVE Snapshots!Next \/ UNCHANGED Snapshots!vars
      OBVIOUS
  <1> USE DEF Snapshots!vars
  <1>1. CASE Save BY <1>1 DEF Save, Snapshots!Next, Snapshots!Save
  <1>2. CASE TimerFires BY <1>2 DEF TimerFires
  <1>3. CASE Opens BY <1>3 DEF Opens
  <1>4. CASE Renames
        BY <1>4 DEF Renames, IInv, TypeOK, WriteInv, Snapshots!Next, Snapshots!Persist
  <1>5. CASE Returns
    <2>1. CASE pending # 0 BY <1>5, <2>1 DEF Returns
    <2>2. CASE pending = 0
      <3>1. \A c \in Callers : asked[c].state = "wait" => asked[c].ticket <= disk
            BY <1>5, <2>2 DEF Returns, IInv, WaitInv, WriteInv, Newest
      <3> QED BY <1>5, <2>2, <3>1, ToldRefines DEF Returns
    <2> QED BY <2>1, <2>2
  <1>6. CASE Fails BY <1>6, ToldRefines DEF Fails, GivenUp
  <1>7. CASE Collides BY <1>7, ToldRefines DEF Collides, GivenUp
  <1>8. CASE Crash
        BY <1>8 DEF Crash, Snapshots!Next, Snapshots!Restart, Nobody, Snapshots!Nobody
  <1>9. ASSUME NEW c \in Callers, SaveAndFlush(c) PROVE Snapshots!Next
        BY <1>9 DEF SaveAndFlush, IInv, TypeOK, Snapshots!Next, Snapshots!Ask
  <1>10. ASSUME NEW c \in Callers, Flush(c) PROVE Snapshots!Next
    <2>1. \E s \in {"wait", "ok"} :
            /\ s = "ok" => latest' <= disk
            /\ asked' = [asked EXCEPT ![c] = [state |-> s, ticket |-> latest']]
          BY <1>10 DEF Flush, IInv, TypeOK, NewestInv
    <2> QED BY <1>10, <2>1 DEF Flush, Snapshots!Next, Snapshots!Ask
  <1>11. ASSUME NEW c \in Callers, Leaves(c) PROVE Snapshots!Next
        BY <1>11 DEF Leaves, Snapshots!Next, Snapshots!Leave, Nobody, Snapshots!Nobody
  <1>12. CASE UNCHANGED vars BY <1>12 DEF vars
  <1> QED BY <1>1, <1>2, <1>3, <1>4, <1>5, <1>6, <1>7, <1>8, <1>9, <1>10, <1>11, <1>12 DEF Next

(***************************************************************************)
(* The store implements DurableSnapshot: the state file only moves to      *)
(* newer snapshots of the process, and every outcome a caller of flush is  *)
(* told is one the abstract register allows (session-store.mjs 10-96).     *)
(***************************************************************************)
THEOREM StoreKeepsSnapshots == Spec => KeepsSnapshots
  <1>1. Init => Snapshots!Init BY DEF Init, Snapshots!Init, Nobody, Snapshots!Nobody
  <1>2. IInv /\ [Next]_vars => [Snapshots!Next]_(Snapshots!vars) BY NextRefines
  <1> QED BY <1>1, <1>2, Inductive, PTL DEF Spec, KeepsSnapshots, Snapshots!Spec

-----------------------------------------------------------------------------
(* The allowance: whoever has a grant in doubt is named by the marker.     *)

(* A run that is about to send has the marker, or an operator took it.     *)
SendersInv == \A r \in Runs : run[r].at = "send" => Grants!Holds(r) \/ r \in excused
(* Before it marked its first transaction a run has sent nothing.          *)
FreshInv == \A r \in Runs : run[r].at \in {"new", "read", "recover", "sure"} => tx[r]["authorize"] = "none"
OpenInv == \A r \in Grants!Open : Grants!Holds(r)

(* A run that sends knows what.                                            *)
ListInv == \A r \in Runs : run[r].at \in {"mark", "send", "wait"} => run[r].todo # <<>>

GrantTypes ==
  /\ run \in [Runs -> [at : Grants!Places, todo : Grants!Lists, saw : Grants!Status]]
  /\ marker \in Marker \cup {None}
  /\ tx \in [Runs -> [Grants!Ops -> Grants!States]]
  /\ chain \in Grants!Status
  /\ settled \subseteq Runs /\ excused \subseteq Runs
  /\ ages \in Nat

GrantInv == GrantTypes /\ SendersInv /\ FreshInv /\ OpenInv /\ ListInv

-----------------------------------------------------------------------------
LEMMA NeededLists ==
  ASSUME NEW s \in Grants!Status
  PROVE  /\ Grants!Needed(s) \in Grants!Lists
         /\ ~Grants!Sufficient(s) => Grants!Needed(s) # <<>>
  <1> DEFINE a == IF s.life = "near" THEN <<"refresh">> ELSE <<>>
             b == IF s.life = "none" \/ s.quota < Least THEN <<"authorize">> ELSE <<>>
  <1>1. Grants!Needed(s) = a \o b BY DEF Grants!Needed
  <1>2. a \in {<<>>, <<"refresh">>} /\ b \in {<<>>, <<"authorize">>} OBVIOUS
  <1>3. <<>> \o <<>> = <<>> /\ <<>> \o <<"authorize">> = <<"authorize">> /\ <<"refresh">> \o <<>> = <<"refresh">>
        /\ <<"refresh">> \o <<"authorize">> = <<"refresh", "authorize">>
    <2>1. <<>> \in Seq(Grants!Ops) /\ <<"refresh">> \in Seq(Grants!Ops) /\ <<"authorize">> \in Seq(Grants!Ops)
          /\ <<"refresh", "authorize">> \in Seq(Grants!Ops)
          BY DEF Grants!Ops
    <2>2. <<>> \o <<>> = <<>> /\ <<>> \o <<"authorize">> = <<"authorize">> /\ <<"refresh">> \o <<>> = <<"refresh">>
          BY <2>1, ConcatEmptySeq
    <2> DEFINE c == <<"refresh">> \o <<"authorize">>
    <2>3. c \in Seq(Grants!Ops) /\ Len(c) = 2 /\ c[1] = "refresh" /\ c[2] = "authorize" BY <2>1
    <2> HIDE DEF c
    <2>4. c = <<"refresh", "authorize">>
      <3>1. Len(<<"refresh", "authorize">>) = 2 OBVIOUS
      <3>2. \A i \in 1 .. 2 : c[i] = <<"refresh", "authorize">>[i] BY <2>3
      <3> QED BY <2>1, <2>3, <3>1, <3>2, SeqEqual
    <2> QED BY <2>2, <2>4 DEF c
  <1>4. ~Grants!Sufficient(s) => a # <<>> \/ b # <<>>
        BY GrantAssumption DEF Grants!Sufficient, Grants!Status, Grants!Lives
  <1> HIDE DEF a, b
  <1>5. a \o b \in Grants!Lists BY <1>2, <1>3 DEF Grants!Lists
  <1>6. a # <<>> \/ b # <<>> => a \o b # <<>> BY <1>2, <1>3
  <1> QED BY <1>1, <1>4, <1>5, <1>6

LEMMA GrantsInit == Grants!Init => GrantInv
  BY GrantAssumption DEF Grants!Init, GrantInv, GrantTypes, SendersInv, FreshInv, OpenInv, ListInv,
         Grants!Open, Grants!Places, Grants!Lists, Grants!Status, Grants!Lives, Grants!Ops, Grants!States

(* A step that leaves the transactions alone and takes no marker but its   *)
(* own, or one that an operator answered for.                              *)
LEMMA Unsent ==
  ASSUME GrantInv, UNCHANGED tx, settled' \subseteq Runs, excused' \subseteq Runs,
         settled \subseteq settled', excused \subseteq excused',
         NEW r \in Runs, \A q \in Runs \ {r} : run'[q] = run[q],
         run' \in [Runs -> [at : Grants!Places, todo : Grants!Lists, saw : Grants!Status]],
         marker' \in Marker \cup {None}, chain' \in Grants!Status, ages' \in Nat,
         \A q \in Runs \ {r} : Grants!Holds(q) => Grants!Holds(q)' \/ q \in excused',
         Grants!Holds(r) => Grants!Holds(r)' \/ r \in settled' \cup excused' \/ tx[r]["authorize"] = "none",
         run'[r].at = "send" => Grants!Holds(r)' \/ r \in excused',
         run'[r].at \in {"new", "read", "recover", "sure"} => run[r].at = "new",
         run'[r].at \in {"mark", "send", "wait"} => run'[r].todo # <<>>
  PROVE  GrantInv'
  <1>1. GrantTypes' BY DEF GrantInv, GrantTypes
  <1>2. OpenInv'
    <2> SUFFICES ASSUME NEW q \in Grants!Open' PROVE Grants!Holds(q)' BY DEF OpenInv
    <2>1. q \in Runs /\ tx[q]["authorize"] # "none" /\ q \notin settled' \cup excused' BY DEF Grants!Open
    <2>2. q \in Grants!Open BY <2>1 DEF Grants!Open
    <2>3. Grants!Holds(q) BY <2>2 DEF GrantInv, OpenInv
    <2> QED BY <2>1, <2>3
  <1>3. SendersInv'
    <2> SUFFICES ASSUME NEW q \in Runs, run'[q].at = "send" PROVE Grants!Holds(q)' \/ q \in excused'
        BY DEF SendersInv
    <2>1. CASE q = r BY <2>1
    <2>2. CASE q # r
      <3>1. run[q].at = "send" BY <2>2
      <3>2. Grants!Holds(q) \/ q \in excused BY <3>1 DEF GrantInv, SendersInv
      <3> QED BY <2>2, <3>2
    <2> QED BY <2>1, <2>2
  <1>4. FreshInv' BY DEF GrantInv, FreshInv
  <1>5. ListInv' BY DEF GrantInv, ListInv
  <1> QED BY <1>1, <1>2, <1>3, <1>4, <1>5 DEF GrantInv
LEMMA GrantsNext == GrantInv /\ [Grants!Next]_(Grants!vars) => GrantInv'
  <1> SUFFICES ASSUME GrantInv, [Grants!Next]_(Grants!vars) PROVE GrantInv' OBVIOUS
  <1>t. GrantTypes BY DEF GrantInv
  <1>r. \A r \in Runs : run[r] \in [at : Grants!Places, todo : Grants!Lists, saw : Grants!Status]
        BY <1>t DEF GrantTypes
  <1>m. marker # None => marker \in Marker /\ marker.token \in Runs
    <2>1. marker \in Marker \/ marker = None BY <1>t DEF GrantTypes
    <2>2. marker \in Marker => marker.token \in Runs BY DEF Marker
    <2>3. marker \in Marker => marker # None BY GrantAssumption
    <2> QED BY <2>1, <2>2, <2>3
  <1>p. \A r \in Runs, at \in Grants!Places : Grants!Goes(r, at) =>
          /\ run' \in [Runs -> [at : Grants!Places, todo : Grants!Lists, saw : Grants!Status]]
          /\ run'[r].at = at /\ run'[r].todo = run[r].todo /\ \A q \in Runs \ {r} : run'[q] = run[q]
    <2> SUFFICES ASSUME NEW r \in Runs, NEW at \in Grants!Places, Grants!Goes(r, at)
                 PROVE  /\ run' \in [Runs -> [at : Grants!Places, todo : Grants!Lists, saw : Grants!Status]]
                        /\ run'[r].at = at /\ run'[r].todo = run[r].todo /\ \A q \in Runs \ {r} : run'[q] = run[q]
        OBVIOUS
    <2>1. [run[r] EXCEPT !.at = at] \in [at : Grants!Places, todo : Grants!Lists, saw : Grants!Status] BY <1>r
    <2>2. run' = [run EXCEPT ![r] = [run[r] EXCEPT !.at = at]] BY <1>t DEF Grants!Goes, GrantTypes
    <2> QED BY <1>t, <1>r, <2>1, <2>2 DEF GrantTypes
  (* Its own marker, or nobody's, is released.                             *)
  <1>e. \A r \in Runs : Grants!Released(r) \in Marker \cup {None}
          /\ (marker' = Grants!Released(r) => \A q \in Runs \ {r} : Grants!Holds(q) => Grants!Holds(q)')
        BY <1>t, <1>m DEF GrantTypes, Grants!Released, Grants!Holds
  <1>pl. {"read", "done", "send", "left"} \subseteq Grants!Places BY DEF Grants!Places
  <1>1. ASSUME NEW r \in Runs, Grants!Grant(r) PROVE GrantInv'
    <2>1. CASE marker = None
      <3>1. [token |-> r, state |-> "checking"] \in Marker BY DEF Marker
      <3>2. marker' \in Marker /\ marker' # None /\ marker'.token = r
            BY <1>1, <2>1, <3>1, GrantAssumption DEF Grants!Grant
      <3>3. \A q \in Runs : ~Grants!Holds(q) BY <2>1 DEF Grants!Holds
      <3>4. Grants!Goes(r, "read") /\ run[r].at = "new" BY <1>1, <2>1 DEF Grants!Grant
      <3>5. UNCHANGED <<tx, chain, settled, excused, ages>> BY <1>1 DEF Grants!Grant
      <3>6. GrantTypes' BY <1>t, <1>p, <1>pl, <3>2, <3>4, <3>5 DEF GrantTypes
      <3> QED BY <1>p, <1>pl, <1>t, <3>2, <3>3, <3>4, <3>5, <3>6, Unsent DEF GrantTypes
    <2>2. CASE marker # None
      <3>1. Grants!Goes(r, "done") /\ UNCHANGED <<marker, tx, chain, settled, excused, ages>>
            BY <1>1, <2>2 DEF Grants!Grant
      <3>2. \A q \in Runs : Grants!Holds(q) => Grants!Holds(q)' BY <3>1 DEF Grants!Holds
      <3> QED BY <1>p, <1>pl, <1>t, <3>1, <3>2, Unsent DEF GrantTypes
    <2> QED BY <2>1, <2>2
  <1>2. ASSUME NEW r \in Runs, run[r].at = "read", Grants!Ends(r), UNCHANGED <<tx, chain, settled, excused, ages>>
        PROVE  GrantInv'
    <2>1. Grants!Goes(r, "done") /\ marker' = Grants!Released(r) BY <1>2 DEF Grants!Ends
    <2>2. tx[r]["authorize"] = "none" BY <1>2 DEF GrantInv, FreshInv
    <2> QED BY <1>2, <1>p, <1>e, <1>pl, <1>t, <2>1, <2>2, Unsent DEF GrantTypes
  <1>3. ASSUME NEW r \in Runs, Grants!ReadBefore(r) PROVE GrantInv'
    <2>1. CASE Grants!Sufficient(chain) BY <1>2, <1>3, <2>1 DEF Grants!ReadBefore
    <2>2. CASE ~Grants!Sufficient(chain)
      <3> DEFINE R == [at |-> "mark", todo |-> Grants!Needed(chain), saw |-> chain]
      <3>1. Grants!Needed(chain) \in Grants!Lists /\ Grants!Needed(chain) # <<>>
            BY <1>t, <2>2, NeededLists DEF GrantTypes
      <3>2. R \in [at : Grants!Places, todo : Grants!Lists, saw : Grants!Status]
            BY <1>t, <3>1 DEF GrantTypes, Grants!Places
      <3>3. run' = [run EXCEPT ![r] = R] /\ UNCHANGED <<marker, tx, chain, settled, excused, ages>>
            BY <1>3, <2>2 DEF Grants!ReadBefore
      <3>4. R.at = "mark" /\ R.todo # <<>> BY <3>1
      <3> HIDE DEF R
      <3>5. /\ run' \in [Runs -> [at : Grants!Places, todo : Grants!Lists, saw : Grants!Status]]
            /\ run'[r].at = "mark" /\ run'[r].todo # <<>> /\ \A q \in Runs \ {r} : run'[q] = run[q]
            BY <1>t, <3>2, <3>3, <3>4 DEF GrantTypes
      <3>6. \A q \in Runs : Grants!Holds(q) => Grants!Holds(q)' BY <3>3 DEF Grants!Holds
      <3> QED BY <1>t, <3>3, <3>5, <3>6, Unsent DEF GrantTypes
    <2> QED BY <2>1, <2>2
  <1>4. ASSUME NEW r \in Runs, Grants!ReadFails(r) PROVE GrantInv'
        BY <1>2, <1>4 DEF Grants!ReadFails
  <1>5. ASSUME NEW r \in Runs, Grants!Mark(r) PROVE GrantInv'
    <2>1. run[r].at = "mark" /\ UNCHANGED <<tx, chain, settled, excused, ages>> BY <1>5 DEF Grants!Mark
    <2>2. CASE Grants!Holds(r)
      <3>1. marker' = [marker EXCEPT !.state = "unresolved"] /\ Grants!Goes(r, "send")
            BY <1>5, <2>2 DEF Grants!Mark, Grants!Marked
      <3>2. marker \in Marker /\ marker.token = r BY <1>m, <2>2 DEF Grants!Holds
      <3>3. marker' \in Marker /\ marker'.token = r BY <3>1, <3>2 DEF Marker
      <3>4. marker' # None BY <3>3, GrantAssumption
      <3>5. \A q \in Runs : Grants!Holds(q) => Grants!Holds(q)' BY <3>2, <3>3, <3>4 DEF Grants!Holds
      <3>6. Grants!Holds(r)' BY <3>3, <3>4 DEF Grants!Holds
      <3>7. run[r].todo # <<>> BY <2>1 DEF GrantInv, ListInv
      <3> QED BY <1>p, <1>pl, <1>t, <2>1, <3>1, <3>3, <3>5, <3>6, <3>7, Unsent DEF GrantTypes
    <2>3. CASE ~Grants!Holds(r)
      <3>1. Grants!Goes(r, "done") /\ marker' = Grants!Released(r)
            BY <1>5, <2>3 DEF Grants!Mark, Grants!Marked, Grants!Ends
      <3> QED BY <1>p, <1>e, <1>pl, <1>t, <2>1, <2>3, <3>1, Unsent DEF GrantTypes
    <2> QED BY <2>2, <2>3
  <1>6. ASSUME NEW r \in Runs, Grants!Send(r) PROVE GrantInv'
    <2>1. /\ run[r].at = "send" /\ Grants!Goes(r, "wait")
          /\ tx' = [tx EXCEPT ![r][Head(run[r].todo)] = "pool"]
          /\ UNCHANGED <<marker, chain, settled, excused, ages>>
          BY <1>6 DEF Grants!Send
    <2>2. "wait" \in Grants!Places BY DEF Grants!Places
    <2>3. run' \in [Runs -> [at : Grants!Places, todo : Grants!Lists, saw : Grants!Status]]
          /\ run'[r].at = "wait" /\ run'[r].todo = run[r].todo /\ \A q \in Runs \ {r} : run'[q] = run[q]
          BY <1>p, <2>1, <2>2
    <2>4. tx' \in [Runs -> [Grants!Ops -> Grants!States]] /\ \A q \in Runs \ {r} : tx'[q] = tx[q]
      <3>1. "pool" \in Grants!States BY DEF Grants!States
      <3>2. [tx[r] EXCEPT ![Head(run[r].todo)] = "pool"] \in [Grants!Ops -> Grants!States]
            BY <1>t, <3>1 DEF GrantTypes
      <3>3. tx' = [tx EXCEPT ![r] = [tx[r] EXCEPT ![Head(run[r].todo)] = "pool"]] BY <2>1
      <3> QED BY <1>t, <3>2, <3>3 DEF GrantTypes
    <2>5. GrantTypes' BY <1>t, <2>1, <2>3, <2>4 DEF GrantTypes
    <2>6. \A q \in Runs : Grants!Holds(q) => Grants!Holds(q)' BY <2>1 DEF Grants!Holds
    <2>7. Grants!Holds(r) \/ r \in excused BY <2>1 DEF GrantInv, SendersInv
    <2>8. OpenInv'
      <3> SUFFICES ASSUME NEW q \in Grants!Open' PROVE Grants!Holds(q)' BY DEF OpenInv
      <3>1. q \in Runs /\ tx'[q]["authorize"] # "none" /\ q \notin settled \cup excused
            BY <2>1 DEF Grants!Open
      <3>2. CASE q = r BY <2>6, <2>7, <3>1, <3>2
      <3>3. CASE q # r
        <4>1. q \in Grants!Open BY <2>4, <3>1, <3>3 DEF Grants!Open
        <4> QED BY <2>6, <3>1, <4>1 DEF GrantInv, OpenInv
      <3> QED BY <3>2, <3>3
    <2>9. SendersInv' BY <2>1, <2>3, <2>6 DEF GrantInv, SendersInv
    <2>10. FreshInv'
      <3> SUFFICES ASSUME NEW q \in Runs, run'[q].at \in {"new", "read", "recover", "sure"}
                   PROVE  tx'[q]["authorize"] = "none"
          BY DEF FreshInv
      <3>1. q # r BY <2>3
      <3> QED BY <2>3, <2>4, <3>1 DEF GrantInv, FreshInv
    <2>11. ListInv' BY <2>1, <2>3 DEF GrantInv, ListInv
    <2> QED BY <2>5, <2>8, <2>9, <2>10, <2>11 DEF GrantInv
  <1>7. ASSUME NEW r \in Runs, Grants!Finalized(r) PROVE GrantInv'
    <2> DEFINE R == [run[r] EXCEPT !.todo = Tail(run[r].todo), !.at = IF Len(run[r].todo) > 1 THEN "mark" ELSE "verify"]
    <2>1. run[r].at = "wait" /\ run' = [run EXCEPT ![r] = R] /\ UNCHANGED <<marker, tx, chain, settled, excused, ages>>
          BY <1>7, <1>t DEF Grants!Finalized, GrantTypes
    <2>2. run[r].todo \in Grants!Lists /\ run[r].todo # <<>> BY <1>r, <2>1 DEF GrantInv, ListInv
    <2>3. \/ run[r].todo \in {<<"refresh">>, <<"authorize">>}
          \/ run[r].todo = <<"refresh", "authorize">>
          BY <2>2 DEF Grants!Lists
    <2>4. /\ Tail(<<"refresh">>) = <<>> /\ Tail(<<"authorize">>) = <<>> /\ Tail(<<"refresh", "authorize">>) = <<"authorize">>
          /\ Len(<<"refresh">>) = 1 /\ Len(<<"authorize">>) = 1 /\ Len(<<"refresh", "authorize">>) = 2
          /\ <<"authorize">> # <<>>
          OBVIOUS
    <2>5. Tail(run[r].todo) \in Grants!Lists /\ (Len(run[r].todo) > 1 => Tail(run[r].todo) # <<>>)
      <3>1. CASE run[r].todo = <<"refresh">> BY <2>4, <3>1 DEF Grants!Lists
      <3>2. CASE run[r].todo = <<"authorize">> BY <2>4, <3>2 DEF Grants!Lists
      <3>3. CASE run[r].todo = <<"refresh", "authorize">>
        <4>1. Tail(run[r].todo) = <<"authorize">> BY <2>4, <3>3
        <4> QED BY <2>4, <4>1 DEF Grants!Lists
      <3> QED BY <2>3, <3>1, <3>2, <3>3
    <2>6. R \in [at : Grants!Places, todo : Grants!Lists, saw : Grants!Status]
          BY <1>r, <2>5 DEF Grants!Places
    <2>7. R.at \in {"mark", "verify"} /\ (R.at = "mark" => R.todo # <<>>) BY <1>r, <2>5
    <2> HIDE DEF R
    <2>8. /\ run' \in [Runs -> [at : Grants!Places, todo : Grants!Lists, saw : Grants!Status]]
          /\ run'[r] = R /\ \A q \in Runs \ {r} : run'[q] = run[q]
          BY <1>t, <2>1, <2>6 DEF GrantTypes
    <2>9. \A q \in Runs : Grants!Holds(q) => Grants!Holds(q)' BY <2>1 DEF Grants!Holds
    <2> QED BY <1>t, <2>1, <2>7, <2>8, <2>9, Unsent DEF GrantTypes
  <1>8. ASSUME NEW r \in Runs, run[r].at \in {"wait", "verify"}, Grants!Ends(r), settled' = settled \cup {r},
               UNCHANGED <<tx, chain, excused, ages>>
        PROVE  GrantInv'
    <2>1. Grants!Goes(r, "done") /\ marker' = Grants!Released(r) BY <1>8 DEF Grants!Ends
    <2> QED BY <1>8, <1>p, <1>e, <1>pl, <1>t, <2>1, Unsent DEF GrantTypes
  <1>9. ASSUME NEW r \in Runs, Grants!Rejected(r) \/ Grants!Verified(r) PROVE GrantInv'
        BY <1>8, <1>9 DEF Grants!Rejected, Grants!Verified
  <1>10. ASSUME NEW r \in Runs, Grants!Goes(r, "left"), marker' = Grants!Retained(r) \/ marker' = marker,
               UNCHANGED <<tx, chain, settled, excused, ages>>
        PROVE  GrantInv'
    <2>1. marker' \in Marker \cup {None} /\ \A q \in Runs : Grants!Holds(q) => Grants!Holds(q)'
      <3>1. CASE marker' = marker BY <1>t, <3>1 DEF GrantTypes, Grants!Holds
      <3>2. CASE marker' # marker
        <4>1. marker' = [marker EXCEPT !.state = "unresolved"] /\ Grants!Holds(r)
              BY <1>10, <3>2 DEF Grants!Retained
        <4>2. marker \in Marker /\ marker.token = r BY <1>m, <4>1 DEF Grants!Holds
        <4>3. marker' \in Marker /\ marker'.token = r BY <4>1, <4>2 DEF Marker
        <4>4. marker' # None BY <4>3, GrantAssumption
        <4> QED BY <4>2, <4>3, <4>4 DEF Grants!Holds
      <3> QED BY <3>1, <3>2
    <2> QED BY <1>10, <1>p, <1>pl, <1>t, <2>1, Unsent DEF GrantTypes
  <1>11. ASSUME NEW r \in Runs, Grants!OutcomeUnknown(r) \/ Grants!Unverified(r) \/ Grants!Dies(r) PROVE GrantInv'
        BY <1>10, <1>11 DEF Grants!OutcomeUnknown, Grants!Unverified, Grants!Dies
  <1>12. ASSUME NEW r \in Runs, Grants!RecoverReads(r) PROVE GrantInv'
    <2>1. PICK at \in {"recover", "sure"} : run' = [run EXCEPT ![r].at = at, ![r].saw = chain]
          BY <1>12 DEF Grants!RecoverReads
    <2>2. run[r].at = "new" /\ UNCHANGED <<marker, tx, chain, settled, excused, ages>>
          BY <1>12 DEF Grants!RecoverReads
    <2> DEFINE R == [run[r] EXCEPT !.at = at, !.saw = chain]
    <2>3. run' = [run EXCEPT ![r] = R] BY <1>t, <2>1 DEF GrantTypes
    <2>4. R \in [at : Grants!Places, todo : Grants!Lists, saw : Grants!Status] /\ R.at \in {"recover", "sure"}
          BY <1>t, <1>r DEF Grants!Places, GrantTypes
    <2> HIDE DEF R
    <2>5. /\ run' \in [Runs -> [at : Grants!Places, todo : Grants!Lists, saw : Grants!Status]]
          /\ run'[r] = R /\ \A q \in Runs \ {r} : run'[q] = run[q]
          BY <1>t, <2>3, <2>4 DEF GrantTypes
    <2>6. \A q \in Runs : Grants!Holds(q) => Grants!Holds(q)' BY <2>2 DEF Grants!Holds
    <2> QED BY <1>t, <2>2, <2>4, <2>5, <2>6, Unsent DEF GrantTypes
  <1>13. ASSUME NEW r \in Runs, Grants!RecoverClears(r) PROVE GrantInv'
    <2>1. Grants!Goes(r, "done") /\ UNCHANGED <<tx, chain, settled, ages>> BY <1>13 DEF Grants!RecoverClears
    <2>2. CASE marker' = None /\ excused' = excused \cup {marker.token} /\ marker # None
      <3>1. \A q \in Runs : Grants!Holds(q) => q \in excused' BY <2>2 DEF Grants!Holds
      <3>2. excused' \subseteq Runs BY <1>t, <1>m, <2>2 DEF GrantTypes
      <3> QED BY <1>p, <1>pl, <1>t, <2>1, <2>2, <3>1, <3>2, Unsent DEF GrantTypes
    <2>3. CASE UNCHANGED <<marker, excused>>
      <3>1. \A q \in Runs : Grants!Holds(q) => Grants!Holds(q)' BY <2>3 DEF Grants!Holds
      <3> QED BY <1>p, <1>pl, <1>t, <2>1, <2>3, <3>1, Unsent DEF GrantTypes
    <2> QED BY <1>13, <2>2, <2>3 DEF Grants!RecoverClears
  (* What the chain does changes nothing for the processes.                *)
  <1>14. ASSUME UNCHANGED <<run, marker, settled, excused>>, chain' \in Grants!Status, ages' \in Nat,
                tx' \in [Runs -> [Grants!Ops -> Grants!States]],
                \A q \in Runs : tx'[q]["authorize"] = "none" <=> tx[q]["authorize"] = "none"
         PROVE  GrantInv'
    <2>1. GrantTypes' BY <1>14, <1>t DEF GrantTypes
    <2>2. \A q \in Runs : Grants!Holds(q)' <=> Grants!Holds(q) BY <1>14 DEF Grants!Holds
    <2>3. Grants!Open' = Grants!Open BY <1>14 DEF Grants!Open
    <2>4. OpenInv' BY <2>2, <2>3 DEF GrantInv, OpenInv, Grants!Open
    <2>5. SendersInv' /\ FreshInv' /\ ListInv' BY <1>14, <2>2 DEF GrantInv, SendersInv, FreshInv, ListInv
    <2> QED BY <2>1, <2>4, <2>5 DEF GrantInv
  <1>15. ASSUME NEW r \in Runs, NEW o \in Grants!Ops, NEW s \in {"landed", "failed", "lost"}, tx[r][o] = "pool",
                tx' = [tx EXCEPT ![r][o] = s]
         PROVE  /\ tx' \in [Runs -> [Grants!Ops -> Grants!States]]
                /\ \A q \in Runs : tx'[q]["authorize"] = "none" <=> tx[q]["authorize"] = "none"
    <2>1. s \in Grants!States /\ "authorize" \in Grants!Ops BY DEF Grants!States, Grants!Ops
    <2>2. [tx[r] EXCEPT ![o] = s] \in [Grants!Ops -> Grants!States] BY <1>t, <2>1 DEF GrantTypes
    <2>3. tx' = [tx EXCEPT ![r] = [tx[r] EXCEPT ![o] = s]] BY <1>15
    <2>4. tx' \in [Runs -> [Grants!Ops -> Grants!States]] BY <1>t, <2>2, <2>3 DEF GrantTypes
    <2>5. \A q \in Runs : q # r => tx'[q] = tx[q] BY <1>t, <2>3 DEF GrantTypes
    <2>6. tx'[r]["authorize"] = "none" <=> tx[r]["authorize"] = "none"
          BY <1>15, <1>t, <2>1, <2>3 DEF GrantTypes
    <2> QED BY <2>4, <2>5, <2>6
  <1>c. chain \in [quota : Nat, life : Grants!Lives] BY <1>t DEF GrantTypes, Grants!Status
  <1>16. ASSUME NEW r \in Runs, NEW o \in Grants!Ops, Grants!Lands(r, o) PROVE GrantInv'
    <2>1. Grants!After(o) \in Grants!Status
      <3>1. [chain EXCEPT !.life = "far"] \in Grants!Status BY <1>c DEF Grants!Status, Grants!Lives
      <3>2. [quota |-> Granted, life |-> "far"] \in Grants!Status
            BY GrantAssumption DEF Grants!Status, Grants!Lives
      <3>3. chain.quota + Granted \in Nat BY <1>c, GrantAssumption
      <3>4. [chain EXCEPT !.quota = chain.quota + Granted] \in Grants!Status BY <1>c, <3>3 DEF Grants!Status
      <3> QED BY <3>1, <3>2, <3>4 DEF Grants!After
    <2>2. tx[r][o] = "pool" /\ tx' = [tx EXCEPT ![r][o] = "landed"] /\ chain' = Grants!After(o)
          /\ UNCHANGED <<run, marker, settled, excused, ages>>
          BY <1>16 DEF Grants!Lands
    <2> QED BY <1>14, <1>15, <1>t, <2>1, <2>2 DEF GrantTypes
  <1>17. ASSUME NEW r \in Runs, NEW o \in Grants!Ops, Grants!Drops(r, o) PROVE GrantInv'
        BY <1>14, <1>15, <1>17, <1>t DEF GrantTypes, Grants!Drops
  <1>18. CASE Grants!Uploads
    <2>1. chain.quota - 1 \in Nat BY <1>18, <1>c DEF Grants!Uploads
    <2>2. chain' \in Grants!Status BY <1>18, <1>c, <2>1 DEF Grants!Uploads, Grants!Status
    <2> QED BY <1>14, <1>18, <1>t, <2>2 DEF GrantTypes, Grants!Uploads
  <1>19. CASE Grants!Ages
    <2>1. chain' \in Grants!Status BY <1>19, <1>c DEF Grants!Ages, Grants!Status, Grants!Lives
    <2>2. ages' \in Nat BY <1>19, <1>t DEF GrantTypes, Grants!Ages
    <2> QED BY <1>14, <1>19, <1>t, <2>1, <2>2 DEF GrantTypes, Grants!Ages
  <1>20. CASE UNCHANGED Grants!vars BY <1>14, <1>20, <1>t DEF GrantTypes, Grants!vars
  <1> QED BY <1>1, <1>3, <1>4, <1>5, <1>6, <1>7, <1>9, <1>11, <1>12, <1>13, <1>16, <1>17, <1>18, <1>19, <1>20
          DEF Grants!Next

(***************************************************************************)
(* No second grant is submitted while the outcome of one is not known, for *)
(* any number of processes that time out, die, cannot verify or recover:   *)
(* the marker names the one run that has a grant in doubt                  *)
(* (testnet-file-allowance.mjs 188-225).                                   *)
(***************************************************************************)
THEOREM GrantsStayAlone == Grants!Spec => []OneOpenGrant
  <1>1. Grants!Init => GrantInv BY GrantsInit
  <1>2. GrantInv /\ [Grants!Next]_(Grants!vars) => GrantInv' BY GrantsNext
  <1>3. GrantInv => OneOpenGrant
        BY DEF GrantInv, OpenInv, OneOpenGrant, Grants!OneOpenGrant, Grants!Holds, Grants!Open
  <1> QED BY <1>1, <1>2, <1>3, PTL DEF Grants!Spec

-----------------------------------------------------------------------------
(* The vault: what a reader has sent is the beginning of the file it       *)
(* opened, whatever the path names by now.                                 *)
VaultTypes ==
  /\ entry \in [Paths -> Content] /\ manifest \in [Paths -> Content] /\ file \in [Paths -> Content]
  /\ op \in Updates \cup {None}
  /\ reader \in [Readers -> Reading \cup {None}]

Whole(x) == x.sent = [k \in 1 .. Len(x.sent) |-> <<x.handle, k>>]

FromHandle(r) ==
  LET x == reader[r] IN
  /\ x.at \in {"stat", "open"} => x.sent = <<>>
  /\ x.at \in {"read", "sent"} => x.handle \in Versions /\ Whole(x)
  /\ x.at = "sent" /\ r \notin plan.http => Len(x.sent) = SizeOf[x.handle]

VaultInv == VaultTypes /\ \A r \in Readers : reader[r] # None => FromHandle(r)

LEMMA VaultSize == \A v \in Content : Vault!Size(v) \in Nat /\ (v # None => Vault!Size(v) = SizeOf[v])
  BY VaultAssumption DEF Vault!Size, Content

(* A reader that goes on while the rest stands still.                      *)
LEMMA ReaderSteps ==
  ASSUME VaultInv, NEW r \in Readers, NEW x \in Reading, Vault!Now(r, x), UNCHANGED <<entry, manifest, file, op, plan>>,
         x.at \in {"stat", "open"} => x.sent = <<>>,
         x.at \in {"read", "sent"} => x.handle \in Versions /\ Whole(x),
         x.at = "sent" /\ r \notin plan.http => Len(x.sent) = SizeOf[x.handle]
  PROVE  VaultInv'
  <1>1. reader' = [reader EXCEPT ![r] = x] BY DEF Vault!Now
  <1>2. reader' \in [Readers -> Reading \cup {None}] /\ reader'[r] = x /\ \A q \in Readers \ {r} : reader'[q] = reader[q]
        BY <1>1 DEF VaultInv, VaultTypes
  <1>3. VaultTypes' BY <1>2 DEF VaultInv, VaultTypes
  <1>4. ASSUME NEW q \in Readers, reader'[q] # None PROVE FromHandle(q)'
    <2>1. CASE q = r BY <1>2, <2>1 DEF FromHandle, Whole
    <2>2. CASE q # r
      <3>1. reader'[q] = reader[q] BY <1>2, <2>2
      <3>2. FromHandle(q) BY <1>4, <3>1 DEF VaultInv
      <3> QED BY <3>1, <3>2 DEF FromHandle, Whole
    <2> QED BY <2>1, <2>2
  <1> QED BY <1>3, <1>4 DEF VaultInv

(* What becomes of the file does not concern those who read it.            *)
LEMMA VaultSteps ==
  ASSUME VaultInv, VaultTypes', UNCHANGED <<reader, plan>>
  PROVE  VaultInv'
  BY DEF VaultInv, FromHandle, Whole

LEMMA VaultInit == Vault!Init => VaultInv
  <1> SUFFICES ASSUME Vault!Init PROVE VaultInv OBVIOUS
  <1>1. VaultTypes BY DEF Vault!Init, VaultTypes, Content
  <1>2. \A r \in Readers : reader[r] = None BY DEF Vault!Init
  <1> QED BY <1>1, <1>2 DEF VaultInv

LEMMA ReaderNext ==
  ASSUME VaultInv, NEW r \in Readers,
         \/ \E p \in Paths : Vault!SendBegins(r, p) \/ Vault!GetBegins(r, p)
         \/ Vault!Stats(r) \/ Vault!Opens(r) \/ Vault!ReadsChunk(r) \/ Vault!ReadEnds(r)
  PROVE  VaultInv'
  <1>t. VaultTypes BY DEF VaultInv
  <1>f. \A p \in Paths : file[p] \in Content /\ entry[p] \in Content BY <1>t DEF VaultTypes
  <1>x. reader[r] # None => reader[r] \in Reading /\ FromHandle(r) BY DEF VaultInv, VaultTypes
  <1>1. ASSUME NEW p \in Paths, NEW at \in {"stat", "open"}, Vault!Begins(r, p, at) PROVE VaultInv'
    <2> DEFINE x == [at |-> at, path |-> p, declared |-> Vault!Size(entry[p]), stat |-> Vault!Size(entry[p]),
                     handle |-> None, sent |-> <<>>]
    <2>1. x \in Reading BY <1>f, VaultSize DEF Reading, Content
    <2>2. Vault!Now(r, x) /\ UNCHANGED <<entry, manifest, file, op, plan>> BY <1>1 DEF Vault!Begins
    <2>3. x.at \in {"stat", "open"} /\ x.sent = <<>> OBVIOUS
    <2> HIDE DEF x
    <2> QED BY <2>1, <2>2, <2>3, ReaderSteps
  <1>2. ASSUME NEW p \in Paths, Vault!SendBegins(r, p) \/ Vault!GetBegins(r, p) PROVE VaultInv'
        BY <1>1, <1>2 DEF Vault!SendBegins, Vault!GetBegins
  <1>3. ASSUME reader[r] # None, Vault!Gives(r, "failed"), UNCHANGED <<entry, manifest, file, op, plan>> PROVE VaultInv'
    <2> DEFINE x == [reader[r] EXCEPT !.at = "failed"]
    <2>1. x \in Reading /\ x.at = "failed" BY <1>3, <1>x DEF Reading
    <2>2. Vault!Now(r, x) BY <1>3 DEF Vault!Gives
    <2> HIDE DEF x
    <2> QED BY <1>3, <2>1, <2>2, ReaderSteps
  <1>4. ASSUME Vault!Stats(r) PROVE VaultInv'
    <2>1. reader[r] # None /\ reader[r].at = "stat" /\ UNCHANGED <<entry, manifest, file, op, plan>>
          BY <1>4 DEF Vault!Stats, Vault!Reads
    <2>2. CASE file[reader[r].path] = None BY <1>3, <1>4, <2>1, <2>2 DEF Vault!Stats
    <2>3. CASE file[reader[r].path] # None
      <3> DEFINE x == [reader[r] EXCEPT !.at = "open", !.stat = Vault!Size(file[reader[r].path])]
      <3>1. reader[r] \in Reading /\ reader[r].sent = <<>> /\ reader[r].path \in Paths
            BY <1>x, <2>1 DEF FromHandle, Reading
      <3>2. Vault!Size(file[reader[r].path]) \in Nat BY <1>f, <3>1, VaultSize
      <3>3. x \in Reading /\ x.at = "open" /\ x.sent = <<>> BY <3>1, <3>2 DEF Reading
      <3>4. Vault!Now(r, x) BY <1>4, <2>3 DEF Vault!Stats
      <3> HIDE DEF x
      <3> QED BY <2>1, <3>3, <3>4, ReaderSteps
    <2> QED BY <2>2, <2>3
  <1>5. ASSUME Vault!Opens(r) PROVE VaultInv'
    <2>1. reader[r] # None /\ reader[r].at = "open" /\ UNCHANGED <<entry, manifest, file, op, plan>>
          BY <1>5 DEF Vault!Opens, Vault!Reads
    <2>2. CASE file[reader[r].path] = None BY <1>3, <1>5, <2>1, <2>2 DEF Vault!Opens
    <2>3. CASE file[reader[r].path] # None
      <3> DEFINE x == [reader[r] EXCEPT !.at = "read", !.handle = file[reader[r].path]]
      <3>1. reader[r] \in Reading /\ reader[r].sent = <<>> /\ reader[r].path \in Paths
            BY <1>x, <2>1 DEF FromHandle, Reading
      <3>2. file[reader[r].path] \in Versions BY <1>f, <2>3, <3>1 DEF Content
      <3>3. x \in Reading /\ x.at = "read" /\ x.sent = <<>> /\ x.handle \in Versions
            BY <3>1, <3>2 DEF Reading, Content
      <3>4. Vault!Now(r, x) BY <1>5, <2>3 DEF Vault!Opens
      <3> HIDE DEF x
      <3>5. Whole(x) BY <3>3 DEF Whole
      <3> QED BY <2>1, <3>3, <3>4, <3>5, ReaderSteps
    <2> QED BY <2>2, <2>3
  <1>6. ASSUME Vault!ReadsChunk(r) PROVE VaultInv'
    <2> DEFINE k == Len(reader[r].sent) + 1
    <2>1. reader[r] # None /\ reader[r].at = "read" /\ UNCHANGED <<entry, manifest, file, op, plan>>
          BY <1>6 DEF Vault!ReadsChunk, Vault!Reads
    <2>2. CASE k > Vault!Size(reader[r].handle) BY <1>3, <1>6, <2>1, <2>2 DEF Vault!ReadsChunk
    <2>3. CASE ~(k > Vault!Size(reader[r].handle))
      <3> DEFINE x == [reader[r] EXCEPT !.sent = Append(@, <<reader[r].handle, k>>)]
                 s == reader[r].sent
      <3>1. reader[r] \in Reading /\ reader[r].handle \in Versions /\ Whole(reader[r])
            BY <1>x, <2>1 DEF FromHandle
      <3>2. s \in Seq(Versions \X Nat) /\ k \in Nat BY <3>1 DEF Reading
      <3>3. Append(s, <<reader[r].handle, k>>) \in Seq(Versions \X Nat) BY <3>1, <3>2
      <3>4. x \in Reading /\ x.at = "read" /\ x.handle = reader[r].handle /\ x.sent = Append(s, <<reader[r].handle, k>>)
            BY <2>1, <3>1, <3>3 DEF Reading
      <3>5. Vault!Now(r, x) BY <1>6, <2>3 DEF Vault!ReadsChunk
      <3>6. Append(s, <<reader[r].handle, k>>) = [i \in 1 .. k |-> <<reader[r].handle, i>>]
        <4>1. s = [i \in 1 .. Len(s) |-> <<reader[r].handle, i>>] BY <3>1 DEF Whole
        <4> DEFINE h == reader[r].handle
        <4> HIDE DEF s, h
        <4>2. Append(s, <<h, Len(s) + 1>>) = [i \in 1 .. Len(s) + 1 |-> IF i <= Len(s) THEN s[i] ELSE <<h, Len(s) + 1>>]
              BY <3>2
        <4>3. \A i \in 1 .. Len(s) : s[i] = <<h, i>> BY <4>1 DEF h
        <4>4. Append(s, <<h, Len(s) + 1>>) = [i \in 1 .. Len(s) + 1 |-> <<h, i>>]
          <5>1. Len(s) \in Nat BY <3>2
          <5>2. \A i \in 1 .. Len(s) + 1 : (IF i <= Len(s) THEN s[i] ELSE <<h, Len(s) + 1>>) = <<h, i>> BY <4>3, <5>1
          <5> QED BY <4>2, <5>2
        <4> QED BY <4>4 DEF s, h
      <3>7. Len(Append(s, <<reader[r].handle, k>>)) = k BY <3>2
      <3> HIDE DEF x
      <3>8. Whole(x) BY <3>4, <3>6, <3>7 DEF Whole
      <3> QED BY <2>1, <3>1, <3>4, <3>5, <3>8, ReaderSteps
    <2> QED BY <2>2, <2>3
  <1>7. ASSUME Vault!ReadEnds(r) PROVE VaultInv'
    <2>1. /\ reader[r] # None /\ reader[r].at = "read" /\ UNCHANGED <<entry, manifest, file, op, plan>>
          /\ Len(reader[r].sent) = reader[r].stat
          BY <1>7 DEF Vault!ReadEnds, Vault!Reads
    <2>2. CASE ~Vault!SameSize(r) BY <1>3, <1>7, <2>1, <2>2 DEF Vault!ReadEnds
    <2>3. CASE Vault!SameSize(r)
      <3> DEFINE x == [reader[r] EXCEPT !.at = "sent"]
      <3>1. reader[r] \in Reading /\ reader[r].handle \in Versions /\ Whole(reader[r])
            BY <1>x, <2>1 DEF FromHandle
      <3>2. x \in Reading /\ x.at = "sent" /\ x.handle = reader[r].handle /\ x.sent = reader[r].sent BY <3>1 DEF Reading
      <3>3. Vault!Now(r, x) BY <1>7, <2>3 DEF Vault!ReadEnds, Vault!Gives
      <3>4. r \notin plan.http => Len(x.sent) = SizeOf[x.handle]
        <4>1. Vault!Size(reader[r].handle) = SizeOf[reader[r].handle]
              BY <3>1, VaultAssumption, VaultSize DEF Content
        <4> QED BY <2>1, <2>3, <3>2, <4>1 DEF Vault!SameSize
      <3> HIDE DEF x
      <3>5. Whole(x) BY <3>1, <3>2 DEF Whole
      <3> QED BY <2>1, <3>1, <3>2, <3>3, <3>4, <3>5, ReaderSteps
    <2> QED BY <2>2, <2>3
  <1> QED BY <1>2, <1>4, <1>5, <1>6, <1>7

LEMMA VaultNext == VaultInv /\ [Vault!Next]_(Vault!vars) => VaultInv'
  <1> SUFFICES ASSUME VaultInv, [Vault!Next]_(Vault!vars) PROVE VaultInv' OBVIOUS
  <1>t. VaultTypes BY DEF VaultInv
  <1>o. op # None => op \in Updates BY <1>t DEF VaultTypes
  <1>s. \A p \in Paths, v \in Content : [file EXCEPT ![p] = v] \in [Paths -> Content]
        BY <1>t DEF VaultTypes
  <1>e. op # None => Vault!Listed \in [Paths -> Content] /\ Vault!Restored \in [Paths -> Content]
        BY <1>o, <1>t DEF VaultTypes, Updates, Vault!Listed, Vault!Restored
  <1>a. \A at \in {"stage", "aside", "place", "list", "tidy"} : op # None /\ Vault!To(at) => op' \in Updates
        BY <1>o DEF Updates, Vault!To
  <1>1. CASE \E p \in Paths, v \in Versions, overwrite \in BOOLEAN : Vault!PutBegins(p, v, overwrite)
    <2> PICK p \in Paths, v \in Versions, overwrite \in BOOLEAN : Vault!PutBegins(p, v, overwrite) BY <1>1
    <2>1. op' \in Updates BY DEF Vault!PutBegins, Updates, Content
    <2>2. UNCHANGED <<entry, manifest, file, reader, plan>> BY DEF Vault!PutBegins
    <2> QED BY <1>t, <2>1, <2>2, VaultSteps DEF VaultTypes
  <1>2. CASE \E p \in Paths : Vault!RemoveBegins(p)
    <2> PICK p \in Paths : Vault!RemoveBegins(p) BY <1>2
    <2>1. op' \in Updates BY DEF Vault!RemoveBegins, Updates, Content
    <2>2. UNCHANGED <<entry, manifest, file, reader, plan>> BY DEF Vault!RemoveBegins
    <2> QED BY <1>t, <2>1, <2>2, VaultSteps DEF VaultTypes
  <1>3. CASE Vault!Stages
    <2>1. UNCHANGED <<entry, manifest, file, reader, plan>> /\ op # None BY <1>3 DEF Vault!Stages, Vault!At
    <2>2. op' \in Updates \cup {None} BY <1>3, <1>a, <2>1 DEF Vault!Stages, Vault!Fails
    <2> QED BY <1>t, <2>1, <2>2, VaultSteps DEF VaultTypes
  <1>4. CASE Vault!MovesAside
    <2>1. UNCHANGED <<entry, manifest, reader, plan>> /\ op # None BY <1>4 DEF Vault!MovesAside, Vault!At
    <2>2. op.path \in Paths /\ op.new \in Content BY <1>o, <2>1 DEF Updates
    <2>3. file' \in [Paths -> Content] BY <1>4, <1>s, <1>t, <2>2 DEF Vault!MovesAside, VaultTypes, Content
    <2>4. op' \in Updates \cup {None}
      <3>1. CASE op' = [op EXCEPT !.at = IF op.new = None THEN "list" ELSE "place", !.aside = file[op.path]]
        <4>1. file[op.path] \in Content BY <1>t, <2>2 DEF VaultTypes
        <4> QED BY <1>o, <2>1, <3>1, <4>1 DEF Updates
      <3>2. CASE Vault!Fails BY <3>2 DEF Vault!Fails
      <3> QED BY <1>4, <3>1, <3>2 DEF Vault!MovesAside
    <2> QED BY <1>t, <2>1, <2>3, <2>4, VaultSteps DEF VaultTypes
  <1>5. CASE Vault!Places
    <2>1. UNCHANGED <<entry, manifest, reader, plan>> /\ op # None BY <1>5 DEF Vault!Places, Vault!At
    <2>2. op.path \in Paths /\ op.new \in Content BY <1>o, <2>1 DEF Updates
    <2>3. file' \in [Paths -> Content] BY <1>5, <1>s, <1>e, <2>1, <2>2 DEF Vault!Places
    <2>4. op' \in Updates \cup {None} BY <1>5, <1>a, <2>1 DEF Vault!Places, Vault!Fails
    <2> QED BY <1>t, <2>1, <2>3, <2>4, VaultSteps DEF VaultTypes
  <1>6. CASE Vault!Lists
    <2>1. UNCHANGED <<reader, plan>> /\ op # None BY <1>6 DEF Vault!Lists, Vault!At
    <2>2. entry' \in [Paths -> Content] /\ manifest' \in [Paths -> Content] /\ file' \in [Paths -> Content]
          BY <1>6, <1>t, <1>e, <2>1 DEF Vault!Lists, VaultTypes
    <2>3. op' \in Updates \cup {None} BY <1>6, <1>a, <2>1 DEF Vault!Lists, Vault!Fails
    <2> QED BY <1>t, <2>1, <2>2, <2>3, VaultSteps DEF VaultTypes
  <1>7. CASE Vault!Answers BY <1>7, <1>t, VaultSteps DEF Vault!Answers, VaultTypes
  <1>8. CASE \E r \in Readers, p \in Paths : Vault!SendBegins(r, p) \/ Vault!GetBegins(r, p) BY <1>8, ReaderNext
  <1>9. CASE \E r \in Readers : Vault!Stats(r) \/ Vault!Opens(r) \/ Vault!ReadsChunk(r) \/ Vault!ReadEnds(r)
        BY <1>9, ReaderNext
  <1>10. CASE Vault!Crashes
    <2>1. UNCHANGED <<entry, manifest, file, plan>> /\ op' = None BY <1>10 DEF Vault!Crashes
    <2> DEFINE x(r) == [reader[r] EXCEPT !.at = IF @ = "sent" THEN @ ELSE "failed"]
    <2>2. reader' = [r \in Readers |-> IF reader[r] = None THEN None ELSE x(r)] BY <1>10 DEF Vault!Crashes
    <2>3. \A r \in Readers : reader[r] # None => reader[r] \in Reading BY <1>t DEF VaultTypes
    <2>4. \A r \in Readers : reader[r] # None =>
             /\ x(r) \in Reading /\ x(r).at \in {"sent", "failed"} /\ (x(r).at = "sent" => x(r) = reader[r])
          BY <2>3 DEF Reading
    <2> HIDE DEF x
    <2>5. reader' \in [Readers -> Reading \cup {None}] BY <2>2, <2>4
    <2>6. ASSUME NEW r \in Readers, reader'[r] # None PROVE FromHandle(r)'
      <3>1. reader[r] # None /\ reader'[r] = x(r) BY <2>2, <2>6
      <3>2. FromHandle(r) BY <3>1 DEF VaultInv
      <3>3. reader'[r].at = "failed" \/ (reader'[r].at = "sent" /\ reader'[r] = reader[r]) BY <2>4, <3>1
      <3> QED BY <2>1, <3>2, <3>3 DEF FromHandle, Whole
    <2> QED BY <1>t, <2>1, <2>5, <2>6 DEF VaultInv, VaultTypes
  <1>11. CASE Vault!Starts
    <2>1. UNCHANGED <<manifest, file, reader, op, plan>> /\ entry' \in {entry, manifest} BY <1>11 DEF Vault!Starts
    <2> QED BY <1>t, <2>1, VaultSteps DEF VaultTypes
  <1>12. CASE UNCHANGED Vault!vars BY <1>12, <1>t, VaultSteps DEF Vault!vars, VaultTypes
  <1> QED BY <1>1, <1>2, <1>3, <1>4, <1>5, <1>6, <1>7, <1>8, <1>9, <1>10, <1>11, <1>12 DEF Vault!Next

(***************************************************************************)
(* What a peer is sent of a saved file is one version of it, whole, for    *)
(* any number of files, uploads, updates, failures and crashes between     *)
(* them: the upload reads from the file it opened, and compares its size   *)
(* again when it is through (hop-client.mjs 332-383).                      *)
(***************************************************************************)
THEOREM DeliveriesAreWhole == Vault!Spec => []DeliveredIsWhole
  <1>1. VaultInv => DeliveredIsWhole
    <2> SUFFICES ASSUME VaultInv, NEW r \in Readers, reader[r] # None, reader[r].at = "sent", r \notin plan.http
                 PROVE  \E v \in Versions : reader[r].sent = [k \in 1 .. Vault!Size(v) |-> <<v, k>>]
          BY DEF DeliveredIsWhole, Vault!DeliveredIsWhole
    <2>1. FromHandle(r) BY DEF VaultInv
    <2> DEFINE v == reader[r].handle
    <2>2. v \in Versions /\ Whole(reader[r]) /\ Len(reader[r].sent) = SizeOf[v] BY <2>1 DEF FromHandle
    <2>3. Vault!Size(v) = SizeOf[v] BY <2>2, VaultAssumption, VaultSize DEF Content
    <2> QED BY <2>2, <2>3 DEF Whole
  <1>2. Vault!Init => VaultInv BY VaultInit
  <1>3. VaultInv /\ [Vault!Next]_(Vault!vars) => VaultInv' BY VaultNext
  <1> QED BY <1>1, <1>2, <1>3, PTL DEF Vault!Spec

-----------------------------------------------------------------------------
(* The analysis of media. A state of the journal is in memory, on the disk,*)
(* or is what a failed write goes back to; a crash or a failure can bring  *)
(* each of them back, so each has to know what was sent and what was spent.*)
Revs == Analysis!Revs
Full == GlobalCap * GlobalPeriod
Pairs == Attached \X Revs
Bucket(n) == [tokens : 0 .. Full, at : 0 .. n]

TaskType == [pc : {"idle", "begin", "queued", "job", "fetch", "result", "record", "brain"}, rev : {0} \cup Revs,
             aborted : BOOLEAN, result : {"none", "complete", "unavailable"}]

Typed(s, n) ==
  /\ s = [rows |-> s.rows, global |-> s.global, senders |-> s.senders]
  /\ s.rows \in [Attached -> Analysis!Rows] /\ s.global \in Bucket(n)

(* The revisions whose files were sent, or will be without another look at *)
(* the journal. A state knows: it has the mark, or a later revision.       *)
Submits == {"queued", "job", "fetch"}
Spent(t, p) == [m \in Attached |-> {r \in Revs : p[m][r] > 0 \/ (t[m].pc \in Submits /\ t[m].rev = r)}]
Knows(x, r) == x.rev = 0 \/ x.rev > r \/ (x.rev = r /\ x.of = r)
Marked(s, sp) == \A m \in Attached : \A r \in sp[m] : Knows(s.rows[m], r)

(* The bucket of a state pays for all that was charged, and for some more. *)
Since(ch, a) == {k \in Pairs : ch[k[1]][k[2]] >= a}
Between(ch, a, b) == {k \in Pairs : ch[k[1]][k[2]] \in a .. b}
Pays(g, ch, more) ==
  /\ \A k \in Pairs : ch[k[1]][k[2]] <= g.at
  /\ \A a \in 0 .. g.at : (Cardinality(Since(ch, a)) + more) * GlobalPeriod + g.tokens <= Full + (g.at - a)

Good(s, n, sp, ch) == Typed(s, n) /\ Marked(s, sp) /\ Pays(s.global, ch, 0)

MediaTypes ==
  /\ now \in Nat
  /\ lock = [of |-> lock.of, before |-> lock.before] /\ lock.of \subseteq Attached
  /\ task \in [Attached -> TaskType] /\ queue \in Seq(Attached)
  /\ sent \in [Attached -> [Revs -> Nat]]
  /\ charged \in [Attached -> [Revs -> Int]]

StatesInv == \A s \in {mem, saved} \cup lock.before : Good(s, now, Spent(task, sent), charged)

TaskInv(m) ==
  /\ task[m].pc \in {"begin", "record"} => lock.of = {m}
  /\ task[m].pc \in Submits \cup {"begin"} => task[m].rev \in Revs
  /\ task[m].pc \in {"begin", "queued", "job"} => sent[m][task[m].rev] = 0
  /\ task[m].pc = "begin" =>
       /\ mem.rows[m].rev = task[m].rev /\ mem.rows[m].of = task[m].rev
       /\ mem.rows[m].analysis # "budget" => Pays(mem.global, charged, 1)

WaitsInQueue ==
  /\ \A i \in 1 .. Len(queue) : task[queue[i]].pc = "queued"
  /\ \A i, j \in 1 .. Len(queue) : queue[i] = queue[j] => i = j

HistoryInv == \A a, b \in Nat :
  a <= b => Cardinality(Between(charged, a, b)) * GlobalPeriod <= Full + (b - a)

MediaInv ==
  /\ MediaTypes /\ StatesInv /\ WaitsInQueue /\ HistoryInv
  /\ \A m \in Attached : TaskInv(m) /\ \A r \in Revs : sent[m][r] <= 1

-----------------------------------------------------------------------------
LEMMA PairsFinite ==
  /\ IsFiniteSet(Pairs)
  /\ \A S \in SUBSET Pairs : IsFiniteSet(S) /\ Cardinality(S) \in Nat
  <1>1. IsFiniteSet(Revs) BY BudgetAssumption, FS_Interval DEF Revs, Analysis!Revs
  <1>2. IsFiniteSet(Pairs) BY <1>1, BudgetAssumption, FS_Product DEF Pairs
  <1> QED BY <1>2, FS_Subset, FS_CardinalityType

LEMMA Factors ==
  /\ Full \in Nat /\ GlobalPeriod \in Nat /\ GlobalPeriod <= Full
  /\ \A c, d \in Nat : c * GlobalPeriod \in Nat /\ (c <= d => c * GlobalPeriod <= d * GlobalPeriod)
  /\ \A c \in Nat : (c + 1) * GlobalPeriod = c * GlobalPeriod + GlobalPeriod /\ (c + 0) * GlobalPeriod = c * GlobalPeriod
  <1>1. GlobalPeriod \in Nat /\ GlobalCap \in Nat /\ GlobalCap >= 1 BY BudgetAssumption
  <1>2. \A c, d \in Nat : c * GlobalPeriod \in Nat /\ (c <= d => c * GlobalPeriod <= d * GlobalPeriod)
    <2> SUFFICES ASSUME NEW c \in Nat, NEW d \in Nat
                 PROVE  c * GlobalPeriod \in Nat /\ (c <= d => c * GlobalPeriod <= d * GlobalPeriod) OBVIOUS
    <2>1. c * GlobalPeriod \in Nat BY <1>1
    <2>2. ASSUME c <= d PROVE c * GlobalPeriod <= d * GlobalPeriod
      <3>1. d - c \in Nat BY <2>2
      <3>2. (d - c) * GlobalPeriod \in Nat BY <1>1, <3>1
      <3>3. (d - c) * GlobalPeriod = d * GlobalPeriod - c * GlobalPeriod BY <1>1
      <3> QED BY <1>1, <3>2, <3>3
    <2> QED BY <2>1, <2>2
  <1>3. Full \in Nat BY <1>1 DEF Full
  <1>4. 1 * GlobalPeriod <= GlobalCap * GlobalPeriod BY <1>1, <1>2
  <1>5. GlobalPeriod <= Full BY <1>1, <1>4 DEF Full
  <1>6. \A c \in Nat : (c + 1) * GlobalPeriod = c * GlobalPeriod + GlobalPeriod /\ (c + 0) * GlobalPeriod = c * GlobalPeriod
        BY <1>1
  <1> QED BY <1>1, <1>2, <1>3, <1>5, <1>6

(* A bucket that gains with the time still pays for all that was charged.  *)
LEMMA Replenishing ==
  ASSUME NEW g \in Bucket(now), now \in Nat, Pays(g, charged, 0), charged \in [Attached -> [Revs -> Int]]
  PROVE  /\ Analysis!Replenished(g, Full) \in Bucket(now) /\ Analysis!Replenished(g, Full).at = now
         /\ Pays(Analysis!Replenished(g, Full), charged, 0)
  <1> DEFINE n == Analysis!Least(Full, g.tokens + (now - g.at))
             h == Analysis!Replenished(g, Full)
  <1>1. g.tokens \in 0 .. Full /\ g.at \in 0 .. now /\ Full \in Nat BY Factors DEF Bucket
  <1>2. n \in 0 .. Full /\ n <= g.tokens + (now - g.at) BY <1>1 DEF Analysis!Least
  <1>3. h = [g EXCEPT !.tokens = n, !.at = now] BY DEF Analysis!Replenished
  <1>4. h \in Bucket(now) /\ h.at = now /\ h.tokens = n
    <2> HIDE DEF n, h
    <2>1. g \in [tokens : 0 .. Full, at : 0 .. now] BY DEF Bucket
    <2>2. now \in 0 .. now /\ n \in 0 .. Full BY <1>2
    <2>3. h \in [tokens : 0 .. Full, at : 0 .. now] BY <1>3, <2>1, <2>2
    <2>4. h.at = now /\ h.tokens = n BY <1>3, <2>1
    <2> QED BY <2>3, <2>4 DEF Bucket
  <1> HIDE DEF n, h
  <1>5. \A k \in Pairs : charged[k[1]][k[2]] \in Int BY DEF Pairs
  <1>6. \A k \in Pairs : charged[k[1]][k[2]] <= now
    <2> SUFFICES ASSUME NEW k \in Pairs PROVE charged[k[1]][k[2]] <= now OBVIOUS
    <2>1. charged[k[1]][k[2]] <= g.at BY DEF Pays
    <2> QED BY <1>1, <1>5, <2>1
  <1>7. ASSUME NEW a \in 0 .. now
        PROVE  (Cardinality(Since(charged, a)) + 0) * GlobalPeriod + n <= Full + (now - a)
    <2> DEFINE c == Cardinality(Since(charged, a))
    <2>1. c \in Nat BY PairsFinite DEF Since
    <2>2. CASE a <= g.at
      <3>1. (c + 0) * GlobalPeriod + g.tokens <= Full + (g.at - a) BY <2>2, <1>1 DEF Pays
      <3>2. (c + 0) * GlobalPeriod \in Nat BY <2>1, Factors
      <3> QED BY <1>1, <1>2, <3>1, <3>2
    <2>3. CASE a > g.at
      <3>1. Since(charged, a) = {}
        <4> SUFFICES ASSUME NEW k \in Pairs PROVE ~(charged[k[1]][k[2]] >= a) BY DEF Since
        <4>1. charged[k[1]][k[2]] <= g.at BY DEF Pays
        <4> QED BY <1>1, <1>5, <2>3, <4>1
      <3>2. c = 0 BY <3>1, FS_EmptySet
      <3>3. (c + 0) * GlobalPeriod = 0 BY <3>2, Factors
      <3> QED BY <1>1, <1>2, <3>3
    <2> QED BY <1>1, <2>2, <2>3
  <1> QED BY <1>4, <1>6, <1>7 DEF Pays, h

(* A token is taken only where there is one.                               *)
LEMMA Reserving ==
  ASSUME NEW s, mem.global \in Bucket(now), now \in Nat, Pays(mem.global, charged, 0), charged \in [Attached -> [Revs -> Int]]
  PROVE  LET got == Analysis!Reserved(s) IN
         /\ got.ok \in BOOLEAN
         /\ got.global \in Bucket(now) /\ got.global.at = now
         /\ Pays(got.global, charged, 0)
         /\ got.ok => Pays(got.global, charged, 1)
  <1> DEFINE g == Analysis!Replenished(mem.global, GlobalCap * GlobalPeriod)
             h == [g EXCEPT !.tokens = @ - GlobalPeriod]
             got == Analysis!Reserved(s)
  <1>1. g \in Bucket(now) /\ g.at = now /\ Pays(g, charged, 0) BY Replenishing DEF Full
  <1>2. \/ got.ok = FALSE /\ got.global = g
        \/ got.ok = TRUE /\ ~(g.tokens < GlobalPeriod) /\ got.global = h
        BY DEF Analysis!Reserved
  <1> HIDE DEF g
  <1>3. ASSUME ~(g.tokens < GlobalPeriod)
        PROVE  h \in Bucket(now) /\ h.at = now /\ Pays(h, charged, 1) /\ Pays(h, charged, 0)
    <2>1. g \in [tokens : 0 .. Full, at : 0 .. now] /\ Full \in Nat /\ GlobalPeriod \in Nat
          BY <1>1, Factors DEF Bucket
    <2>2. g.tokens - GlobalPeriod \in 0 .. Full BY <1>3, <2>1
    <2>3. h \in [tokens : 0 .. Full, at : 0 .. now] BY <2>1, <2>2
    <2>4. h.at = now /\ h.tokens = g.tokens - GlobalPeriod BY <1>1, <2>1
    <2> HIDE DEF h
    <2>5. \A k \in Pairs : charged[k[1]][k[2]] <= h.at BY <1>1, <2>4 DEF Pays
    <2>6. ASSUME NEW a \in 0 .. now
          PROVE  /\ (Cardinality(Since(charged, a)) + 1) * GlobalPeriod + h.tokens <= Full + (now - a)
                 /\ (Cardinality(Since(charged, a)) + 0) * GlobalPeriod + h.tokens <= Full + (now - a)
      <3> DEFINE c == Cardinality(Since(charged, a))
      <3>1. c \in Nat BY PairsFinite DEF Since
      <3>2. (c + 0) * GlobalPeriod + g.tokens <= Full + (now - a) BY <1>1 DEF Pays
      <3>3. (c + 1) * GlobalPeriod = c * GlobalPeriod + GlobalPeriod /\ (c + 0) * GlobalPeriod = c * GlobalPeriod
            /\ c * GlobalPeriod \in Nat
            BY <3>1, Factors
      <3> HIDE DEF c
      <3> QED BY <2>1, <2>2, <2>4, <3>2, <3>3 DEF c
    <2> QED BY <2>3, <2>4, <2>5, <2>6 DEF Pays, Bucket
  <1> QED BY <1>1, <1>2, <1>3

(* A token that was taken becomes a charge.                                *)
LEMMA Charging ==
  ASSUME NEW g \in Bucket(now), now \in Nat, charged \in [Attached -> [Revs -> Int]], HistoryInv,
         Pays(g, charged, 1), NEW m \in Attached, NEW r \in Revs,
         charged' = [charged EXCEPT ![m][r] = g.at]
  PROVE  charged' \in [Attached -> [Revs -> Int]] /\ Pays(g, charged', 0) /\ HistoryInv'
  <1> DEFINE old(k) == charged[k[1]][k[2]]
             new(k) == charged'[k[1]][k[2]]
             p == <<m, r>>
  <1>1. g.tokens \in 0 .. Full /\ g.at \in 0 .. now /\ Full \in Nat /\ GlobalPeriod \in Nat BY Factors DEF Bucket
  <1>2. charged' \in [Attached -> [Revs -> Int]]
    <2>1. [charged[m] EXCEPT ![r] = g.at] \in [Revs -> Int] BY <1>1
    <2> QED BY <2>1
  <1>3. \A k \in Pairs : old(k) \in Int /\ new(k) \in Int /\ (k # p => new(k) = old(k)) /\ (k = p => new(k) = g.at)
    <2> SUFFICES ASSUME NEW k \in Pairs
                 PROVE  old(k) \in Int /\ new(k) \in Int /\ (k # p => new(k) = old(k)) /\ (k = p => new(k) = g.at)
        OBVIOUS
    <2>1. k = <<k[1], k[2]>> /\ k[1] \in Attached /\ k[2] \in Revs BY DEF Pairs
    <2>2. k # p => k[1] # m \/ k[2] # r BY <2>1
    <2>3. k = p => k[1] = m /\ k[2] = r OBVIOUS
    <2> QED BY <1>1, <1>2, <2>1, <2>2, <2>3
  <1>4. \A k \in Pairs : old(k) <= g.at BY DEF Pays
  <1> HIDE DEF old, new
  <1>5. \A k \in Pairs : new(k) <= g.at BY <1>1, <1>3, <1>4
  <1>6. ASSUME NEW a \in 0 .. g.at
        PROVE  /\ Since(charged', a) \subseteq Since(charged, a) \cup {p}
               /\ Cardinality(Since(charged', a)) <= Cardinality(Since(charged, a)) + 1
               /\ Cardinality(Since(charged', a)) \in Nat /\ Cardinality(Since(charged, a)) \in Nat
               /\ Cardinality(Since(charged', a)) * GlobalPeriod + g.tokens <= Full + (g.at - a)
    <2> DEFINE S == Since(charged, a)
               T == Since(charged', a)
    <2>1. T \subseteq S \cup {p} BY <1>3 DEF Since, old, new
    <2>2. IsFiniteSet(S) /\ Cardinality(S) \in Nat /\ Cardinality(T) \in Nat BY PairsFinite DEF Since
    <2>3. (Cardinality(S) + 1) * GlobalPeriod + g.tokens <= Full + (g.at - a) BY DEF Pays
    <2> HIDE DEF S, T
    <2>4. IsFiniteSet(S \cup {p}) /\ Cardinality(S \cup {p}) <= Cardinality(S) + 1 /\ Cardinality(S \cup {p}) \in Nat
      <3> HIDE DEF p
      <3>1. IsFiniteSet(S \cup {p})
            /\ Cardinality(S \cup {p}) = IF p \in S THEN Cardinality(S) ELSE Cardinality(S) + 1
            BY <2>2, FS_AddElement
      <3>2. Cardinality(S \cup {p}) = Cardinality(S) \/ Cardinality(S \cup {p}) = Cardinality(S) + 1 BY <3>1
      <3> QED BY <2>2, <3>1, <3>2
    <2>5. Cardinality(T) <= Cardinality(S) + 1 BY <2>1, <2>2, <2>4, FS_Subset
    <2>6. Cardinality(T) * GlobalPeriod <= (Cardinality(S) + 1) * GlobalPeriod /\ Cardinality(T) * GlobalPeriod \in Nat
          /\ (Cardinality(S) + 1) * GlobalPeriod \in Nat
          BY <2>2, <2>5, Factors
    <2>7. Cardinality(T) * GlobalPeriod + g.tokens <= Full + (g.at - a) BY <1>1, <2>3, <2>6
    <2> QED BY <2>1, <2>2, <2>5, <2>7 DEF S, T
  <1>7. Pays(g, charged', 0)
    <2>1. \A a \in 0 .. g.at : (Cardinality(Since(charged', a)) + 0) * GlobalPeriod = Cardinality(Since(charged', a)) * GlobalPeriod
          BY <1>6, Factors
    <2> QED BY <1>5, <1>6, <2>1 DEF Pays, new
  <1>8. ASSUME NEW a \in Nat, NEW b \in Nat, a <= b
        PROVE  Cardinality(Between(charged', a, b)) * GlobalPeriod <= Full + (b - a)
    <2> DEFINE U == Between(charged, a, b)
               V == Between(charged', a, b)
    <2>1. Cardinality(U) * GlobalPeriod <= Full + (b - a) BY <1>8 DEF HistoryInv
    <2>2. IsFiniteSet(U) /\ IsFiniteSet(V) /\ Cardinality(U) \in Nat /\ Cardinality(V) \in Nat BY PairsFinite DEF Between
    <2>3. CASE g.at \in a .. b
      <3>1. a \in 0 .. g.at BY <1>1, <2>3
      <3>2. V \subseteq Since(charged', a) BY <1>3, <3>1 DEF Between, Since, new
      <3>3. IsFiniteSet(Since(charged', a)) /\ Cardinality(Since(charged', a)) \in Nat BY PairsFinite DEF Since
      <3>4. Cardinality(V) <= Cardinality(Since(charged', a)) BY <3>2, <3>3, FS_Subset
      <3>5. Cardinality(V) * GlobalPeriod <= Cardinality(Since(charged', a)) * GlobalPeriod
            /\ Cardinality(V) * GlobalPeriod \in Nat /\ Cardinality(Since(charged', a)) * GlobalPeriod \in Nat
            BY <2>2, <3>3, <3>4, Factors
      <3>6. Cardinality(Since(charged', a)) * GlobalPeriod + g.tokens <= Full + (g.at - a) BY <1>6, <3>1
      <3> HIDE DEF V
      <3> QED BY <1>1, <1>8, <2>3, <3>5, <3>6 DEF V
    <2>4. CASE g.at \notin a .. b
      <3>1. V \subseteq U
        <4> SUFFICES ASSUME NEW k \in Pairs, new(k) \in a .. b PROVE old(k) \in a .. b BY DEF Between, new, old
        <4> QED BY <1>3, <2>4
      <3>2. Cardinality(V) <= Cardinality(U) BY <2>2, <3>1, FS_Subset
      <3>3. Cardinality(V) * GlobalPeriod <= Cardinality(U) * GlobalPeriod
            /\ Cardinality(V) * GlobalPeriod \in Nat /\ Cardinality(U) * GlobalPeriod \in Nat
            BY <2>2, <3>2, Factors
      <3> HIDE DEF U, V
      <3> QED BY <1>1, <1>8, <2>1, <3>3 DEF U, V
    <2> QED BY <2>3, <2>4
  <1> QED BY <1>2, <1>7, <1>8 DEF HistoryInv

-----------------------------------------------------------------------------
LEMMA MediaFacts ==
  ASSUME MediaInv
  PROVE  /\ MediaTypes /\ WaitsInQueue /\ HistoryInv
         /\ Good(mem, now, Spent(task, sent), charged) /\ Good(saved, now, Spent(task, sent), charged)
         /\ \A s \in lock.before : Good(s, now, Spent(task, sent), charged)
         /\ \A m \in Attached : TaskInv(m) /\ task[m] \in TaskType /\ mem.rows[m] \in Analysis!Rows
         /\ Revs \in SUBSET Nat /\ 0 \notin Revs
  BY BudgetAssumption DEF MediaInv, MediaTypes, StatesInv, Good, Typed, Revs, Analysis!Revs

(* One change is written at a time.                                        *)
LEMMA OneWrites ==
  ASSUME MediaInv, NEW n \in Attached
  PROVE  /\ Analysis!Free => task[n].pc \notin {"begin", "record"}
         /\ \A m \in Attached : task[m].pc \in {"begin", "record"} /\ n # m => task[n].pc \notin {"begin", "record"}
  <1>1. TaskInv(n) /\ \A m \in Attached : TaskInv(m) BY DEF MediaInv
  <1>2. Analysis!Free => lock.of = {} BY DEF Analysis!Free, Analysis!Nobody
  <1> QED BY <1>1, <1>2 DEF TaskInv

LEMMA Learning ==
  ASSUME NEW s, NEW n \in Nat, NEW later \in Nat, n <= later, NEW sp, NEW sq, NEW ch, Good(s, n, sp, ch),
         \A m \in Attached : sq[m] \subseteq sp[m]
  PROVE  Good(s, later, sq, ch)
  <1>1. Marked(s, sq) BY DEF Good, Marked
  <1>2. s.global \in [tokens : 0 .. Full, at : 0 .. n] BY DEF Good, Typed, Bucket
  <1>3. 0 .. n \subseteq 0 .. later OBVIOUS
  <1>4. s.global \in [tokens : 0 .. Full, at : 0 .. later] BY <1>2, <1>3
  <1> QED BY <1>1, <1>4 DEF Good, Typed, Bucket

(* A step that sends nothing and charges nothing.                          *)
LEMMA MediaSteps ==
  ASSUME MediaInv, UNCHANGED <<sent, charged>>, now' \in Nat, now <= now',
         task' \in [Attached -> TaskType], queue' \in Seq(Attached), WaitsInQueue',
         lock' = [of |-> lock'.of, before |-> lock'.before], lock'.of \subseteq Attached,
         \A n \in Attached : task'[n].pc \in Submits => task[n].pc \in Submits /\ task'[n].rev = task[n].rev,
         \A s \in {mem', saved'} \cup lock'.before : Good(s, now, Spent(task, sent), charged),
         \A n \in Attached : TaskInv(n)'
  PROVE  MediaInv'
  <1>1. now \in Nat BY MediaFacts DEF MediaTypes
  <1>2. \A m \in Attached : Spent(task', sent')[m] \subseteq Spent(task, sent)[m] BY DEF Spent
  <1>3. \A s \in {mem', saved'} \cup lock'.before : Good(s, now', Spent(task', sent'), charged')
    <2> SUFFICES ASSUME NEW s \in {mem', saved'} \cup lock'.before PROVE Good(s, now', Spent(task', sent'), charged')
        OBVIOUS
    <2> DEFINE sp == Spent(task, sent)
               sq == Spent(task', sent')
    <2>1. Good(s, now, sp, charged) OBVIOUS
    <2>2. \A m \in Attached : sq[m] \subseteq sp[m] BY <1>2
    <2> HIDE DEF sp, sq
    <2>3. Good(s, now', sq, charged) BY <1>1, <2>1, <2>2, Learning
    <2> QED BY <2>3 DEF sq
  <1>4. MediaTypes' BY DEF MediaInv, MediaTypes
  <1>5. HistoryInv' BY DEF MediaInv, HistoryInv
  <1>6. StatesInv' BY <1>3 DEF StatesInv
  <1>7. \A m \in Attached : \A r \in Revs : sent'[m][r] <= 1 BY DEF MediaInv
  <1> QED BY <1>4, <1>5, <1>6, <1>7 DEF MediaInv

LEMMA TaskStays ==
  ASSUME MediaInv, NEW n \in Attached, task'[n].pc = task[n].pc, task'[n].rev = task[n].rev, sent'[n] = sent[n],
         task[n].pc \notin {"begin", "record"} \/ UNCHANGED <<lock, mem, charged>>
  PROVE  TaskInv(n)'
  <1>1. TaskInv(n) BY DEF MediaInv
  <1> QED BY <1>1 DEF TaskInv, Submits

LEMMA QueueStays ==
  ASSUME MediaInv, UNCHANGED queue, \A n \in Attached : task[n].pc = "queued" => task'[n].pc = "queued"
  PROVE  queue' \in Seq(Attached) /\ WaitsInQueue'
  <1>1. queue \in Seq(Attached) /\ WaitsInQueue BY DEF MediaInv, MediaTypes
  <1>2. \A i \in 1 .. Len(queue) : queue[i] \in Attached BY <1>1
  <1> QED BY <1>1, <1>2 DEF WaitsInQueue

(* One turn goes on; what is written meanwhile is not its own.             *)
LEMMA TurnSteps ==
  ASSUME MediaInv, UNCHANGED <<sent, charged, now, queue>>, NEW m \in Attached, NEW e \in TaskType,
         task' = [task EXCEPT ![m] = e], task[m].pc # "queued", e.pc \notin Submits,
         lock' = [of |-> lock'.of, before |-> lock'.before], lock'.of \subseteq Attached,
         \A s \in {mem', saved'} \cup lock'.before : Good(s, now, Spent(task, sent), charged),
         UNCHANGED <<lock, mem>> \/ Analysis!Free \/ task[m].pc \in {"begin", "record"},
         TaskInv(m)'
  PROVE  MediaInv'
  <1>1. task \in [Attached -> TaskType] /\ now \in Nat BY MediaFacts DEF MediaTypes
  <1>2. task' \in [Attached -> TaskType] /\ task'[m] = e /\ \A n \in Attached \ {m} : task'[n] = task[n] BY <1>1
  <1>3. queue' \in Seq(Attached) /\ WaitsInQueue' BY <1>2, QueueStays
  <1>4. ASSUME NEW n \in Attached PROVE TaskInv(n)'
    <2>1. CASE n = m BY <2>1
    <2>2. CASE n # m
      <3>1. task[n].pc \notin {"begin", "record"} \/ UNCHANGED <<lock, mem, charged>> BY <2>2, OneWrites
      <3> QED BY <1>2, <2>2, <3>1, TaskStays
    <2> QED BY <2>1, <2>2
  <1>5. \A n \in Attached : task'[n].pc \in Submits => task[n].pc \in Submits /\ task'[n].rev = task[n].rev BY <1>2
  <1>6. now' \in Nat /\ now <= now' BY <1>1
  <1> QED BY <1>2, <1>3, <1>4, <1>5, <1>6, MediaSteps

(* The place of a job that has settled goes to the next that waits.        *)
LEMMA Settles ==
  ASSUME MediaInv, UNCHANGED <<mem, saved, lock, sent, charged, now>>, NEW m \in Attached, NEW e \in TaskType,
         task[m].pc \in {"job", "fetch"}, e.pc \in {"idle", "result"}, Analysis!Freed(m, e)
  PROVE  MediaInv'
  <1>t. task \in [Attached -> TaskType] /\ now \in Nat /\ queue \in Seq(Attached) BY MediaFacts DEF MediaTypes
  <1>s. \A s \in {mem', saved'} \cup lock'.before : Good(s, now, Spent(task, sent), charged) BY MediaFacts
  <1>l. lock' = [of |-> lock'.of, before |-> lock'.before] /\ lock'.of \subseteq Attached BY MediaFacts DEF MediaTypes
  <1>1. CASE queue = <<>>
    <2>1. task' = [task EXCEPT ![m] = e] /\ UNCHANGED queue BY <1>1 DEF Analysis!Freed
    <2>2. TaskInv(m)' BY <1>t, <2>1 DEF TaskInv, Submits
    <2>3. e.pc \notin Submits /\ task[m].pc # "queued" BY DEF Submits
    <2> QED BY <1>s, <1>l, <2>1, <2>2, <2>3, TurnSteps
  <1>2. CASE queue # <<>>
    <2> DEFINE h == Head(queue)
               x == [task[h] EXCEPT !.pc = "job"]
    <2>1. h \in Attached /\ h = queue[1] /\ 1 \in 1 .. Len(queue) BY <1>t, <1>2
    <2>2. task[h].pc = "queued" /\ h # m BY <2>1, MediaFacts DEF WaitsInQueue
    <2>3. task' = [task EXCEPT ![m] = e, ![h].pc = "job"] /\ queue' = Tail(queue) BY <1>2 DEF Analysis!Freed
    <2>4. task[h] \in TaskType BY <1>t, <2>1
    <2>5. x \in TaskType /\ x.pc = "job" /\ x.rev = task[h].rev BY <2>4 DEF TaskType
    <2> HIDE DEF h
    <2>6. task' = [task EXCEPT ![m] = e, ![h] = x] BY <1>t, <2>1, <2>2, <2>3
    <2> HIDE DEF x
    <2>7. task' \in [Attached -> TaskType] /\ task'[m] = e /\ task'[h] = x
          /\ \A n \in Attached \ {m, h} : task'[n] = task[n]
          BY <1>t, <2>1, <2>2, <2>5, <2>6
    <2>8. queue' \in Seq(Attached) /\ Len(queue') = Len(queue) - 1 /\ \A i \in 1 .. Len(queue') : queue'[i] = queue[i + 1]
          BY <1>t, <1>2, <2>3
    <2>9. WaitsInQueue'
      <3>1. \A i \in 1 .. Len(queue') : i + 1 \in 1 .. Len(queue) /\ queue[i + 1] \in Attached /\ queue[i + 1] # h /\ queue[i + 1] # m
                                        /\ task[queue[i + 1]].pc = "queued"
        <4> SUFFICES ASSUME NEW i \in 1 .. Len(queue')
                     PROVE  i + 1 \in 1 .. Len(queue) /\ queue[i + 1] \in Attached /\ queue[i + 1] # h /\ queue[i + 1] # m
                            /\ task[queue[i + 1]].pc = "queued"
            OBVIOUS
        <4>1. i + 1 \in 1 .. Len(queue) /\ i + 1 # 1 BY <1>t, <2>8
        <4>2. queue[i + 1] \in Attached BY <1>t, <4>1
        <4>3. task[queue[i + 1]].pc = "queued" /\ queue[i + 1] # queue[1] BY <2>1, <4>1, MediaFacts DEF WaitsInQueue
        <4> QED BY <2>1, <4>1, <4>2, <4>3
      <3>2. \A i \in 1 .. Len(queue') : task'[queue'[i]].pc = "queued" BY <2>7, <2>8, <3>1
      <3>3. \A i, j \in 1 .. Len(queue') : queue'[i] = queue'[j] => i = j
        <4> SUFFICES ASSUME NEW i \in 1 .. Len(queue'), NEW j \in 1 .. Len(queue'), queue'[i] = queue'[j] PROVE i = j OBVIOUS
        <4>1. queue[i + 1] = queue[j + 1] /\ i + 1 \in 1 .. Len(queue) /\ j + 1 \in 1 .. Len(queue) BY <2>8, <3>1
        <4>2. i + 1 = j + 1 BY <4>1, MediaFacts DEF WaitsInQueue
        <4>3. i \in Int /\ j \in Int OBVIOUS
        <4> QED BY <4>2, <4>3
      <3> QED BY <3>2, <3>3 DEF WaitsInQueue
    <2>10. ASSUME NEW n \in Attached PROVE TaskInv(n)'
      <3>1. CASE n = m BY <2>7, <3>1 DEF TaskInv, Submits
      <3>2. CASE n = h
        <4>1. TaskInv(h) BY <2>1, MediaFacts DEF h
        <4>2. task'[h].pc = "job" /\ task'[h].rev = task[h].rev BY <2>5, <2>7
        <4> QED BY <2>2, <3>2, <4>1, <4>2 DEF TaskInv, Submits
      <3>3. CASE n \notin {m, h} BY <2>7, <3>3, TaskStays
      <3> QED BY <3>1, <3>2, <3>3
    <2>11. \A n \in Attached : task'[n].pc \in Submits => task[n].pc \in Submits /\ task'[n].rev = task[n].rev
           BY <2>2, <2>5, <2>7 DEF Submits
    <2>12. now' \in Nat /\ now <= now' BY <1>t
    <2> QED BY <1>s, <1>l, <2>7, <2>8, <2>9, <2>10, <2>11, <2>12, MediaSteps
  <1> QED BY <1>1, <1>2

LEMMA MediaInit == Analysis!Init => MediaInv
  <1> SUFFICES ASSUME Analysis!Init PROVE MediaInv OBVIOUS
  <1> DEFINE g == [tokens |-> GlobalCap * GlobalPeriod, at |-> 0]
  <1>1. now = 0 /\ lock = [of |-> {}, before |-> {}] /\ queue = <<>> /\ mem = saved
        BY DEF Analysis!Init, Analysis!Nobody
  <1>2. \A m \in Attached : task[m].pc = "idle" BY DEF Analysis!Init, Analysis!Idle
  <1>3. \A m \in Attached : \A r \in Revs : sent[m][r] = 0 /\ charged[m][r] = -1
        BY DEF Analysis!Init, Revs, Analysis!Never
  <1>4. MediaTypes
    <2>1. task \in [Attached -> TaskType] BY DEF Analysis!Init, Analysis!Idle, Analysis!Gone, TaskType
    <2>2. sent \in [Attached -> [Revs -> Nat]] /\ charged \in [Attached -> [Revs -> Int]]
          BY DEF Analysis!Init, Analysis!Never, Revs
    <2> QED BY <1>1, <2>1, <2>2 DEF MediaTypes
  <1>5. Good(mem, now, Spent(task, sent), charged)
    <2>1. mem = [rows |-> [m \in Attached |-> [rev |-> 1, analysis |-> "none", of |-> 0]], global |-> g, senders |-> <<>>]
          BY DEF Analysis!Init, Analysis!Gone
    <2>2. 1 \in Revs BY BudgetAssumption DEF Revs, Analysis!Revs
    <2>3. Full \in 0 .. Full BY Factors
    <2>4. g \in Bucket(now) BY <1>1, <2>3 DEF Full, Bucket
    <2>5. Marked(mem, Spent(task, sent)) BY <1>2, <1>3 DEF Marked, Spent, Submits
    <2>6. Pays(g, charged, 0)
      <3>1. \A k \in Pairs : charged[k[1]][k[2]] = -1 BY <1>3 DEF Pairs
      <3>2. Since(charged, 0) = {} BY <3>1 DEF Since
      <3>3. Cardinality(Since(charged, 0)) = 0 BY <3>2, FS_EmptySet
      <3>4. (0 + 0) * GlobalPeriod = 0 BY Factors
      <3>5. g.at = 0 /\ g.tokens = Full BY DEF Full
      <3>6. 0 + Full <= Full + (0 - 0) BY Factors
      <3> HIDE DEF g
      <3>7. \A a \in 0 .. 0 : a = 0 OBVIOUS
      <3> QED BY <3>1, <3>3, <3>4, <3>5, <3>6, <3>7 DEF Pays
    <2>7. [rev |-> 1, analysis |-> "none", of |-> 0] \in Analysis!Rows
          BY <2>2 DEF Revs, Analysis!Rows, Analysis!Revs, Analysis!Gone
    <2> QED BY <2>1, <2>4, <2>5, <2>6, <2>7 DEF Good, Typed
  <1>6. HistoryInv
    <2> SUFFICES ASSUME NEW a \in Nat, NEW b \in Nat, a <= b
                 PROVE  Cardinality(Between(charged, a, b)) * GlobalPeriod <= Full + (b - a) BY DEF HistoryInv
    <2>1. \A k \in Pairs : charged[k[1]][k[2]] = -1 BY <1>3 DEF Pairs
    <2>2. Between(charged, a, b) = {} BY <2>1 DEF Between
    <2>3. Cardinality(Between(charged, a, b)) = 0 BY <2>2, FS_EmptySet
    <2> QED BY <2>3, Factors
  <1>7. \A m \in Attached : TaskInv(m) BY <1>2 DEF TaskInv, Submits
  <1>8. WaitsInQueue BY <1>1 DEF WaitsInQueue
  <1>9. StatesInv BY <1>1, <1>5 DEF StatesInv
  <1> QED BY <1>3, <1>4, <1>6, <1>7, <1>8, <1>9 DEF MediaInv

(* A row that knows as much as the old one does.                           *)
LEMMA NewRow ==
  ASSUME MediaInv, NEW m \in Attached, NEW x \in Analysis!Rows, NEW s, NEW g, NEW b,
         x.rev = 0 \/ x.rev > mem.rows[m].rev \/ (x.rev = mem.rows[m].rev /\ x.of \in {x.rev, mem.rows[m].of}),
         mem.rows[m].rev # 0 \/ x.rev = 0,
         s = [rows |-> [mem.rows EXCEPT ![m] = x], global |-> g, senders |-> b],
         g \in Bucket(now), Pays(g, charged, 0)
  PROVE  Good(s, now, Spent(task, sent), charged)
  <1>1. Good(mem, now, Spent(task, sent), charged) BY MediaFacts
  <1>2. mem.rows \in [Attached -> Analysis!Rows] BY <1>1 DEF Good, Typed
  <1>3. s.rows = [mem.rows EXCEPT ![m] = x] /\ s.global = g /\ s.senders = b OBVIOUS
  <1>4. Typed(s, now) BY <1>2, <1>3 DEF Typed
  <1>5. mem.rows[m] \in Analysis!Rows /\ Revs \in SUBSET Nat BY MediaFacts
  <1>6. x.rev \in Nat /\ mem.rows[m].rev \in Nat BY <1>5 DEF Analysis!Rows, Revs, Analysis!Revs, Analysis!Gone
  <1>7. ASSUME NEW n \in Attached, NEW r \in Spent(task, sent)[n] PROVE Knows(s.rows[n], r)
    <2>1. Knows(mem.rows[n], r) BY <1>1 DEF Good, Marked
    <2>2. CASE n # m BY <1>2, <1>3, <2>1, <2>2
    <2>3. CASE n = m
      <3>1. s.rows[n] = x BY <1>2, <1>3, <2>3
      <3>2. r \in Nat BY <1>5 DEF Spent
      <3> QED BY <1>6, <2>1, <2>3, <3>1, <3>2 DEF Knows
    <2> QED BY <2>2, <2>3
  <1> QED BY <1>3, <1>4, <1>7 DEF Good, Marked

LEMMA MediaReuses == ASSUME MediaInv, NEW m \in Attached, Analysis!Reuses(m) PROVE MediaInv'
  <1> DEFINE e == [Analysis!Idle EXCEPT !.pc = "brain", !.rev = mem.rows[m].rev]
  <1>1. mem.rows[m] \in Analysis!Rows BY MediaFacts
  <1>2. e \in TaskType /\ e.pc = "brain"
        BY <1>1 DEF TaskType, Analysis!Idle, Analysis!Rows, Analysis!Gone, Revs
  <1>3. task' = [task EXCEPT ![m] = e] /\ task[m].pc = "idle" /\ UNCHANGED <<now, mem, saved, lock, queue, sent, charged>>
        BY DEF Analysis!Reuses, Analysis!Row, Analysis!bot
  <1> HIDE DEF e
  <1>4. \A s \in {mem', saved'} \cup lock'.before : Good(s, now, Spent(task, sent), charged) BY <1>3, MediaFacts
  <1>5. lock' = [of |-> lock'.of, before |-> lock'.before] /\ lock'.of \subseteq Attached BY <1>3, MediaFacts DEF MediaTypes
  <1>6. TaskInv(m)' BY <1>2, <1>3, MediaFacts DEF TaskInv, Submits, MediaTypes
  <1>7. e.pc \notin Submits BY <1>2 DEF Submits
  <1> QED BY <1>2, <1>3, <1>4, <1>5, <1>6, <1>7, TurnSteps

LEMMA MediaBegins == ASSUME MediaInv, NEW m \in Attached, Analysis!Begins(m) PROVE MediaInv'
  <1> DEFINE row == mem.rows[m]
             got == Analysis!Reserved(Sender[m])
             e == [Analysis!Idle EXCEPT !.pc = "begin", !.rev = row.rev]
             x == [row EXCEPT !.analysis = IF got.ok THEN "submitted" ELSE "budget", !.of = row.rev]
  <1>t. MediaTypes /\ row \in Analysis!Rows /\ Good(mem, now, Spent(task, sent), charged) /\ task[m] \in TaskType
        BY MediaFacts
  <1>g. /\ got.ok \in BOOLEAN /\ got.global \in Bucket(now) /\ Pays(got.global, charged, 0)
        /\ got.ok => Pays(got.global, charged, 1)
        BY <1>t, Reserving DEF MediaTypes, Good, Typed
  <1>1. row.rev # 0 /\ row.rev \in Revs /\ row.of # row.rev
        BY <1>t DEF Analysis!Begins, Analysis!Row, Analysis!Cached, Analysis!Gone, Analysis!Rows, Revs
  <1>2. e \in TaskType /\ e.pc = "begin" /\ e.rev = row.rev BY <1>1 DEF TaskType, Analysis!Idle
  <1>3. task' = [task EXCEPT ![m] = e] /\ task[m].pc = "idle" /\ Analysis!Free
        /\ UNCHANGED <<now, saved, queue, sent, charged>>
        BY DEF Analysis!Begins, Analysis!Row
  <1>4. mem' = [rows |-> [mem.rows EXCEPT ![m].analysis = IF got.ok THEN "submitted" ELSE "budget", ![m].of = row.rev],
                global |-> got.global, senders |-> got.senders]
        BY DEF Analysis!Begins, Analysis!Row
  <1>5. lock' = [of |-> {m}, before |-> {mem}] BY DEF Analysis!Begins
  <1> HIDE DEF got, e
  <1>6. mem.rows \in [Attached -> Analysis!Rows] BY <1>t DEF Good, Typed
  <1>7. x \in Analysis!Rows /\ x.rev = row.rev /\ x.of = row.rev
        /\ x.analysis = (IF got.ok THEN "submitted" ELSE "budget")
        BY <1>1, <1>t DEF Analysis!Rows, Revs
  <1>8. [mem.rows EXCEPT ![m].analysis = IF got.ok THEN "submitted" ELSE "budget", ![m].of = row.rev]
        = [mem.rows EXCEPT ![m] = x]
        BY <1>6
  <1>9. mem' = [rows |-> [mem.rows EXCEPT ![m] = x], global |-> got.global, senders |-> got.senders] BY <1>4, <1>8
  <1> HIDE DEF x
  <1>10. Good(mem', now, Spent(task, sent), charged)
    <2>1. x.rev = mem.rows[m].rev /\ x.of \in {x.rev, mem.rows[m].of} /\ mem.rows[m].rev # 0 BY <1>1, <1>7
    <2> HIDE DEF row
    <2> QED BY <1>7, <1>9, <1>g, <2>1, NewRow
  <1>11. \A s \in {mem', saved'} \cup lock'.before : Good(s, now, Spent(task, sent), charged)
         BY <1>3, <1>5, <1>10, MediaFacts
  <1>12. lock' = [of |-> lock'.of, before |-> lock'.before] /\ lock'.of \subseteq Attached /\ lock'.of = {m} BY <1>5
  <1>13. TaskInv(m)'
    <2>1. task'[m] = e BY <1>3, <1>t DEF MediaTypes
    <2>2. mem'.rows[m] = x /\ mem'.global = got.global BY <1>6, <1>9
    <2>3. sent'[m][row.rev] = 0
      <3>1. row.rev \in Spent(task, sent)[m] => Knows(row, row.rev) BY <1>t DEF Good, Marked
      <3>2. ~(row.rev > row.rev)
        <4>1. row.rev \in Nat BY <1>1, MediaFacts
        <4> QED BY <4>1
      <3>3. row.rev \notin Spent(task, sent)[m] BY <1>1, <3>1, <3>2 DEF Knows
      <3>4. sent[m][row.rev] \in Nat BY <1>1, <1>t DEF MediaTypes
      <3>5. ~(sent[m][row.rev] > 0) BY <1>1, <3>3 DEF Spent
      <3> QED BY <1>3, <3>4, <3>5
    <2>4. mem'.rows[m].analysis # "budget" => Pays(mem'.global, charged', 1) BY <1>3, <1>7, <1>g, <2>2
    <2>5. "begin" \notin Submits BY DEF Submits
    <2> QED BY <1>1, <1>2, <1>7, <1>12, <2>1, <2>2, <2>3, <2>4, <2>5 DEF TaskInv
  <1>14. e.pc \notin Submits BY <1>2 DEF Submits
  <1> QED BY <1>2, <1>3, <1>11, <1>12, <1>13, <1>14, TurnSteps

LEMMA MediaBeginSaved == ASSUME MediaInv, NEW m \in Attached, Analysis!BeginSaved(m) PROVE MediaInv'
  <1> DEFINE rev == task[m].rev
  <1>t. MediaTypes /\ TaskInv(m) /\ Good(mem, now, Spent(task, sent), charged) /\ task[m] \in TaskType BY MediaFacts
  <1>1. task[m].pc = "begin" /\ saved' = mem /\ lock' = [of |-> {}, before |-> {}] /\ UNCHANGED <<now, mem, sent>>
        BY DEF Analysis!BeginSaved, Analysis!Nobody
  <1>2. rev \in Revs /\ mem.rows[m].rev = rev /\ mem.rows[m].of = rev /\ sent[m][rev] = 0
        /\ (mem.rows[m].analysis # "budget" => Pays(mem.global, charged, 1))
        BY <1>1, <1>t DEF TaskInv
  <1>l. lock' = [of |-> lock'.of, before |-> lock'.before] /\ lock'.of \subseteq Attached /\ lock'.before = {} BY <1>1
  <1>3. CASE mem.rows[m].analysis = "budget"
    <2> DEFINE e == [task[m] EXCEPT !.pc = "brain"]
    <2>1. task' = [task EXCEPT ![m].pc = "brain"] /\ UNCHANGED <<charged, queue>>
          BY <1>3 DEF Analysis!BeginSaved, Analysis!Becomes, Analysis!Row
    <2>2. task' = [task EXCEPT ![m] = e] BY <2>1
    <2>3. e \in TaskType /\ e.pc = "brain" BY <1>t DEF TaskType
    <2> HIDE DEF e
    <2>4. TaskInv(m)' BY <1>t, <2>2, <2>3 DEF TaskInv, Submits, MediaTypes
    <2>5. e.pc \notin Submits /\ task[m].pc # "queued" BY <1>1, <2>3 DEF Submits
    <2>6. \A s \in {mem', saved'} \cup lock'.before : Good(s, now, Spent(task, sent), charged) BY <1>1, <1>l, <1>t
    <2> QED BY <1>1, <1>l, <2>1, <2>2, <2>3, <2>4, <2>5, <2>6, TurnSteps
  <1>4. CASE mem.rows[m].analysis # "budget"
    <2>1. charged' = [charged EXCEPT ![m][rev] = mem.global.at] /\ Analysis!Enqueued(m)
          BY <1>2, <1>4 DEF Analysis!BeginSaved, Analysis!Row
    <2>2. /\ charged' \in [Attached -> [Revs -> Int]] /\ Pays(mem.global, charged', 0) /\ HistoryInv'
      <3>1. mem.global \in Bucket(now) /\ now \in Nat /\ HistoryInv BY <1>t, MediaFacts DEF Good, Typed, MediaTypes
      <3> HIDE DEF rev
      <3> QED BY <1>2, <1>4, <1>t, <2>1, <3>1, Charging DEF MediaTypes
    <2>3. PICK e \in TaskType :
             /\ task' = [task EXCEPT ![m] = e] /\ e.pc \in {"job", "queued", "result"} /\ e.rev = rev
             /\ queue' = IF e.pc = "queued" THEN Append(queue, m) ELSE queue
      <3>1. CASE task' = [task EXCEPT ![m].pc = "job"] /\ UNCHANGED queue
        <4> DEFINE e == [task[m] EXCEPT !.pc = "job"]
        <4>1. e \in TaskType /\ e.pc = "job" /\ e.rev = rev BY <1>t DEF TaskType
        <4>2. task' = [task EXCEPT ![m] = e] BY <3>1
        <4> HIDE DEF e
        <4> QED BY <3>1, <4>1, <4>2
      <3>2. CASE task' = [task EXCEPT ![m].pc = "queued"] /\ queue' = Append(queue, m)
        <4> DEFINE e == [task[m] EXCEPT !.pc = "queued"]
        <4>1. e \in TaskType /\ e.pc = "queued" /\ e.rev = rev BY <1>t DEF TaskType
        <4>2. task' = [task EXCEPT ![m] = e] BY <3>2
        <4> HIDE DEF e
        <4> QED BY <3>2, <4>1, <4>2
      <3>3. CASE task' = [task EXCEPT ![m].pc = "result", ![m].result = "unavailable"] /\ UNCHANGED queue
        <4> DEFINE e == [task[m] EXCEPT !.pc = "result", !.result = "unavailable"]
        <4>1. e \in TaskType /\ e.pc = "result" /\ e.rev = rev
          <5>1. "unavailable" \in {"none", "complete", "unavailable"} OBVIOUS
          <5> QED BY <1>t, <5>1 DEF TaskType
        <4>2. task' = [task EXCEPT ![m] = e] BY <1>t, <3>3 DEF MediaTypes
        <4> HIDE DEF e
        <4> QED BY <3>3, <4>1, <4>2
      <3> QED BY <2>1, <3>1, <3>2, <3>3 DEF Analysis!Enqueued, Analysis!Becomes
    <2>4. task' \in [Attached -> TaskType] /\ task'[m] = e /\ \A n \in Attached \ {m} : task'[n] = task[n]
          BY <1>t, <2>3 DEF MediaTypes
    <2>5. Good(mem, now', Spent(task', sent'), charged')
      <3>1. \A n \in Attached : \A r \in Spent(task', sent')[n] : r \in Spent(task, sent)[n] \/ (n = m /\ r = rev)
            BY <1>1, <2>3, <2>4 DEF Spent
      <3>2. Marked(mem, Spent(task', sent')) BY <1>2, <1>t, <3>1 DEF Good, Marked, Knows
      <3> QED BY <1>1, <1>t, <2>2, <3>2 DEF Good
    <2>6. StatesInv' BY <1>1, <1>l, <2>5 DEF StatesInv
    <2>7. queue \in Seq(Attached) /\ WaitsInQueue /\ Len(queue) \in Nat BY <1>t, MediaFacts DEF MediaTypes
    <2>8. \A i \in 1 .. Len(queue) : queue[i] \in Attached /\ queue[i] # m /\ task'[queue[i]].pc = "queued"
      <3> SUFFICES ASSUME NEW i \in 1 .. Len(queue)
                   PROVE  queue[i] \in Attached /\ queue[i] # m /\ task'[queue[i]].pc = "queued" OBVIOUS
      <3>1. queue[i] \in Attached /\ task[queue[i]].pc = "queued" BY <2>7 DEF WaitsInQueue
      <3> QED BY <1>1, <2>4, <3>1
    <2>9. queue' \in Seq(Attached) /\ WaitsInQueue'
      <3>1. CASE e.pc # "queued"
        <4>1. queue' = queue BY <2>3, <3>1
        <4> QED BY <2>7, <2>8, <4>1 DEF WaitsInQueue
      <3>2. CASE e.pc = "queued"
        <4>1. queue' = Append(queue, m) BY <2>3, <3>2
        <4>2. queue' \in Seq(Attached) /\ Len(queue') = Len(queue) + 1 /\ queue'[Len(queue) + 1] = m
              /\ \A i \in 1 .. Len(queue) : queue'[i] = queue[i]
              BY <2>7, <4>1
        <4>3. \A i \in 1 .. Len(queue') : i = Len(queue) + 1 \/ i \in 1 .. Len(queue) BY <2>7, <4>2
        <4>4. \A i \in 1 .. Len(queue') : task'[queue'[i]].pc = "queued" BY <2>4, <2>8, <3>2, <4>2, <4>3
        <4>5. \A i, j \in 1 .. Len(queue') : queue'[i] = queue'[j] => i = j
          <5> SUFFICES ASSUME NEW i \in 1 .. Len(queue'), NEW j \in 1 .. Len(queue'), queue'[i] = queue'[j] PROVE i = j OBVIOUS
          <5>1. CASE i \in 1 .. Len(queue) /\ j \in 1 .. Len(queue) BY <2>7, <4>2, <5>1 DEF WaitsInQueue
          <5>2. CASE i = Len(queue) + 1 \/ j = Len(queue) + 1 BY <2>8, <4>2, <4>3, <5>2
          <5> QED BY <4>3, <5>1, <5>2
        <4> QED BY <4>2, <4>4, <4>5 DEF WaitsInQueue
      <3> QED BY <3>1, <3>2
    <2>10. ASSUME NEW n \in Attached PROVE TaskInv(n)'
      <3>1. CASE n = m BY <1>1, <1>2, <2>3, <2>4, <3>1 DEF TaskInv, Submits
      <3>2. CASE n # m
        <4>1. task[n].pc \notin {"begin", "record"} BY <1>1, <3>2, OneWrites
        <4> QED BY <1>1, <2>4, <3>2, <4>1, TaskStays
      <3> QED BY <3>1, <3>2
    <2>11. MediaTypes' BY <1>1, <1>l, <1>t, <2>2, <2>4, <2>9 DEF MediaTypes
    <2>12. \A n \in Attached : \A r \in Revs : sent'[n][r] <= 1 BY <1>1 DEF MediaInv
    <2> QED BY <2>2, <2>6, <2>9, <2>10, <2>11, <2>12 DEF MediaInv
  <1> QED BY <1>3, <1>4

LEMMA MediaBeginUnsaved == ASSUME MediaInv, NEW m \in Attached, Analysis!BeginUnsaved(m) PROVE MediaInv'
  <1> DEFINE e == [task[m] EXCEPT !.pc = "idle"]
  <1>t. MediaTypes /\ task[m] \in TaskType BY MediaFacts
  <1>1. /\ task[m].pc = "begin" /\ lock' = [of |-> {}, before |-> {}] /\ mem' \in lock.before /\ saved' \in {saved, mem}
        /\ UNCHANGED <<now, queue, sent, charged>>
        BY DEF Analysis!BeginUnsaved, Analysis!Nobody
  <1>2. task' = [task EXCEPT ![m] = e] BY DEF Analysis!BeginUnsaved, Analysis!Becomes
  <1>3. e \in TaskType /\ e.pc = "idle" BY <1>t DEF TaskType
  <1> HIDE DEF e
  <1>4. \A s \in {mem', saved'} \cup lock'.before : Good(s, now, Spent(task, sent), charged)
    <2>1. lock'.before = {} BY <1>1
    <2> QED BY <1>1, <2>1, MediaFacts
  <1>5. lock' = [of |-> lock'.of, before |-> lock'.before] /\ lock'.of \subseteq Attached BY <1>1
  <1>6. TaskInv(m)' BY <1>2, <1>3, <1>t DEF TaskInv, Submits, MediaTypes
  <1>7. e.pc \notin Submits /\ task[m].pc # "queued" BY <1>1, <1>3 DEF Submits
  <1> QED BY <1>1, <1>2, <1>3, <1>4, <1>5, <1>6, <1>7, TurnSteps

LEMMA MediaRuns == ASSUME MediaInv, NEW m \in Attached, Analysis!Runs(m) PROVE MediaInv'
  <1> DEFINE rev == task[m].rev
  <1>t. MediaTypes /\ TaskInv(m) /\ task[m] \in TaskType BY MediaFacts
  <1>1. task[m].pc = "job" /\ UNCHANGED <<now, mem, saved, lock, charged>> BY DEF Analysis!Runs, Analysis!bot
  <1>2. rev \in Revs /\ sent[m][rev] = 0 BY <1>1, <1>t DEF TaskInv, Submits
  <1>3. CASE Analysis!Freed(m, Analysis!Idle) /\ UNCHANGED sent
    <2>1. Analysis!Idle \in TaskType /\ Analysis!Idle.pc = "idle" BY DEF Analysis!Idle, TaskType, Analysis!Gone
    <2> QED BY <1>1, <1>3, <2>1, Settles
  <1>4. CASE Analysis!Freed(m, Analysis!Got(m, "complete")) /\ UNCHANGED sent
    <2>1. Analysis!Got(m, "complete") \in TaskType /\ Analysis!Got(m, "complete").pc = "result"
          BY <1>t DEF Analysis!Got, TaskType
    <2> QED BY <1>1, <1>4, <2>1, Settles
  <1>5. CASE Analysis!Becomes(m, "fetch") /\ UNCHANGED queue /\ sent' = [sent EXCEPT ![m][rev] = @ + 1]
    <2> DEFINE e == [task[m] EXCEPT !.pc = "fetch"]
    <2>1. task' = [task EXCEPT ![m] = e] BY <1>5 DEF Analysis!Becomes
    <2>2. e \in TaskType /\ e.pc = "fetch" /\ e.rev = rev BY <1>t DEF TaskType
    <2> HIDE DEF e
    <2>3. task' \in [Attached -> TaskType] /\ task'[m] = e /\ \A n \in Attached \ {m} : task'[n] = task[n]
          BY <1>t, <2>1, <2>2 DEF MediaTypes
    <2>4. /\ sent' \in [Attached -> [Revs -> Nat]] /\ \A n \in Attached \ {m} : sent'[n] = sent[n]
          /\ \A r \in Revs : sent'[m][r] = IF r = rev THEN 1 ELSE sent[m][r]
      <3>1. [sent[m] EXCEPT ![rev] = sent[m][rev] + 1] \in [Revs -> Nat] BY <1>2, <1>t DEF MediaTypes
      <3>2. sent' = [sent EXCEPT ![m] = [sent[m] EXCEPT ![rev] = sent[m][rev] + 1]] BY <1>5
      <3> QED BY <1>2, <1>t, <3>1, <3>2 DEF MediaTypes
    <2>5. \A n \in Attached : Spent(task', sent')[n] \subseteq Spent(task, sent)[n]
      <3> SUFFICES ASSUME NEW n \in Attached, NEW r \in Spent(task', sent')[n] PROVE r \in Spent(task, sent)[n] OBVIOUS
      <3>1. r \in Revs /\ (sent'[n][r] > 0 \/ (task'[n].pc \in Submits /\ task'[n].rev = r)) BY DEF Spent
      <3>2. CASE n # m BY <2>3, <2>4, <3>1, <3>2 DEF Spent
      <3>3. CASE n = m /\ r = rev BY <1>1, <3>1, <3>3 DEF Spent, Submits
      <3>4. CASE n = m /\ r # rev BY <2>2, <2>3, <2>4, <3>1, <3>4 DEF Spent
      <3> QED BY <3>2, <3>3, <3>4
    <2>6. StatesInv'
      <3> DEFINE sp == Spent(task, sent)
                 sq == Spent(task', sent')
      <3>1. \A n \in Attached : sq[n] \subseteq sp[n] BY <2>5
      <3>2. \A s \in {mem, saved} \cup lock.before : Good(s, now, sp, charged) BY MediaFacts
      <3>3. now \in Nat /\ now <= now BY <1>t DEF MediaTypes
      <3> HIDE DEF sp, sq
      <3>4. \A s \in {mem, saved} \cup lock.before : Good(s, now, sq, charged) BY <3>1, <3>2, <3>3, Learning
      <3> QED BY <1>1, <3>4 DEF StatesInv, sq
    <2>7. queue' \in Seq(Attached) /\ WaitsInQueue'
      <3>1. \A n \in Attached : task[n].pc = "queued" => task'[n].pc = "queued" BY <1>1, <2>3
      <3> QED BY <1>5, <3>1, QueueStays
    <2>8. ASSUME NEW n \in Attached PROVE TaskInv(n)'
      <3>1. CASE n = m BY <1>2, <2>2, <2>3, <3>1 DEF TaskInv, Submits
      <3>2. CASE n # m BY <1>1, <2>3, <2>4, <3>2, TaskStays
      <3> QED BY <3>1, <3>2
    <2>9. MediaTypes' BY <1>1, <1>t, <2>3, <2>4, <2>7 DEF MediaTypes
    <2>10. \A n \in Attached : \A r \in Revs : sent'[n][r] <= 1 BY <2>4 DEF MediaInv
    <2>11. HistoryInv' BY <1>1 DEF MediaInv, HistoryInv
    <2> QED BY <2>6, <2>7, <2>8, <2>9, <2>10, <2>11 DEF MediaInv
  <1> QED BY <1>3, <1>4, <1>5 DEF Analysis!Runs

(* The turn ends, and has or has not a place to give back.                 *)
LEMMA MediaCalls ==
  ASSUME MediaInv, NEW m \in Attached, Analysis!Answered(m) \/ Analysis!TimesOut(m) \/ Analysis!Ends(m)
  PROVE  MediaInv'
  <1>t. MediaTypes /\ task[m] \in TaskType BY MediaFacts
  <1>g. \A result \in {"complete", "unavailable"} :
          Analysis!Got(m, result) \in TaskType /\ Analysis!Got(m, result).pc = "result"
        BY <1>t DEF Analysis!Got, TaskType
  <1>i. Analysis!Idle \in TaskType /\ Analysis!Idle.pc = "idle" BY DEF Analysis!Idle, TaskType, Analysis!Gone
  <1>1. UNCHANGED <<mem, saved, lock, sent, charged, now>>
        BY DEF Analysis!Answered, Analysis!TimesOut, Analysis!Ends, Analysis!bot
  <1>2. CASE task[m].pc = "fetch" /\ \E result \in {"complete", "unavailable"} : Analysis!Freed(m, Analysis!Got(m, result))
        BY <1>1, <1>2, <1>g, Settles
  <1>3. CASE Analysis!Answered(m) BY <1>2, <1>3 DEF Analysis!Answered
  <1>4. CASE Analysis!TimesOut(m) BY <1>2, <1>4 DEF Analysis!TimesOut
  <1>5. CASE Analysis!Ends(m)
    <2>1. CASE task[m].pc = "fetch"
      <3>1. Analysis!Freed(m, Analysis!Idle) BY <1>5, <2>1 DEF Analysis!Ends
      <3> QED BY <1>1, <1>i, <2>1, <3>1, Settles
    <2>2. CASE task[m].pc # "fetch"
      <3> DEFINE e == [task[m] EXCEPT !.pc = "idle"]
      <3>1. task' = [task EXCEPT ![m] = e] /\ task[m].pc \in {"result", "brain"} /\ UNCHANGED queue
            BY <1>5, <2>2 DEF Analysis!Ends, Analysis!Becomes
      <3>2. e \in TaskType /\ e.pc = "idle" BY <1>t DEF TaskType
      <3> HIDE DEF e
      <3>3. TaskInv(m)' BY <1>t, <3>1, <3>2 DEF TaskInv, Submits, MediaTypes
      <3>4. e.pc \notin Submits /\ task[m].pc # "queued" BY <3>1, <3>2 DEF Submits
      <3>5. \A s \in {mem', saved'} \cup lock'.before : Good(s, now, Spent(task, sent), charged) BY <1>1, MediaFacts
      <3>6. lock' = [of |-> lock'.of, before |-> lock'.before] /\ lock'.of \subseteq Attached BY <1>1, <1>t DEF MediaTypes
      <3> QED BY <1>1, <3>1, <3>2, <3>3, <3>4, <3>5, <3>6, TurnSteps
    <2> QED BY <2>1, <2>2
  <1> QED BY <1>3, <1>4, <1>5

LEMMA MediaRecords ==
  ASSUME MediaInv, NEW m \in Attached, Analysis!Records(m) \/ Analysis!Recorded(m) \/ Analysis!Answers(m)
  PROVE  MediaInv'
  <1> DEFINE row == mem.rows[m]
  <1>t. MediaTypes /\ task[m] \in TaskType /\ row \in Analysis!Rows BY MediaFacts
  <1>r. Typed(mem, now) /\ mem.rows \in [Attached -> Analysis!Rows] /\ mem.global \in Bucket(now) /\ Pays(mem.global, charged, 0)
        BY MediaFacts DEF Good, Typed
  <1>e. \A pc \in {"idle", "record", "brain"} :
          [task[m] EXCEPT !.pc = pc] \in TaskType /\ [task[m] EXCEPT !.pc = pc].pc = pc
        BY <1>t DEF TaskType
  (* What a turn needs to go on.                                           *)
  <1>s. ASSUME NEW pc \in {"idle", "record", "brain"}, Analysis!Becomes(m, pc), UNCHANGED <<sent, charged, now, queue>>,
               task[m].pc \in {"result", "record", "brain"},
               lock' = [of |-> lock'.of, before |-> lock'.before], lock'.of \subseteq Attached, pc = "record" => lock'.of = {m},
               \A s \in {mem', saved'} \cup lock'.before : Good(s, now, Spent(task, sent), charged),
               UNCHANGED <<lock, mem>> \/ Analysis!Free \/ task[m].pc = "record"
        PROVE  MediaInv'
    <2> DEFINE e == [task[m] EXCEPT !.pc = pc]
    <2>1. e \in TaskType /\ e.pc = pc BY <1>e
    <2>2. task' = [task EXCEPT ![m] = e] BY <1>s DEF Analysis!Becomes
    <2> HIDE DEF e
    <2>3. TaskInv(m)' BY <1>s, <1>t, <2>1, <2>2 DEF TaskInv, Submits, MediaTypes
    <2>4. e.pc \notin Submits /\ task[m].pc # "queued" BY <1>s, <2>1 DEF Submits
    <2> QED BY <1>s, <2>1, <2>2, <2>3, <2>4, TurnSteps
  <1>1. CASE Analysis!Records(m)
    <2> DEFINE x == [row EXCEPT !.analysis = task[m].result, !.of = task[m].rev]
    <2>1. /\ task[m].pc = "result" /\ row.rev = task[m].rev /\ Analysis!Free /\ Analysis!Becomes(m, "record")
          /\ lock' = [of |-> {m}, before |-> {mem}] /\ UNCHANGED <<now, saved, queue, sent, charged>>
          BY <1>1 DEF Analysis!Records, Analysis!Current, Analysis!Row
    <2>2. mem' = [mem EXCEPT !.rows[m].analysis = task[m].result, !.rows[m].of = task[m].rev]
          BY <1>1 DEF Analysis!Records
    <2>3. mem' = [mem EXCEPT !.rows = [mem.rows EXCEPT ![m] = x]] BY <1>r, <2>2 DEF Typed
    <2>4. x \in Analysis!Rows /\ x.rev = row.rev /\ x.of = row.rev
      <3>1. task[m].result \in {"none", "submitted", "budget", "complete", "unavailable"} BY <1>t DEF TaskType
      <3>2. task[m].rev \in {0} \cup Revs BY <1>t DEF TaskType
      <3> QED BY <1>t, <2>1, <3>1, <3>2 DEF Analysis!Rows, Revs, Analysis!Gone
    <2> HIDE DEF x
    <2>5. mem' = [rows |-> [mem.rows EXCEPT ![m] = x], global |-> mem.global, senders |-> mem.senders]
          BY <1>r, <2>3 DEF Typed
    <2>6. Good(mem', now, Spent(task, sent), charged)
      <3>1. x.rev = mem.rows[m].rev /\ x.of \in {x.rev, mem.rows[m].of} /\ (mem.rows[m].rev # 0 \/ x.rev = 0) BY <2>4
      <3> HIDE DEF row
      <3> QED BY <1>r, <2>4, <2>5, <3>1, NewRow
    <2>7. \A s \in {mem', saved'} \cup lock'.before : Good(s, now, Spent(task, sent), charged) BY <2>1, <2>6, MediaFacts
    <2>8. lock' = [of |-> lock'.of, before |-> lock'.before] /\ lock'.of \subseteq Attached /\ lock'.of = {m} BY <2>1
    <2> QED BY <1>s, <2>1, <2>7, <2>8
  <1>2. CASE Analysis!Recorded(m)
    <2>1. /\ task[m].pc = "record" /\ lock' = [of |-> {}, before |-> {}] /\ saved' \in {saved, mem}
          /\ UNCHANGED <<now, mem, queue, sent, charged>> /\ (Analysis!Becomes(m, "brain") \/ Analysis!Becomes(m, "idle"))
          BY <1>2 DEF Analysis!Recorded, Analysis!Nobody
    <2>2. \A s \in {mem', saved'} \cup lock'.before : Good(s, now, Spent(task, sent), charged)
      <3>1. lock'.before = {} BY <2>1
      <3> QED BY <2>1, <3>1, MediaFacts
    <2>3. lock' = [of |-> lock'.of, before |-> lock'.before] /\ lock'.of \subseteq Attached BY <2>1
    <2> QED BY <1>s, <2>1, <2>2, <2>3
  <1>3. CASE Analysis!Answers(m)
    <2>1. task[m].pc = "brain" /\ Analysis!Becomes(m, "idle") /\ UNCHANGED <<now, saved, lock, queue, sent, charged>>
          BY <1>3 DEF Analysis!Answers
    <2>2. lock' = [of |-> lock'.of, before |-> lock'.before] /\ lock'.of \subseteq Attached BY <1>t, <2>1 DEF MediaTypes
    <2>3. CASE UNCHANGED mem
      <3>1. \A s \in {mem', saved'} \cup lock'.before : Good(s, now, Spent(task, sent), charged) BY <2>1, <2>3, MediaFacts
      <3> QED BY <1>s, <2>1, <2>2, <2>3, <3>1
    <2>4. CASE Analysis!Free /\ mem' = [mem EXCEPT !.rows[m].rev = Analysis!Gone]
      <3> DEFINE x == [row EXCEPT !.rev = 0]
      <3>1. x \in Analysis!Rows /\ x.rev = 0 BY <1>t DEF Analysis!Rows, Analysis!Gone
      <3>2. mem' = [rows |-> [mem.rows EXCEPT ![m] = x], global |-> mem.global, senders |-> mem.senders]
            BY <1>r, <2>4 DEF Typed, Analysis!Gone
      <3> HIDE DEF x, row
      <3>3. Good(mem', now, Spent(task, sent), charged) BY <1>r, <3>1, <3>2, NewRow
      <3>4. \A s \in {mem', saved'} \cup lock'.before : Good(s, now, Spent(task, sent), charged)
            BY <2>1, <3>3, MediaFacts
      <3> QED BY <1>s, <2>1, <2>2, <2>4, <3>4
    <2> QED BY <1>3, <2>3, <2>4 DEF Analysis!Answers
  <1> QED BY <1>1, <1>2, <1>3

LEMMA MediaChanges == ASSUME MediaInv, NEW m \in Attached, Analysis!Changes(m) PROVE MediaInv'
  <1> DEFINE row == mem.rows[m]
  <1>t. MediaTypes /\ task[m] \in TaskType /\ row \in Analysis!Rows BY MediaFacts
  <1>r. Typed(mem, now) /\ mem.rows \in [Attached -> Analysis!Rows] /\ mem.global \in Bucket(now) /\ Pays(mem.global, charged, 0)
        BY MediaFacts DEF Good, Typed
  <1>1. Analysis!Free /\ row.rev # 0 /\ task' = Analysis!Aborts(m) /\ UNCHANGED <<now, saved, lock, queue, sent, charged>>
        BY DEF Analysis!Changes, Analysis!Row, Analysis!Gone
  <1>2. PICK x \in Analysis!Rows :
           /\ mem' = [rows |-> [mem.rows EXCEPT ![m] = x], global |-> mem.global, senders |-> mem.senders]
           /\ x.rev = 0 \/ x.rev > row.rev
    <2>1. CASE row.rev < MaxRev /\ mem' = [mem EXCEPT !.rows[m] = [rev |-> @.rev + 1, analysis |-> "none", of |-> Analysis!Gone]]
      <3> DEFINE x == [rev |-> row.rev + 1, analysis |-> "none", of |-> 0]
      <3>1. row.rev \in 1 .. MaxRev /\ MaxRev \in Nat
            BY <1>1, <1>t, BudgetAssumption DEF Analysis!Rows, Analysis!Revs, Analysis!Gone
      <3>2. row.rev + 1 \in 1 .. MaxRev /\ row.rev + 1 > row.rev BY <2>1, <3>1
      <3>3. x \in Analysis!Rows BY <3>2 DEF Analysis!Rows, Analysis!Revs, Analysis!Gone
      <3>4. mem' = [rows |-> [mem.rows EXCEPT ![m] = x], global |-> mem.global, senders |-> mem.senders]
            BY <1>r, <2>1 DEF Typed, Analysis!Gone
      <3> QED BY <3>2, <3>3, <3>4
    <2>2. CASE mem' = [mem EXCEPT !.rows[m].rev = Analysis!Gone]
      <3> DEFINE x == [row EXCEPT !.rev = 0]
      <3>1. x \in Analysis!Rows /\ x.rev = 0 BY <1>t DEF Analysis!Rows, Analysis!Gone
      <3>2. mem' = [rows |-> [mem.rows EXCEPT ![m] = x], global |-> mem.global, senders |-> mem.senders]
            BY <1>r, <2>2 DEF Typed, Analysis!Gone
      <3> HIDE DEF x
      <3> QED BY <3>1, <3>2
    <2> QED BY <2>1, <2>2 DEF Analysis!Changes, Analysis!Row
  <1>3. Good(mem', now, Spent(task, sent), charged)
    <2>1. mem.rows[m].rev # 0 /\ (x.rev = 0 \/ x.rev > mem.rows[m].rev) BY <1>1, <1>2
    <2> QED BY <1>2, <1>r, <2>1, NewRow
  <1>4. task' \in [Attached -> TaskType] /\ \A n \in Attached : task'[n].pc = task[n].pc /\ task'[n].rev = task[n].rev
    <2>1. CASE task' = task BY <1>t, <2>1 DEF MediaTypes
    <2>2. CASE task' = [task EXCEPT ![m].aborted = TRUE]
      <3> DEFINE e == [task[m] EXCEPT !.aborted = TRUE]
      <3>1. e \in TaskType /\ e.pc = task[m].pc /\ e.rev = task[m].rev BY <1>t DEF TaskType
      <3>2. task' = [task EXCEPT ![m] = e] BY <2>2
      <3> HIDE DEF e
      <3> QED BY <1>t, <3>1, <3>2 DEF MediaTypes
    <2> QED BY <1>1, <2>1, <2>2 DEF Analysis!Aborts
  <1>5. queue' \in Seq(Attached) /\ WaitsInQueue' BY <1>1, <1>4, QueueStays
  <1>6. \A n \in Attached : TaskInv(n)'
    <2> SUFFICES ASSUME NEW n \in Attached PROVE TaskInv(n)' OBVIOUS
    <2>1. task[n].pc \notin {"begin", "record"} BY <1>1, OneWrites
    <2> QED BY <1>1, <1>4, <2>1, TaskStays
  <1>7. \A s \in {mem', saved'} \cup lock'.before : Good(s, now, Spent(task, sent), charged) BY <1>1, <1>3, MediaFacts
  <1>8. lock' = [of |-> lock'.of, before |-> lock'.before] /\ lock'.of \subseteq Attached BY <1>1, <1>t DEF MediaTypes
  <1>9. now' \in Nat /\ now <= now' BY <1>1, <1>t DEF MediaTypes
  <1> QED BY <1>1, <1>4, <1>5, <1>6, <1>7, <1>8, <1>9, MediaSteps

(* Saves, ticks and the worker leave the turns alone; a crash ends them.   *)
LEMMA MediaRest ==
  ASSUME MediaInv,
         \/ Analysis!Saves \/ Analysis!Crashes \/ Analysis!Ticks \/ UNCHANGED Analysis!vars
         \/ \E m \in Attached, r \in Analysis!Revs :
              Analysis!WorkerReads(m, r) \/ Analysis!ProviderAnswers(m, r) \/ Analysis!Disconnects(m, r)
  PROVE  MediaInv'
  <1>t. MediaTypes BY MediaFacts
  <1>1. ASSUME UNCHANGED <<mem, lock, task, queue, sent, charged>>, saved' \in {saved, mem}, now' \in Nat, now <= now'
        PROVE  MediaInv'
    <2>1. queue' \in Seq(Attached) /\ WaitsInQueue' BY <1>1, QueueStays
    <2>2. \A n \in Attached : TaskInv(n)' BY <1>1, TaskStays
    <2>3. \A s \in {mem', saved'} \cup lock'.before : Good(s, now, Spent(task, sent), charged) BY <1>1, MediaFacts
    <2>4. lock' = [of |-> lock'.of, before |-> lock'.before] /\ lock'.of \subseteq Attached /\ task' \in [Attached -> TaskType]
          BY <1>1, <1>t DEF MediaTypes
    <2> QED BY <1>1, <2>1, <2>2, <2>3, <2>4, MediaSteps
  <1>2. now \in Nat /\ now <= now BY <1>t DEF MediaTypes
  <1>3. CASE Analysis!Saves BY <1>1, <1>2, <1>3 DEF Analysis!Saves, Analysis!jobs
  <1>4. CASE Analysis!Ticks BY <1>1, <1>2, <1>4 DEF Analysis!Ticks, Analysis!jobs, Analysis!bot
  <1>5. CASE UNCHANGED Analysis!vars BY <1>1, <1>2, <1>5 DEF Analysis!vars, Analysis!jobs, Analysis!bot
  <1>6. CASE \E m \in Attached, r \in Analysis!Revs :
               Analysis!WorkerReads(m, r) \/ Analysis!ProviderAnswers(m, r) \/ Analysis!Disconnects(m, r)
    <2> PICK m \in Attached, r \in Analysis!Revs :
               Analysis!WorkerReads(m, r) \/ Analysis!ProviderAnswers(m, r) \/ Analysis!Disconnects(m, r) BY <1>6
    <2>1. UNCHANGED <<now, mem, saved, lock, task, queue, sent, charged>>
          BY DEF Analysis!WorkerReads, Analysis!ProviderAnswers, Analysis!Disconnects, Analysis!Worker,
                 Analysis!jobs, Analysis!bot
    <2> QED BY <1>1, <1>2, <2>1
  <1>7. CASE Analysis!Crashes
    <2>1. PICK s \in {saved} \cup {mem : m \in lock.of} : mem' = Analysis!Restored(s) /\ saved' = s
          BY <1>7 DEF Analysis!Crashes
    <2>2. mem' \in {saved, mem} /\ saved' = mem' BY <2>1 DEF Analysis!Restored
    <2>3. lock' = [of |-> {}, before |-> {}] /\ queue' = <<>> /\ UNCHANGED <<now, sent, charged>>
          /\ task' = [m \in Attached |-> Analysis!Idle]
          BY <1>7 DEF Analysis!Crashes, Analysis!Nobody
    <2>4. Analysis!Idle \in TaskType /\ Analysis!Idle.pc = "idle" BY DEF Analysis!Idle, TaskType, Analysis!Gone
    <2>5. task' \in [Attached -> TaskType] /\ \A n \in Attached : task'[n].pc = "idle" BY <2>3, <2>4
    <2>6. \A n \in Attached : TaskInv(n)' BY <2>5 DEF TaskInv, Submits
    <2>7. queue' \in Seq(Attached) /\ WaitsInQueue' BY <2>3 DEF WaitsInQueue
    <2>8. \A s2 \in {mem', saved'} \cup lock'.before : Good(s2, now, Spent(task, sent), charged)
      <3>1. lock'.before = {} BY <2>3
      <3> QED BY <2>2, <3>1, MediaFacts
    <2>9. lock' = [of |-> lock'.of, before |-> lock'.before] /\ lock'.of \subseteq Attached BY <2>3
    <2>10. now' \in Nat /\ now <= now' BY <1>2, <2>3
    <2>11. \A n \in Attached : task'[n].pc \in Submits => task[n].pc \in Submits /\ task'[n].rev = task[n].rev
           BY <2>5 DEF Submits
    <2> QED BY <2>3, <2>5, <2>6, <2>7, <2>8, <2>9, <2>10, <2>11, MediaSteps
  <1> QED BY <1>3, <1>4, <1>5, <1>6, <1>7

LEMMA MediaNext == MediaInv /\ [Analysis!Next]_(Analysis!vars) => MediaInv'
  <1> SUFFICES ASSUME MediaInv, [Analysis!Next]_(Analysis!vars) PROVE MediaInv' OBVIOUS
  <1>1. CASE \E m \in Attached : Analysis!Steps(m)
    <2> PICK m \in Attached : Analysis!Steps(m) BY <1>1
    <2> QED BY MediaReuses, MediaBegins, MediaBeginSaved, MediaRuns, MediaCalls, MediaRecords DEF Analysis!Steps
  <1>2. CASE \E m \in Attached : Analysis!BeginUnsaved(m) \/ Analysis!TimesOut(m) \/ Analysis!Changes(m)
        BY <1>2, MediaBeginUnsaved, MediaCalls, MediaChanges
  <1>3. CASE ~(\E m \in Attached : Analysis!Steps(m) \/ Analysis!BeginUnsaved(m) \/ Analysis!TimesOut(m) \/ Analysis!Changes(m))
        BY <1>3, MediaRest DEF Analysis!Next, Analysis!Works
  <1> QED BY <1>1, <1>2, <1>3

LEMMA MediaInductive == Analysis!Spec => []MediaInv
  <1>1. Analysis!Init => MediaInv BY MediaInit
  <1>2. MediaInv /\ [Analysis!Next]_(Analysis!vars) => MediaInv' BY MediaNext
  <1> QED BY <1>1, <1>2, PTL DEF Analysis!Spec

(***************************************************************************)
(* The files of a revision leave the bot at most once, whatever fails, is  *)
(* retried or restarts: whatever state may come back after a failed write  *)
(* or a crash has the mark of what was sent, or a later revision           *)
(* (t3ams/index.mjs 846-847).                                              *)
(***************************************************************************)
THEOREM FilesLeaveOnce == Analysis!Spec => []SubmittedOnce
  <1>1. MediaInv => SubmittedOnce BY DEF MediaInv, SubmittedOnce, Analysis!SubmittedOnce, Revs
  <1> QED BY <1>1, MediaInductive, PTL

(***************************************************************************)
(* In no stretch of time is more charged than a full bucket and what it    *)
(* gained meanwhile pay for, over any number of crashes and failed writes: *)
(* whatever state may come back has a bucket that paid for all that was    *)
(* charged (t3ams-media-budget.mjs 1-4).                                   *)
(***************************************************************************)
THEOREM TheBudgetIsNeverExceeded == Analysis!Spec => []SpendIsBounded
  <1>1. MediaInv => SpendIsBounded
    <2> SUFFICES ASSUME MediaInv PROVE SpendIsBounded OBVIOUS
    <2>1. ASSUME NEW a \in 0 .. MaxTicks, NEW b \in 0 .. MaxTicks, a <= b
          PROVE  Cardinality({k \in Attached \X Analysis!Revs : charged[k[1]][k[2]] \in a .. b}) * GlobalPeriod
                 <= GlobalCap * GlobalPeriod + (b - a)
      <3>1. a \in Nat /\ b \in Nat BY BudgetAssumption
      <3>2. Cardinality(Between(charged, a, b)) * GlobalPeriod <= Full + (b - a) BY <2>1, <3>1 DEF MediaInv, HistoryInv
      <3> QED BY <3>2 DEF Between, Pairs, Revs, Full
    <2>2. \A S : Analysis!Cardinality(S) = Cardinality(S) BY DEF Analysis!Cardinality, Cardinality
    <2> QED BY <2>1, <2>2 DEF SpendIsBounded, Analysis!SpendIsBounded
  <1> QED BY <1>1, MediaInductive, PTL

-----------------------------------------------------------------------------
(* The statement store of the sandbox. Whoever is subscribed has all that  *)
(* is alive, because a dump and the statements that are taken later leave  *)
(* no gap, and what has expired never comes back.                          *)

Subscribed == {"active", "again"}
OneInSlot(held) ==
  \A s, t \in held :
    s # t /\ ChannelOf[s] # None /\ SignerOf[s] = SignerOf[t] => ChannelOf[s] # ChannelOf[t]
HasAll(sub, alive) == sub.state \in Subscribed => alive \subseteq sub.got

StoreInv ==
  /\ seconds \in Nat
  /\ statements \subseteq Statements /\ delayed \subseteq Statements
  /\ nodeSubs \in [Listeners -> [state : {"none", "held", "held, closed", "active", "again", "closed"},
                               got : SUBSET Statements]]
  /\ OneInSlot(statements)
  /\ \A n \in Listeners : HasAll(nodeSubs[n], Node!Alive)

LEMMA NotLater == \A a, b \in Nat : ~(a >= b) => a < b
  OBVIOUS

(* What a step may do to the statements and to who has them.               *)
LEMMA StoreFrame ==
  ASSUME StoreInv, seconds' = seconds, statements' \subseteq Statements, delayed' \subseteq Statements,
         nodeSubs' \in [Listeners -> [state : {"none", "held", "held, closed", "active", "again", "closed"},
                                    got : SUBSET Statements]],
         OneInSlot(statements)',
         \A n \in Listeners : nodeSubs'[n].state \in Subscribed =>
           \A s \in statements' : seconds < ExpiryOf[s][1] => s \in nodeSubs'[n].got
  PROVE  StoreInv'
  <1>1. seconds \in Nat /\ \A s \in Statements : ExpiryOf[s][1] \in Nat BY ExpiryAssumption DEF StoreInv
  <1>2. \A s \in Node!Alive' : s \in statements' /\ ~(seconds >= ExpiryOf[s][1]) BY DEF Node!Alive, Node!Expired
  <1>6. ASSUME NEW s \in Statements, ~(seconds >= ExpiryOf[s][1]) PROVE seconds < ExpiryOf[s][1]
    <2>1. seconds \in Nat /\ ExpiryOf[s][1] \in Nat BY <1>1
    <2> QED BY <1>6, <2>1, NotLater
  <1>3. \A s \in Node!Alive' : s \in statements' /\ seconds < ExpiryOf[s][1] BY <1>2, <1>6
  <1>4. \A n \in Listeners : HasAll(nodeSubs'[n], Node!Alive') BY <1>3 DEF HasAll
  <1>5. (\A n \in Listeners : HasAll(nodeSubs[n], Node!Alive))' BY <1>4
  <1> QED BY <1>1, <1>5 DEF StoreInv

LEMMA AliveIs ==
  ASSUME StoreInv
  PROVE  /\ Node!Alive \subseteq statements
         /\ \A s \in statements : s \in Node!Alive <=> seconds < ExpiryOf[s][1]
  <1>1. seconds \in Nat /\ \A s \in statements : ExpiryOf[s][1] \in Nat BY ExpiryAssumption DEF StoreInv
  <1> QED BY <1>1 DEF Node!Alive, Node!Expired

LEMMA AliveInSlot ==
  ASSUME StoreInv
  PROVE  OneInSlot(Node!Alive)
  BY AliveIs DEF StoreInv, OneInSlot

(* A statement that is taken: what was in its slot goes.                   *)
LEMMA TakenInSlot ==
  ASSUME StoreInv, NEW s \in Statements
  PROVE  OneInSlot((Node!Alive \ (Node!Previous(s) \cup Node!Surplus(s))) \cup {s})
  <1>1. OneInSlot(Node!Alive) BY AliveInSlot
  <1> DEFINE after == (Node!Alive \ (Node!Previous(s) \cup Node!Surplus(s))) \cup {s}
  <1>2. ASSUME NEW t \in Node!Alive \ Node!Previous(s), ChannelOf[s] # None
        PROVE  SignerOf[t] # SignerOf[s] \/ ChannelOf[t] # ChannelOf[s]
        BY <1>2 DEF Node!Previous
  <1>3. ASSUME NEW t \in after, NEW u \in after, t # u, ChannelOf[t] # None, SignerOf[t] = SignerOf[u],
               ChannelOf[t] = ChannelOf[u]
        PROVE  FALSE
    <2>1. CASE t = s BY <1>2, <1>3, <2>1
    <2>2. CASE u = s BY <1>2, <1>3, <2>2
    <2>3. CASE t # s /\ u # s BY <1>1, <1>3, <2>3 DEF OneInSlot
    <2> QED BY <2>1, <2>2, <2>3
  <1> QED BY <1>3 DEF OneInSlot

LEMMA PushedIs ==
  ASSUME StoreInv, NEW s \in Statements
  PROVE  /\ Node!Pushed(s) \in [Listeners -> [state : {"none", "held", "held, closed", "active", "again", "closed"},
                                            got : SUBSET Statements]]
         /\ \A n \in Listeners : Node!Pushed(s)[n].state \in Subscribed =>
              /\ nodeSubs[n].state \in Subscribed /\ nodeSubs[n].got \subseteq Node!Pushed(s)[n].got
              /\ s \in Node!Pushed(s)[n].got
  BY DEF StoreInv, Node!Pushed, Subscribed

LEMMA StoreSubmits ==
  ASSUME StoreInv, NEW s \in Statements, Node!Submits(s), seconds' = seconds, delayed' \subseteq Statements
  PROVE  StoreInv'
  <1>1. Node!Alive \subseteq statements /\ statements \subseteq Statements BY AliveIs DEF StoreInv
  <1>2. CASE Node!Verdict(s) = "new"
    <2> DEFINE after == (Node!Alive \ (Node!Previous(s) \cup Node!Surplus(s))) \cup {s}
    <2>1. statements' = after /\ nodeSubs' = Node!Pushed(s) BY <1>2 DEF Node!Submits
    <2>2. OneInSlot(after) BY TakenInSlot
    <2>3. after \subseteq Statements /\ \A t \in after : t = s \/ t \in Node!Alive BY <1>1
    <2> HIDE DEF after
    <2>4. OneInSlot(statements)' BY <2>1, <2>2
    <2>5. nodeSubs' \in [Listeners -> [state : {"none", "held", "held, closed", "active", "again", "closed"},
                                     got : SUBSET Statements]]
          BY <2>1, PushedIs
    <2>6. ASSUME NEW n \in Listeners, nodeSubs'[n].state \in Subscribed, NEW t \in statements'
          PROVE  t \in nodeSubs'[n].got
      <3>1. /\ nodeSubs[n].state \in Subscribed /\ nodeSubs[n].got \subseteq nodeSubs'[n].got
            /\ s \in nodeSubs'[n].got
            BY <2>1, <2>6, PushedIs
      <3>2. Node!Alive \subseteq nodeSubs[n].got BY <3>1 DEF StoreInv, HasAll
      <3> QED BY <2>1, <2>3, <2>6, <3>1, <3>2
    <2> QED BY <2>1, <2>3, <2>4, <2>5, <2>6, StoreFrame
  <1>3. CASE Node!Verdict(s) # "new"
    <2>1. statements' = Node!Alive /\ nodeSubs' = nodeSubs BY <1>3 DEF Node!Submits
    <2>2. OneInSlot(statements)' BY <2>1, AliveInSlot
    <2>3. \A n \in Listeners : nodeSubs[n].state \in Subscribed => Node!Alive \subseteq nodeSubs[n].got
          BY DEF StoreInv, HasAll
    <2>4. nodeSubs' \in [Listeners -> [state : {"none", "held", "held, closed", "active", "again", "closed"},
                                     got : SUBSET Statements]]
          BY <2>1 DEF StoreInv
    <2>5. \A n \in Listeners : nodeSubs'[n].state \in Subscribed => \A t \in statements' : t \in nodeSubs'[n].got
          BY <2>1, <2>3
    <2> QED BY <1>1, <2>1, <2>2, <2>4, <2>5, StoreFrame
  <1> QED BY <1>2, <1>3

(* Subscriptions come and go; the statements stay, or those that are       *)
(* alive.                                                                  *)
LEMMA StoreKeeps ==
  ASSUME StoreInv, seconds' = seconds, delayed' \subseteq Statements,
         statements' \in {statements, Node!Alive, {}},
         nodeSubs' \in [Listeners -> [state : {"none", "held", "held, closed", "active", "again", "closed"},
                                    got : SUBSET Statements]],
         \A n \in Listeners : nodeSubs'[n].state \in Subscribed => nodeSubs'[n] = nodeSubs[n] \/ nodeSubs'[n].got = Node!Alive
  PROVE  StoreInv'
  <1>1. Node!Alive \subseteq statements /\ statements \subseteq Statements BY AliveIs DEF StoreInv
  <1>2. statements' \subseteq statements BY <1>1
  <1>3. OneInSlot(statements)' BY <1>2 DEF StoreInv, OneInSlot
  <1>4. ASSUME NEW n \in Listeners, nodeSubs'[n].state \in Subscribed, NEW s \in statements', seconds < ExpiryOf[s][1]
        PROVE  s \in nodeSubs'[n].got
    <2>1. s \in Node!Alive BY <1>2, <1>4, AliveIs
    <2> QED BY <1>4, <2>1 DEF StoreInv, HasAll
  <1> QED BY <1>1, <1>2, <1>3, <1>4, StoreFrame

LEMMA StoreStep ==
  ASSUME StoreInv, [Node!Next]_Node!vars
  PROVE  StoreInv'
  <1> DEFINE Type == [Listeners -> [state : {"none", "held", "held, closed", "active", "again", "closed"},
                                  got : SUBSET Statements]]
  <1>1. /\ nodeSubs \in Type /\ delayed \subseteq Statements /\ Node!Alive \subseteq Statements
        /\ \A n \in Listeners : /\ nodeSubs[n].got \subseteq Statements
                              /\ nodeSubs[n] = [state |-> nodeSubs[n].state, got |-> nodeSubs[n].got]
        BY AliveIs DEF StoreInv
  <1>2. ASSUME NEW s \in Statements, Node!Submit(s) PROVE StoreInv'
    <2>1. CASE armed["delay"] > 0
      <3>1. delayed' = delayed \cup {s} /\ UNCHANGED <<statements, nodeSubs, seconds>>
            BY <1>2, <2>1 DEF Node!Submit
      <3> QED BY <1>1, <3>1, StoreKeeps
    <2>2. CASE ~(armed["delay"] > 0)
      <3>1. Node!Submits(s) /\ seconds' = seconds /\ delayed' \subseteq Statements
            BY <1>1, <1>2, <2>2 DEF Node!Submit
      <3> QED BY <3>1, StoreSubmits
    <2> QED BY <2>1, <2>2
  <1>3. ASSUME NEW s \in Statements, Node!DelayedRuns(s) PROVE StoreInv'
    <2>1. Node!Submits(s) /\ seconds' = seconds /\ delayed' \subseteq Statements
          BY <1>1, <1>3 DEF Node!DelayedRuns
    <2> QED BY <2>1, StoreSubmits
  <1>4. ASSUME NEW n \in Listeners, Node!Subscribes(n) PROVE StoreInv'
    <2>1. UNCHANGED <<seconds, delayed>> BY <1>4 DEF Node!Subscribes
    <2>2. CASE armed["holdDump"] > 0
      <3>1. nodeSubs' = [nodeSubs EXCEPT ![n] = [state |-> "held", got |-> {}]] /\ UNCHANGED statements
            BY <1>4, <2>2 DEF Node!Subscribes
      <3>2. nodeSubs' \in Type BY <1>1, <3>1
      <3>3. \A k \in Listeners : nodeSubs'[k].state \in Subscribed => nodeSubs'[k] = nodeSubs[k]
            BY <1>1, <3>1 DEF Subscribed
      <3> QED BY <1>1, <2>1, <3>1, <3>2, <3>3, StoreKeeps
    <2>3. CASE ~(armed["holdDump"] > 0)
      <3>1. nodeSubs' = [nodeSubs EXCEPT ![n] = [state |-> "active", got |-> Node!Alive]] /\ statements' = Node!Alive
            BY <1>4, <2>3 DEF Node!Subscribes, Node!Dump
      <3>2. nodeSubs' \in Type BY <1>1, <3>1
      <3>3. \A k \in Listeners : nodeSubs'[k] = nodeSubs[k] \/ nodeSubs'[k].got = Node!Alive BY <1>1, <3>1
      <3> QED BY <1>1, <2>1, <3>1, <3>2, <3>3, StoreKeeps
    <2> QED BY <2>2, <2>3
  <1>5. ASSUME NEW n \in Listeners, Node!Unsubscribes(n) PROVE StoreInv'
    <2>1. PICK end \in {"closed", "held, closed"} : nodeSubs' = [nodeSubs EXCEPT ![n].state = end]
          BY <1>5 DEF Node!Unsubscribes
    <2>2. UNCHANGED <<statements, seconds, delayed>> BY <1>5 DEF Node!Unsubscribes
    <2>3. nodeSubs' \in Type BY <1>1, <2>1
    <2>4. \A k \in Listeners : nodeSubs'[k].state \in Subscribed => nodeSubs'[k] = nodeSubs[k]
          BY <1>1, <2>1 DEF Subscribed
    <2> QED BY <1>1, <2>2, <2>3, <2>4, StoreKeeps
  <1>6. ASSUME NEW kind \in Node!Kinds, Node!ClearsFault(kind) PROVE StoreInv'
    <2>1. UNCHANGED <<seconds, delayed>> BY <1>6 DEF Node!ClearsFault
    <2>2. CASE kind = "holdDump"
      <3>1. /\ statements' = Node!Alive
            /\ nodeSubs' = [n \in Listeners |-> IF nodeSubs[n].state \in {"held", "held, closed"}
                              THEN [state |-> IF nodeSubs[n].state = "held" THEN "active" ELSE "again",
                                    got |-> Node!Alive]
                              ELSE nodeSubs[n]]
            BY <1>6, <2>2 DEF Node!ClearsFault, Node!Dump
      <3>2. nodeSubs' \in Type BY <1>1, <3>1
      <3>3. \A n \in Listeners : nodeSubs'[n] = nodeSubs[n] \/ nodeSubs'[n].got = Node!Alive BY <3>1
      <3> QED BY <1>1, <2>1, <3>1, <3>2, <3>3, StoreKeeps
    <2>3. CASE kind # "holdDump"
      <3>1. UNCHANGED <<statements, nodeSubs>> BY <1>6, <2>3 DEF Node!ClearsFault
      <3> QED BY <1>1, <2>1, <3>1, StoreKeeps
    <2> QED BY <2>2, <2>3
  <1>7. CASE Node!Tick
    <2>1. seconds' = seconds + 1 /\ UNCHANGED <<statements, nodeSubs, delayed>> BY <1>7 DEF Node!Tick
    <2>2. seconds \in Nat /\ \A s \in statements : ExpiryOf[s][1] \in Nat BY ExpiryAssumption DEF StoreInv
    <2>3. Node!Alive' \subseteq Node!Alive BY <2>1, <2>2 DEF Node!Alive, Node!Expired
    <2>4. \A n \in Listeners : HasAll(nodeSubs[n], Node!Alive') BY <2>3 DEF StoreInv, HasAll
    <2>5. (\A n \in Listeners : HasAll(nodeSubs[n], Node!Alive))' BY <2>1, <2>4
    <2>6. OneInSlot(statements)'
      <3>1. OneInSlot(statements) BY DEF StoreInv
      <3> QED BY <2>1, <3>1 DEF OneInSlot
    <2>8. seconds' \in Nat BY <2>1, <2>2
    <2>7. statements' \subseteq Statements /\ delayed' \subseteq Statements /\ nodeSubs' \in Type
          BY <1>1, <2>1 DEF StoreInv
    <2> QED BY <2>5, <2>6, <2>7, <2>8 DEF StoreInv
  <1>8. CASE Node!Restarts \/ Node!Resets
    <2>1. /\ UNCHANGED <<seconds, delayed>> /\ nodeSubs' = Node!Dropped /\ statements' \in {statements, {}}
          BY <1>8 DEF Node!Restarts, Node!Resets
    <2>2. nodeSubs' = [n \in Listeners |-> IF nodeSubs[n].state = "none" THEN [state |-> "none", got |-> {}]
                                         ELSE [nodeSubs[n] EXCEPT !.state = "closed"]]
          BY <2>1 DEF Node!Dropped, Node!NoSub
    <2>3. nodeSubs' \in Type BY <1>1, <2>2
    <2>4. \A n \in Listeners : nodeSubs'[n].state \notin Subscribed BY <1>1, <2>2 DEF Subscribed
    <2> QED BY <1>1, <2>1, <2>3, <2>4, StoreKeeps
  <1>9. CASE \/ \E a \in late : Node!LateAnswer(a)
             \/ \E k \in Node!Kinds : Node!SetsFault(k)
             \/ UNCHANGED Node!vars
    <2>1. UNCHANGED <<statements, seconds, nodeSubs, delayed>>
          BY <1>9 DEF Node!LateAnswer, Node!SetsFault, Node!vars
    <2> QED BY <1>1, <2>1, StoreKeeps
  <1> QED BY <1>2, <1>3, <1>4, <1>5, <1>6, <1>7, <1>8, <1>9 DEF Node!Next

LEMMA StoreStarts == Node!Init => StoreInv
  <1> SUFFICES ASSUME Node!Init PROVE StoreInv OBVIOUS
  <1>1. /\ statements = {} /\ seconds = 0 /\ delayed = {}
        /\ nodeSubs = [n \in Listeners |-> [state |-> "none", got |-> {}]]
        BY DEF Node!Init, Node!NoSub
  <1>2. \A n \in Listeners : HasAll(nodeSubs[n], Node!Alive) BY <1>1 DEF HasAll, Subscribed
  <1> QED BY <1>1, <1>2 DEF StoreInv, OneInSlot

(* Whoever is subscribed has all that the store holds and has not expired, *)
(* also when its dump was held back and statements came meanwhile          *)
(* (store-node.mjs:194-221).                                               *)
THEOREM SubscribersMissNothing == Node!Spec => []SubscribersSeeAll
  <1>1. StoreInv /\ [Node!Next]_Node!vars => StoreInv' BY StoreStep
  <1>2. StoreInv => SubscribersSeeAll BY DEF StoreInv, HasAll, Subscribed, SubscribersSeeAll, Node!SubscribersSeeAll
  <1> QED BY StoreStarts, <1>1, <1>2, PTL DEF Node!Spec

(* The expiry of a slot never goes down: what left it for another had      *)
(* expired or has the lower expiry (store-node.mjs:12-18).                 *)
SlotsGrow ==
  \A s \in statements \ statements' : \A t \in statements' :
    SignerOf[s] = SignerOf[t] /\ ChannelOf[s] = ChannelOf[t] /\ ChannelOf[s] # None
      => Node!Before(ExpiryOf[s], ExpiryOf[t]) \/ Node!Expired(s)

LEMMA SubmitsGrow ==
  ASSUME StoreInv, NEW s \in Statements, Node!Submits(s)
  PROVE  SlotsGrow
  <1>1. Node!Alive = {t \in statements : ~Node!Expired(t)} /\ OneInSlot(Node!Alive)
        BY AliveInSlot DEF Node!Alive
  <1>2. CASE Node!Verdict(s) # "new"
    <2>1. statements' = Node!Alive BY <1>2 DEF Node!Submits
    <2> QED BY <1>1, <2>1 DEF SlotsGrow
  <1>3. CASE Node!Verdict(s) = "new"
    <2>1. statements' = (Node!Alive \ (Node!Previous(s) \cup Node!Surplus(s))) \cup {s} BY <1>3 DEF Node!Submits
    <2>2. \A t \in Node!Previous(s) : Node!Before(ExpiryOf[t], ExpiryOf[s])
          BY <1>3 DEF Node!Verdict, Node!Outranks
    <2>3. ASSUME NEW t \in statements \ statements', NEW u \in statements', SignerOf[t] = SignerOf[u],
                 ChannelOf[t] = ChannelOf[u], ChannelOf[t] # None, ~Node!Expired(t)
          PROVE  Node!Before(ExpiryOf[t], ExpiryOf[u])
      <3>1. t \in Node!Alive BY <1>1, <2>3
      <3>2. u = s \/ u \in Node!Alive BY <2>1
      <3>3. u \notin Node!Alive \/ u = s BY <1>1, <2>3, <3>1 DEF OneInSlot
      <3>4. t \in Node!Previous(s) BY <2>3, <3>1, <3>2, <3>3 DEF Node!Previous
      <3> QED BY <2>2, <3>2, <3>3, <3>4
    <2> QED BY <2>3 DEF SlotsGrow
  <1> QED BY <1>2, <1>3

LEMMA GrowStep ==
  ASSUME StoreInv, [Node!Next]_Node!vars
  PROVE  [SlotsGrow]_Node!vars
  <1>1. ASSUME statements' \in {statements, Node!Alive, {}} PROVE SlotsGrow
        BY <1>1 DEF SlotsGrow, Node!Alive
  <1>2. (\E s \in Statements : Node!Submits(s)) => SlotsGrow BY SubmitsGrow
  <1>3. (\E s \in Statements : Node!Submits(s)) \/ statements' \in {statements, Node!Alive, {}}
    <2>1. CASE \E s \in Statements : Node!Submit(s) \/ Node!DelayedRuns(s)
          BY <2>1 DEF Node!Submit, Node!DelayedRuns
    <2>2. CASE \E n \in Listeners : Node!Subscribes(n) \/ Node!Unsubscribes(n)
          BY <2>2 DEF Node!Subscribes, Node!Unsubscribes
    <2>3. CASE \/ \E a \in late : Node!LateAnswer(a)
               \/ \E k \in Node!Kinds : Node!SetsFault(k) \/ Node!ClearsFault(k)
               \/ Node!Tick \/ Node!Restarts \/ Node!Resets \/ UNCHANGED Node!vars
          BY <2>3 DEF Node!LateAnswer, Node!SetsFault, Node!ClearsFault, Node!Tick, Node!Restarts, Node!Resets, Node!vars
    <2> QED BY <2>1, <2>2, <2>3 DEF Node!Next
  <1> QED BY <1>1, <1>2, <1>3

THEOREM SlotsNeverFallBack == Node!Spec => Node!ExpiryGrows
  <1>1. StoreInv /\ [Node!Next]_Node!vars => StoreInv' BY StoreStep
  <1>2. StoreInv /\ [Node!Next]_Node!vars => [SlotsGrow]_Node!vars BY GrowStep
  <1>3. Node!ExpiryGrows <=> [][SlotsGrow]_Node!vars BY DEF SlotsGrow, Node!ExpiryGrows
  <1> QED BY StoreStarts, <1>1, <1>2, <1>3, PTL DEF Node!Spec

-----------------------------------------------------------------------------
(* The guard of an identity. GuardInv: running processes have different    *)
(* ids, and, unless something excuses it, who has created the file is the  *)
(* one whose file is there, likewise the mutex, and who moves the file has *)
(* none of these beside it.                                                *)
Places      == {"new", "off", "open", "write", "serve", "erase", "read", "reread", "remove", "reopen", "bare",
                "lock", "sign", "again", "move", "release", "unlink", "inspect", "oust"}
ChatPlaces  == {"reread", "remove", "reopen", "bare"}
T3amsPlaces == {"lock", "sign", "again", "move", "release", "unlink", "inspect", "oust"}

IsOwner(a) == a \in {"write", "serve", "erase"}
IsCritical(a) == a \in {"sign", "again", "move", "release", "unlink"}
IsRunning(a) == a \notin {"new", "off"}

Held(f, p, unsigned) ==
  /\ f # None /\ f.by = p
  /\ IF unsigned THEN f.text = None /\ ~f.old ELSE f.text = PidOf[p]

GuardType ==
  /\ proc \in [Procs -> [at : Places, saw : Guard!File \cup {None}]]
  /\ pidfile \in Guard!File \cup {None} /\ mutex \in Guard!File \cup {None}

PidsInv  == \A p, q \in Procs : IsRunning(proc[p].at) /\ IsRunning(proc[q].at) /\ PidOf[p] = PidOf[q] => p = q
PlaceInv == \A p \in Procs : /\ proc[p].at \in ChatPlaces => drill.kind = "chat"
                             /\ proc[p].at \in T3amsPlaces => drill.kind = "t3ams"
OwnerInv == \A p \in Procs : IsOwner(proc[p].at) => Held(pidfile, p, proc[p].at = "write")
MutexInv == \A p \in Procs : IsCritical(proc[p].at) => Held(mutex, p, proc[p].at = "sign")
MoveInv  == \A p \in Procs : proc[p].at = "move" => pidfile # None /\ \A q \in Procs : ~IsOwner(proc[q].at)
BareInv  == \A p \in Procs : proc[p].at # "bare"

GuardInv ==
  /\ GuardType /\ PidsInv /\ PlaceInv
  /\ harm = {} => OwnerInv /\ MutexInv /\ MoveInv /\ BareInv

(* A process that has gone to a place, and the others stay.                *)
Went(p, a) ==
  /\ proc' \in [Procs -> [at : Places, saw : Guard!File \cup {None}]]
  /\ proc'[p].at = a /\ \A q \in Procs \ {p} : proc'[q].at = proc[q].at

LEMMA Gone ==
  ASSUME GuardInv, NEW p \in Procs, NEW a \in Places, Guard!Goes(p, a)
  PROVE  Went(p, a)
  BY DEF GuardInv, GuardType, Guard!Goes, Went

LEMMA Judged ==
  ASSUME GuardInv, NEW p \in Procs, NEW a \in Places, NEW f \in Guard!File, Guard!Judges(p, a, f)
  PROVE  Went(p, a)
  BY DEF GuardInv, GuardType, Guard!Judges, Went

LEMMA FilesAreFiles ==
  ASSUME NEW p \in Procs, NEW f \in Guard!File \cup {None}
  PROVE  /\ Guard!Created(p) \in Guard!File /\ Held(Guard!Created(p), p, TRUE)
         /\ Guard!Signed(f, p) \in Guard!File \cup {None}
         /\ Held(f, p, TRUE) => Held(Guard!Signed(f, p), p, FALSE)
         /\ \A q \in Procs \ {p}, u \in BOOLEAN : Held(f, q, u) => Guard!Signed(f, p) = f
  <1>1. Guard!Created(p) \in Guard!File BY DEF Guard!File, Guard!Created
  <1>2. Guard!Created(p) # None BY <1>1, GuardAssumption
  <1>3. Held(Guard!Created(p), p, TRUE) BY <1>2 DEF Held, Guard!Created
  <1>4. ASSUME f # None, f.by = p
        PROVE  Guard!Signed(f, p) \in Guard!File /\ Held(Guard!Signed(f, p), p, FALSE)
    <2>1. f \in Guard!File /\ Guard!Signed(f, p) = [f EXCEPT !.text = PidOf[p]] BY <1>4 DEF Guard!Signed
    <2>2. Guard!Signed(f, p) \in Guard!File /\ Guard!Signed(f, p).by = p /\ Guard!Signed(f, p).text = PidOf[p]
          BY <1>4, <2>1 DEF Guard!File
    <2>3. Guard!Signed(f, p) # None BY <2>2, GuardAssumption
    <2> QED BY <2>2, <2>3 DEF Held
  <1>5. ~(f # None /\ f.by = p) => Guard!Signed(f, p) = f BY DEF Guard!Signed
  <1>6. Held(f, p, TRUE) => f # None /\ f.by = p BY DEF Held
  <1>7. \A q \in Procs \ {p}, u \in BOOLEAN : Held(f, q, u) => f.by # p BY DEF Held
  <1> QED BY <1>1, <1>3, <1>4, <1>5, <1>6, <1>7

LEMMA GuardStarts == Guard!Init => GuardInv
  BY DEF Guard!Init, GuardInv, GuardType, PidsInv, PlaceInv, OwnerInv, MutexInv, MoveInv, BareInv, Places,
         ChatPlaces, T3amsPlaces, IsOwner, IsCritical, IsRunning

(* A file that neither its owner's process id nor a fresh creation         *)
(* protects belongs to no process that runs.                               *)
LEMMA StaleIsNobodys ==
  ASSUME GuardInv, NEW p \in Procs, IsRunning(proc[p].at), NEW q \in Procs, NEW f, NEW u \in BOOLEAN,
         IsRunning(proc[q].at), p # q, Held(f, q, u)
  PROVE  Guard!PidIsAlive(f.text, p) \/ Guard!FreshAndEmpty(f)
  <1>1. CASE u BY <1>1 DEF Held, Guard!FreshAndEmpty
  <1>2. CASE ~u
    <2>1. f.text = PidOf[q] /\ PidOf[q] # PidOf[p] BY <1>2 DEF Held, GuardInv, PidsInv
    <2>2. q \in Guard!Running BY DEF Guard!Running, IsRunning
    <2> QED BY <2>1, <2>2 DEF Guard!PidIsAlive
  <1> QED BY <1>1, <1>2

(* What holds whatever the files are: a process goes on, or is started     *)
(* with an id of its own.                                                  *)
LEMMA PlacesStay ==
  ASSUME GuardInv, NEW p \in Procs, NEW a \in Places, Went(p, a), UNCHANGED drill,
         IsRunning(a) => IsRunning(proc[p].at)
                         \/ \A q \in Procs : IsRunning(proc[q].at) => PidOf[q] # PidOf[p],
         a \in ChatPlaces => drill.kind = "chat", a \in T3amsPlaces => drill.kind = "t3ams",
         pidfile' \in Guard!File \cup {None}, mutex' \in Guard!File \cup {None}
  PROVE  GuardType' /\ PidsInv' /\ PlaceInv'
  <1>1. GuardType' BY DEF GuardType, Went
  <1>2. PidsInv' BY DEF GuardInv, PidsInv, Went
  <1>3. PlaceInv' BY DEF GuardInv, PlaceInv, Went
  <1> QED BY <1>1, <1>2, <1>3

(* A process that only changes its place, to one that claims nothing new.  *)
LEMMA GuardRests ==
  ASSUME GuardInv, NEW p \in Procs, NEW a \in Places, Went(p, a),
         UNCHANGED <<drill, pidfile, mutex>>,
         IsRunning(a) => IsRunning(proc[p].at),
         a \in ChatPlaces => drill.kind = "chat", a \in T3amsPlaces => drill.kind = "t3ams",
         harm' = {} => /\ harm = {}
                       /\ IsOwner(a) => IsOwner(proc[p].at) /\ (a = "write" <=> proc[p].at = "write")
                       /\ IsCritical(a) => IsCritical(proc[p].at) /\ (a = "sign" <=> proc[p].at = "sign")
                       /\ a = "move" => pidfile # None /\ \A q \in Procs \ {p} : ~IsOwner(proc[q].at)
                       /\ a # "bare"
  PROVE  GuardInv'
  <1>1. GuardType' /\ PidsInv' /\ PlaceInv' BY PlacesStay DEF GuardInv, GuardType
  <1>2. ASSUME harm' = {} PROVE OwnerInv' /\ MutexInv' /\ MoveInv' /\ BareInv'
    <2>1. OwnerInv /\ MutexInv /\ MoveInv /\ BareInv BY <1>2 DEF GuardInv
    <2>2. OwnerInv' BY <1>2, <2>1 DEF OwnerInv, Went
    <2>3. MutexInv' BY <1>2, <2>1 DEF MutexInv, Went
    <2>4. MoveInv' BY <1>2, <2>1 DEF MoveInv, Went, IsOwner
    <2>5. BareInv' BY <1>2, <2>1 DEF BareInv, Went
    <2> QED BY <2>2, <2>3, <2>4, <2>5
  <1> QED BY <1>1, <1>2 DEF GuardInv

(* Who has a file, or the mutex, has it alone.                             *)
LEMMA OneHolds ==
  ASSUME GuardInv, harm = {}, NEW p \in Procs, NEW q \in Procs \ {p}
  PROVE  /\ ~(IsOwner(proc[p].at) /\ IsOwner(proc[q].at))
         /\ ~(IsCritical(proc[p].at) /\ IsCritical(proc[q].at))
         /\ pidfile = None => ~IsOwner(proc[q].at) /\ proc[q].at # "move"
         /\ mutex = None => ~IsCritical(proc[q].at)
  BY DEF GuardInv, OwnerInv, MutexInv, MoveInv, Held

LEMMA PidfileCreated ==
  ASSUME GuardInv, NEW p \in Procs, pidfile = None, pidfile' = Guard!Created(p), Went(p, "write"),
         IsRunning(proc[p].at), UNCHANGED <<drill, mutex, harm>>
  PROVE  GuardInv'
  <1>1. pidfile' \in Guard!File /\ Held(pidfile', p, TRUE) BY FilesAreFiles DEF GuardInv, GuardType
  <1>2. "write" \in Places /\ "write" \notin ChatPlaces /\ "write" \notin T3amsPlaces
        BY DEF Places, ChatPlaces, T3amsPlaces
  <1>3. GuardType' /\ PidsInv' /\ PlaceInv' BY <1>1, <1>2, PlacesStay DEF GuardInv, GuardType
  <1>4. ASSUME harm' = {} PROVE OwnerInv' /\ MutexInv' /\ MoveInv' /\ BareInv'
    <2>1. OwnerInv /\ MutexInv /\ MoveInv /\ BareInv /\ harm = {} BY <1>4 DEF GuardInv
    <2>2. OwnerInv' BY <1>1, <2>1, OneHolds DEF OwnerInv, Went
    <2>3. MutexInv' BY <2>1 DEF MutexInv, Went, IsCritical
    <2>4. MoveInv' BY <2>1, OneHolds DEF MoveInv, Went
    <2>5. BareInv' BY <2>1 DEF BareInv, Went
    <2> QED BY <2>2, <2>3, <2>4, <2>5
  <1> QED BY <1>3, <1>4 DEF GuardInv

(* The file is taken away, by its owner or when there is none.             *)
LEMMA PidfileRemoved ==
  ASSUME GuardInv, NEW p \in Procs, NEW a \in {"reopen", "release", "off"}, Went(p, a), pidfile' = None,
         UNCHANGED <<drill, mutex>>, IsRunning(proc[p].at),
         a = "reopen" => drill.kind = "chat", a = "release" => proc[p].at = "move",
         harm' = {} => harm = {} /\ \A q \in Procs \ {p} : ~IsOwner(proc[q].at) /\ proc[q].at # "move"
  PROVE  GuardInv'
  <1>1. a \in Places /\ (a \in ChatPlaces => a = "reopen") /\ (a \in T3amsPlaces => a = "release")
        BY DEF Places, ChatPlaces, T3amsPlaces
  <1>2. a = "release" => drill.kind = "t3ams" BY DEF GuardInv, PlaceInv, T3amsPlaces
  <1>3. GuardType' /\ PidsInv' /\ PlaceInv' BY <1>1, <1>2, PlacesStay DEF GuardInv, GuardType
  <1>4. ASSUME harm' = {} PROVE OwnerInv' /\ MutexInv' /\ MoveInv' /\ BareInv'
    <2>1. OwnerInv /\ MutexInv /\ MoveInv /\ BareInv BY <1>4 DEF GuardInv
    <2>2. OwnerInv' BY <1>4 DEF OwnerInv, Went, IsOwner
    <2>3. MutexInv' BY <2>1 DEF MutexInv, Went, IsCritical
    <2>4. MoveInv' BY <1>4 DEF MoveInv, Went
    <2>5. BareInv' BY <2>1 DEF BareInv, Went
    <2> QED BY <2>2, <2>3, <2>4, <2>5
  <1> QED BY <1>3, <1>4 DEF GuardInv

(* The mutex is created, signed, or taken away.                            *)
LEMMA MutexChanges ==
  ASSUME GuardInv, NEW p \in Procs, NEW a \in {"sign", "again", "lock", "open"}, Went(p, a),
         mutex' \in Guard!File \cup {None}, UNCHANGED <<drill, pidfile>>,
         IsRunning(proc[p].at), drill.kind = "t3ams",
         harm' = {} => /\ harm = {} /\ \A q \in Procs \ {p} : ~IsCritical(proc[q].at)
                       /\ IsCritical(a) => Held(mutex', p, a = "sign")
  PROVE  GuardInv'
  <1>1. a \in Places /\ a \notin ChatPlaces BY DEF Places, ChatPlaces
  <1>2. GuardType' /\ PidsInv' /\ PlaceInv' BY <1>1, PlacesStay DEF GuardInv, GuardType
  <1>3. ASSUME harm' = {} PROVE OwnerInv' /\ MutexInv' /\ MoveInv' /\ BareInv'
    <2>1. OwnerInv /\ MutexInv /\ MoveInv /\ BareInv BY <1>3 DEF GuardInv
    <2>2. OwnerInv' BY <2>1 DEF OwnerInv, Went, IsOwner
    <2>3. MutexInv' BY <1>3 DEF MutexInv, Went
    <2>4. MoveInv' BY <2>1 DEF MoveInv, Went, IsOwner
    <2>5. BareInv' BY <2>1 DEF BareInv, Went
    <2> QED BY <2>2, <2>3, <2>4, <2>5
  <1> QED BY <1>2, <1>3 DEF GuardInv

(* Where a process is tells of which kind it is.                           *)
LEMMA KindOfPlace ==
  ASSUME GuardInv, NEW p \in Procs
  PROVE  /\ proc[p].at \in {"reread", "remove", "reopen", "bare"} => drill.kind = "chat"
         /\ proc[p].at \in {"lock", "sign", "again", "move", "release", "unlink", "inspect", "oust"}
              => drill.kind = "t3ams"
         /\ proc[p].at \in Places /\ pidfile \in Guard!File \cup {None} /\ mutex \in Guard!File \cup {None}
  BY DEF GuardInv, GuardType, PlaceInv, ChatPlaces, T3amsPlaces

LEMMA GuardStartsUp ==
  ASSUME GuardInv, NEW p \in Procs, Guard!Start(p)
  PROVE  GuardInv'
  <1>1. Guard!Goes(p, "open") /\ "open" \in Places /\ UNCHANGED <<drill, pidfile, mutex, harm>>
        BY DEF Guard!Start, Places
  <1>2. Went(p, "open") BY <1>1, Gone
  <1>3. \A q \in Procs : IsRunning(proc[q].at) => PidOf[q] # PidOf[p]
        BY DEF Guard!Start, Guard!Running, IsRunning
  <1>4. GuardType' /\ PidsInv' /\ PlaceInv'
        BY <1>1, <1>2, <1>3, KindOfPlace, PlacesStay DEF ChatPlaces, T3amsPlaces
  <1>5. ASSUME harm' = {} PROVE OwnerInv' /\ MutexInv' /\ MoveInv' /\ BareInv'
    <2>1. OwnerInv /\ MutexInv /\ MoveInv /\ BareInv BY <1>1, <1>5 DEF GuardInv
    <2>2. OwnerInv' BY <1>1, <1>2, <2>1 DEF OwnerInv, Went, IsOwner
    <2>3. MutexInv' BY <1>1, <1>2, <2>1 DEF MutexInv, Went, IsCritical
    <2>4. MoveInv' BY <1>1, <1>2, <2>1 DEF MoveInv, Went, IsOwner
    <2>5. BareInv' BY <1>1, <1>2, <2>1 DEF BareInv, Went
    <2> QED BY <2>2, <2>3, <2>4, <2>5
  <1> QED BY <1>4, <1>5 DEF GuardInv

LEMMA GuardOpens ==
  ASSUME GuardInv, NEW p \in Procs, Guard!Open(p) \/ Guard!Reopens(p)
  PROVE  GuardInv'
  <1>1. /\ proc[p].at \in {"open", "reopen"} /\ UNCHANGED <<drill, mutex, harm>>
        /\ \/ pidfile = None /\ pidfile' = Guard!Created(p) /\ Guard!Goes(p, "write")
           \/ UNCHANGED pidfile /\ \E a \in {"read", "off"} : Guard!Goes(p, a)
        BY DEF Guard!Open, Guard!Reopens
  <1>2. {"read", "off", "write"} \subseteq Places BY DEF Places
  <1>3. CASE pidfile = None /\ pidfile' = Guard!Created(p) /\ Guard!Goes(p, "write")
        BY <1>1, <1>2, <1>3, Gone, PidfileCreated DEF IsRunning
  <1>4. ASSUME NEW a \in {"read", "off"}, Guard!Goes(p, a), UNCHANGED pidfile PROVE GuardInv'
    <2>1. Went(p, a) BY <1>2, <1>4, Gone
    <2> QED BY <1>1, <1>2, <1>4, <2>1, GuardRests DEF IsRunning, IsOwner, IsCritical, ChatPlaces, T3amsPlaces
  <1> QED BY <1>1, <1>3, <1>4

LEMMA GuardWrites ==
  ASSUME GuardInv, NEW p \in Procs, Guard!WritePid(p)
  PROVE  GuardInv'
  <1>1. /\ proc[p].at = "write" /\ Guard!Goes(p, "serve") /\ "serve" \in Places
        /\ pidfile' = Guard!Signed(pidfile, p) /\ UNCHANGED <<drill, mutex, harm>>
        BY DEF Guard!WritePid, Places
  <1>2. Went(p, "serve") BY <1>1, Gone
  <1>3. pidfile' \in Guard!File \cup {None} BY <1>1, KindOfPlace, FilesAreFiles
  <1>4. GuardType' /\ PidsInv' /\ PlaceInv'
        BY <1>1, <1>2, <1>3, KindOfPlace, PlacesStay DEF ChatPlaces, T3amsPlaces, IsRunning
  <1>5. ASSUME harm' = {} PROVE OwnerInv' /\ MutexInv' /\ MoveInv' /\ BareInv'
    <2>1. OwnerInv /\ MutexInv /\ MoveInv /\ BareInv /\ harm = {} BY <1>1, <1>5 DEF GuardInv
    <2>2. Held(pidfile, p, TRUE) BY <1>1, <2>1 DEF OwnerInv, IsOwner
    <2>3. Held(pidfile', p, FALSE) BY <1>1, <2>2, KindOfPlace, FilesAreFiles
    <2>4. \A q \in Procs \ {p} : ~IsOwner(proc[q].at) BY <1>1, <2>1, OneHolds DEF IsOwner
    <2>5. OwnerInv' BY <1>2, <2>3, <2>4 DEF OwnerInv, Went
    <2>6. MutexInv' BY <1>1, <1>2, <2>1 DEF MutexInv, Went, IsCritical
    <2>7. MoveInv' BY <1>1, <1>2, <2>1 DEF MoveInv, Went, IsOwner
    <2>8. BareInv' BY <1>1, <1>2, <2>1 DEF BareInv, Went
    <2> QED BY <2>5, <2>6, <2>7, <2>8
  <1> QED BY <1>4, <1>5 DEF GuardInv

(* The chat bot's start.                                                   *)
LEMMA GuardChats ==
  ASSUME GuardInv, NEW p \in Procs, Guard!ChatReads(p) \/ Guard!Rereads(p)
  PROVE  GuardInv'
  <1>1. drill.kind = "chat" /\ proc[p].at \in {"read", "reread"} /\ UNCHANGED <<drill, pidfile, mutex>>
        BY KindOfPlace DEF Guard!ChatReads, Guard!Rereads
  <1>2. {"off", "bare", "reread", "remove"} \subseteq Places BY DEF Places
  <1>3. CASE Guard!StartsBare(p)
    <2>1. Went(p, "bare") /\ harm' # {} BY <1>2, <1>3, Gone DEF Guard!StartsBare, Guard!Harmed
    <2> QED BY <1>1, <1>2, <2>1, GuardRests DEF IsRunning, T3amsPlaces
  <1>4. ASSUME NEW a \in {"off", "reread", "remove"}, Went(p, a), UNCHANGED harm PROVE GuardInv'
        BY <1>1, <1>2, <1>4, GuardRests DEF IsRunning, IsOwner, IsCritical, T3amsPlaces
  <1>5. CASE Guard!ChatReads(p) /\ ~Guard!StartsBare(p)
    <2>1. pidfile \in Guard!File /\ UNCHANGED harm
          /\ (Guard!Goes(p, "off") \/ Guard!Judges(p, "reread", pidfile))
          BY <1>5, KindOfPlace DEF Guard!ChatReads
    <2> QED BY <1>2, <1>4, <2>1, Gone, Judged
  <1>6. CASE Guard!Rereads(p) /\ ~Guard!StartsBare(p)
    <2>1. UNCHANGED harm /\ (Guard!Goes(p, "remove") \/ Guard!Goes(p, "off")) BY <1>6 DEF Guard!Rereads
    <2> QED BY <1>2, <1>4, <2>1, Gone
  <1> QED BY <1>3, <1>5, <1>6

LEMMA GuardRemoves ==
  ASSUME GuardInv, NEW p \in Procs, Guard!Removes(p)
  PROVE  GuardInv'
  <1>1. /\ proc[p].at = "remove" /\ Guard!Goes(p, "reopen") /\ "reopen" \in Places /\ pidfile' = None
        /\ UNCHANGED <<drill, mutex>> /\ drill.kind = "chat"
        /\ harm' = IF Guard!Robbed(pidfile) THEN harm \cup {"robbed"} ELSE harm
        BY KindOfPlace DEF Guard!Removes, Guard!Harmed, Places
  <1>2. Went(p, "reopen") BY <1>1, Gone
  <1>3. ASSUME harm' = {}, NEW q \in Procs \ {p} PROVE ~IsOwner(proc[q].at) /\ proc[q].at # "move"
    <2>1. harm = {} /\ ~Guard!Robbed(pidfile) BY <1>1, <1>3
    <2>2. IsOwner(proc[q].at) => pidfile # None /\ pidfile.by = q /\ q \in Guard!Running
          BY <2>1 DEF GuardInv, OwnerInv, Held, IsOwner, Guard!Running
    <2>3. proc[q].at # "move" BY <1>1, KindOfPlace
    <2> QED BY <2>1, <2>2, <2>3 DEF Guard!Robbed
  <1>4. harm' = {} => harm = {} BY <1>1
  <1>5. IsRunning(proc[p].at) BY <1>1 DEF IsRunning
  <1> QED BY <1>1, <1>2, <1>3, <1>4, <1>5, PidfileRemoved

(* The start of the T3ams bot, and the takeover.                           *)
LEMMA GuardReads ==
  ASSUME GuardInv, NEW p \in Procs, Guard!Reads(p) \/ Guard!GivesUp(p)
  PROVE  GuardInv'
  <1>1. /\ drill.kind = "t3ams" /\ IsRunning(proc[p].at) /\ UNCHANGED <<drill, pidfile, mutex, harm>>
        /\ \E a \in {"off", "open", "lock"} : Guard!Goes(p, a)
        BY DEF Guard!Reads, Guard!GivesUp, IsRunning
  <1>2. PICK a \in {"off", "open", "lock"} : Guard!Goes(p, a) BY <1>1
  <1>3. a \in Places BY DEF Places
  <1>4. Went(p, a) BY <1>2, <1>3, Gone
  <1> QED BY <1>1, <1>3, <1>4, GuardRests DEF IsOwner, IsCritical, ChatPlaces

LEMMA GuardReadsAgain ==
  ASSUME GuardInv, NEW p \in Procs, Guard!ReadsAgain(p)
  PROVE  GuardInv'
  <1>1. /\ proc[p].at = "again" /\ drill.kind = "t3ams" /\ UNCHANGED <<drill, pidfile, mutex, harm>>
        /\ \/ \E a \in {"off", "release"} : Guard!Goes(p, a)
           \/ /\ pidfile # None /\ ~Guard!PidIsAlive(pidfile.text, p) /\ ~Guard!FreshAndEmpty(pidfile)
              /\ Guard!Goes(p, "move")
        BY KindOfPlace DEF Guard!ReadsAgain, Guard!LooksAgain
  <1>2. {"off", "release", "move"} \subseteq Places BY DEF Places
  <1>3. CASE \E a \in {"off", "release"} : Guard!Goes(p, a)
    <2>1. PICK a \in {"off", "release"} : Guard!Goes(p, a) BY <1>3
    <2>2. Went(p, a) BY <1>2, <2>1, Gone
    <2> QED BY <1>1, <1>2, <2>2, GuardRests DEF IsRunning, IsOwner, IsCritical, ChatPlaces
  <1>4. CASE pidfile # None /\ ~Guard!PidIsAlive(pidfile.text, p) /\ ~Guard!FreshAndEmpty(pidfile)
             /\ Guard!Goes(p, "move")
    <2>1. Went(p, "move") BY <1>2, <1>4, Gone
    <2>2. ASSUME harm = {}, NEW q \in Procs \ {p} PROVE ~IsOwner(proc[q].at)
      <3>1. IsOwner(proc[q].at) => Held(pidfile, q, proc[q].at = "write") /\ IsRunning(proc[q].at)
            BY <2>2 DEF GuardInv, OwnerInv, IsOwner, IsRunning
      <3>2. IsRunning(proc[p].at) BY <1>1 DEF IsRunning
      <3> QED BY <1>4, <3>1, <3>2, StaleIsNobodys
    <2> QED BY <1>1, <1>2, <1>4, <2>1, <2>2, GuardRests DEF IsRunning, IsOwner, IsCritical, ChatPlaces
  <1> QED BY <1>1, <1>3, <1>4

LEMMA GuardMoves ==
  ASSUME GuardInv, NEW p \in Procs, Guard!Moves(p)
  PROVE  GuardInv'
  <1>1. /\ proc[p].at = "move" /\ Guard!Goes(p, "release") /\ "release" \in Places /\ pidfile' = None
        /\ UNCHANGED <<drill, mutex, harm>>
        BY DEF Guard!Moves, Places
  <1>2. Went(p, "release") BY <1>1, Gone
  <1>3. ASSUME harm = {}, NEW q \in Procs \ {p} PROVE ~IsOwner(proc[q].at) /\ proc[q].at # "move"
    <2>1. ~IsOwner(proc[q].at) BY <1>1, <1>3 DEF GuardInv, MoveInv
    <2>2. ~IsCritical(proc[q].at) BY <1>1, <1>3, OneHolds DEF IsCritical
    <2> QED BY <2>1, <2>2 DEF IsCritical
  <1> QED BY <1>1, <1>2, <1>3, PidfileRemoved DEF IsRunning

LEMMA GuardLocks ==
  ASSUME GuardInv, NEW p \in Procs,
         Guard!Locks(p) \/ Guard!Inspects(p) \/ Guard!Releases(p)
  PROVE  GuardInv'
  <1>1. /\ UNCHANGED <<drill, pidfile, harm>> /\ proc[p].at \in {"lock", "inspect", "release"}
        /\ \/ mutex = None /\ mutex' = Guard!Created(p) /\ Guard!Goes(p, "sign")
           \/ UNCHANGED mutex /\ (\E a \in {"inspect", "lock", "oust", "open"} : Guard!Goes(p, a))
           \/ UNCHANGED mutex /\ Guard!Goes(p, "unlink") /\ proc[p].at = "release"
        BY DEF Guard!Locks, Guard!Inspects, Guard!Releases
  <1>2. {"sign", "inspect", "lock", "oust", "open", "unlink"} \subseteq Places BY DEF Places
  <1>3. drill.kind = "t3ams" /\ IsRunning(proc[p].at) BY <1>1, KindOfPlace DEF IsRunning
  <1>4. CASE mutex = None /\ mutex' = Guard!Created(p) /\ Guard!Goes(p, "sign")
    <2>1. Went(p, "sign") BY <1>2, <1>4, Gone
    <2>2. mutex' \in Guard!File /\ Held(mutex', p, TRUE) BY <1>4, KindOfPlace, FilesAreFiles
    <2>3. harm = {} => \A q \in Procs \ {p} : ~IsCritical(proc[q].at) BY <1>4, OneHolds
    <2> QED BY <1>1, <1>3, <2>1, <2>2, <2>3, MutexChanges
  <1>5. ASSUME UNCHANGED mutex, NEW a \in {"inspect", "lock", "oust", "open"}, Guard!Goes(p, a) PROVE GuardInv'
    <2>1. Went(p, a) BY <1>2, <1>5, Gone
    <2> QED BY <1>1, <1>2, <1>3, <1>5, <2>1, GuardRests DEF IsOwner, IsCritical, ChatPlaces
  <1>6. CASE UNCHANGED mutex /\ Guard!Goes(p, "unlink") /\ proc[p].at = "release"
    <2>1. Went(p, "unlink") BY <1>2, <1>6, Gone
    <2> QED BY <1>1, <1>2, <1>3, <1>6, <2>1, GuardRests DEF IsOwner, IsCritical, ChatPlaces
  <1> QED BY <1>1, <1>4, <1>5, <1>6

LEMMA GuardSigns ==
  ASSUME GuardInv, NEW p \in Procs, Guard!Signs(p)
  PROVE  GuardInv'
  <1>1. /\ proc[p].at = "sign" /\ Guard!Goes(p, "again") /\ "again" \in Places
        /\ mutex' = Guard!Signed(mutex, p) /\ UNCHANGED <<drill, pidfile, harm>>
        BY DEF Guard!Signs, Places
  <1>2. Went(p, "again") BY <1>1, Gone
  <1>3. drill.kind = "t3ams" /\ IsRunning(proc[p].at) /\ mutex \in Guard!File \cup {None}
        BY <1>1, KindOfPlace DEF IsRunning
  <1>4. mutex' \in Guard!File \cup {None} /\ (Held(mutex, p, TRUE) => Held(mutex', p, FALSE))
        BY <1>1, <1>3, FilesAreFiles
  <1>5. harm = {} => Held(mutex, p, TRUE) BY <1>1 DEF GuardInv, MutexInv, IsCritical
  <1>6. harm = {} => \A q \in Procs \ {p} : ~IsCritical(proc[q].at) BY <1>1, OneHolds DEF IsCritical
  <1> QED BY <1>1, <1>2, <1>3, <1>4, <1>5, <1>6, MutexChanges

LEMMA GuardOusts ==
  ASSUME GuardInv, NEW p \in Procs, Guard!Ousts(p) \/ Guard!Unlinks(p)
  PROVE  GuardInv'
  <1>1. /\ mutex' = None /\ UNCHANGED <<drill, pidfile>>
        /\ \/ proc[p].at = "oust" /\ Guard!Goes(p, "lock")
              /\ harm' = IF Guard!Robbed(mutex) THEN harm \cup {"robbed"} ELSE harm
           \/ proc[p].at = "unlink" /\ Guard!Goes(p, "open") /\ UNCHANGED harm
        BY DEF Guard!Ousts, Guard!Unlinks, Guard!Harmed
  <1>2. drill.kind = "t3ams" /\ IsRunning(proc[p].at) BY <1>1, KindOfPlace DEF IsRunning
  <1>3. "lock" \in Places /\ "open" \in Places BY DEF Places
  <1>4. PICK a \in {"lock", "open"} : Went(p, a) BY <1>1, <1>3, Gone
  <1>5. ~IsCritical(a) BY DEF IsCritical
  <1>6. ASSUME harm' = {}, NEW q \in Procs \ {p} PROVE ~IsCritical(proc[q].at)
    <2>1. harm = {} BY <1>1, <1>6
    <2>2. CASE proc[p].at = "unlink" BY <2>1, <2>2, OneHolds DEF IsCritical
    <2>3. CASE proc[p].at = "oust"
      <3>1. ~Guard!Robbed(mutex) BY <1>1, <1>6, <2>3
      <3>2. IsCritical(proc[q].at) => mutex # None /\ mutex.by = q /\ q \in Guard!Running
            BY <2>1 DEF GuardInv, MutexInv, Held, IsCritical, Guard!Running
      <3> QED BY <3>1, <3>2 DEF Guard!Robbed
    <2> QED BY <1>1, <2>2, <2>3
  <1>7. harm' = {} => harm = {} BY <1>1
  <1> QED BY <1>1, <1>2, <1>4, <1>5, <1>6, <1>7, MutexChanges

(* The end of a process, and time.                                         *)
LEMMA GuardEnds ==
  ASSUME GuardInv, NEW p \in Procs, Guard!Stops(p) \/ Guard!Dies(p)
  PROVE  GuardInv'
  <1>1. /\ IsRunning(proc[p].at) /\ UNCHANGED <<drill, pidfile, mutex, harm>>
        /\ \/ Guard!Goes(p, "off")
           \/ Guard!Goes(p, "erase") /\ proc[p].at = "serve"
        BY DEF Guard!Stops, Guard!Dies, Guard!Running, IsRunning
  <1>2. "off" \in Places /\ "erase" \in Places BY DEF Places
  <1>3. CASE Guard!Goes(p, "off")
        BY <1>1, <1>2, <1>3, Gone, GuardRests DEF IsRunning, IsOwner, IsCritical, ChatPlaces, T3amsPlaces
  <1>4. CASE Guard!Goes(p, "erase") /\ proc[p].at = "serve"
        BY <1>1, <1>2, <1>4, Gone, GuardRests DEF IsOwner, IsCritical, ChatPlaces, T3amsPlaces
  <1> QED BY <1>1, <1>3, <1>4

LEMMA GuardErases ==
  ASSUME GuardInv, NEW p \in Procs, Guard!Erases(p)
  PROVE  GuardInv'
  <1>1. /\ proc[p].at = "erase" /\ Guard!Goes(p, "off") /\ "off" \in Places /\ pidfile' = None
        /\ UNCHANGED <<drill, mutex, harm>>
        BY DEF Guard!Erases, Places
  <1>2. Went(p, "off") BY <1>1, Gone
  <1>3. ASSUME harm = {}, NEW q \in Procs \ {p} PROVE ~IsOwner(proc[q].at) /\ proc[q].at # "move"
    <2>1. ~IsOwner(proc[q].at) BY <1>1, <1>3, OneHolds DEF IsOwner
    <2>2. proc[q].at # "move" BY <1>1, <1>3 DEF GuardInv, MoveInv, IsOwner
    <2> QED BY <2>1, <2>2
  <1> QED BY <1>1, <1>2, <1>3, PidfileRemoved DEF IsRunning

LEMMA GuardAges ==
  ASSUME GuardInv, Guard!PidfileAges \/ Guard!MutexAges
  PROVE  GuardInv'
  <1>1. ASSUME NEW f \in Guard!File \cup {None}, Guard!GrowsOld(f)
        PROVE  [f EXCEPT !.old = TRUE] \in Guard!File /\ [f EXCEPT !.old = TRUE] # None
    <2>1. f \in Guard!File BY <1>1 DEF Guard!GrowsOld
    <2>2. [f EXCEPT !.old = TRUE] \in Guard!File BY <2>1 DEF Guard!File
    <2> QED BY <2>2, GuardAssumption
  <1>2. CASE Guard!PidfileAges
    <2>1. /\ UNCHANGED <<drill, mutex, proc>> /\ pidfile' = [pidfile EXCEPT !.old = TRUE]
          /\ harm' = IF pidfile.by \in Guard!Running THEN harm \cup {"stalled"} ELSE harm
          /\ pidfile' \in Guard!File /\ pidfile' # None
          BY <1>1, <1>2 DEF GuardInv, GuardType, Guard!PidfileAges, Guard!Stalled, Guard!Harmed
    <2>2. ASSUME harm' = {} PROVE OwnerInv' /\ MutexInv' /\ MoveInv' /\ BareInv'
      <3>1. OwnerInv /\ MutexInv /\ MoveInv /\ BareInv /\ pidfile.by \notin Guard!Running
            BY <2>1, <2>2 DEF GuardInv
      <3>2. \A q \in Procs : ~IsOwner(proc[q].at) BY <3>1 DEF OwnerInv, Held, IsOwner, Guard!Running
      <3> QED BY <2>1, <3>1, <3>2 DEF OwnerInv, MutexInv, MoveInv, BareInv
    <2> QED BY <2>1, <2>2 DEF GuardInv, GuardType, PidsInv, PlaceInv
  <1>3. CASE Guard!MutexAges
    <2>1. /\ UNCHANGED <<drill, pidfile, proc>> /\ mutex' = [mutex EXCEPT !.old = TRUE]
          /\ harm' = IF mutex.by \in Guard!Running THEN harm \cup {"stalled"} ELSE harm
          /\ mutex' \in Guard!File
          BY <1>1, <1>3 DEF GuardInv, GuardType, Guard!MutexAges, Guard!Stalled, Guard!Harmed
    <2>2. ASSUME harm' = {} PROVE OwnerInv' /\ MutexInv' /\ MoveInv' /\ BareInv'
      <3>1. OwnerInv /\ MutexInv /\ MoveInv /\ BareInv /\ mutex.by \notin Guard!Running
            BY <2>1, <2>2 DEF GuardInv
      <3>2. \A q \in Procs : ~IsCritical(proc[q].at) BY <3>1 DEF MutexInv, Held, IsCritical, Guard!Running
      <3> QED BY <2>1, <3>1, <3>2 DEF OwnerInv, MutexInv, MoveInv, BareInv
    <2> QED BY <2>1, <2>2 DEF GuardInv, GuardType, PidsInv, PlaceInv
  <1> QED BY <1>2, <1>3

LEMMA GuardStep == GuardInv /\ [Guard!Next]_Guard!vars => GuardInv'
  <1> SUFFICES ASSUME GuardInv, [Guard!Next]_Guard!vars PROVE GuardInv' OBVIOUS
  <1>1. CASE UNCHANGED Guard!vars
        BY <1>1 DEF Guard!vars, GuardInv, GuardType, PidsInv, PlaceInv, OwnerInv, MutexInv, MoveInv, BareInv
  <1>2. ASSUME NEW p \in Procs, Guard!Takes(p) PROVE GuardInv'
        BY <1>2, GuardStartsUp, GuardOpens, GuardWrites, GuardEnds, GuardErases DEF Guard!Takes
  <1>3. ASSUME NEW p \in Procs, Guard!Chat(p) PROVE GuardInv'
        BY <1>3, GuardChats, GuardRemoves, GuardOpens DEF Guard!Chat
  <1>4. ASSUME NEW p \in Procs, Guard!Takeover(p) PROVE GuardInv'
        BY <1>4, GuardReads, GuardReadsAgain, GuardMoves, GuardLocks, GuardSigns, GuardOusts DEF Guard!Takeover
  <1>5. CASE Guard!PidfileAges \/ Guard!MutexAges BY <1>5, GuardAges
  <1> QED BY <1>1, <1>2, <1>3, <1>4, <1>5 DEF Guard!Next

(* However many processes are started for an identity, crash, stop and     *)
(* take over what the dead left behind, at most one serves it, but for the *)
(* three excuses that InstanceGuard names (index.mjs:2496-2498;            *)
(* t3ams/index.mjs:4257-4259, 4326-4334).                                  *)
THEOREM IdentityIsServedOnce == Guard!Spec => []OneServes
  <1>1. Guard!Init => GuardInv BY GuardStarts
  <1>2. GuardInv /\ [Guard!Next]_Guard!vars => GuardInv' BY GuardStep
  <1>3. GuardInv => OneServes
    <2> SUFFICES ASSUME GuardInv, harm = {} PROVE Cardinality(Guard!Serving) <= 1
        BY DEF OneServes, Guard!OneServes, Guard!Cardinality, Cardinality
    <2>1. \A p \in Guard!Serving : p \in Procs /\ pidfile.by = p
          BY DEF Guard!Serving, GuardInv, OwnerInv, BareInv, Held, IsOwner
    <2>2. Guard!Serving \subseteq {pidfile.by} BY <2>1
    <2>3. IsFiniteSet({pidfile.by}) /\ Cardinality({pidfile.by}) = 1 BY FS_Singleton
    <2> QED BY <2>2, <2>3, FS_Subset
  <1> QED BY <1>1, <1>2, <1>3, PTL DEF Guard!Spec

-----------------------------------------------------------------------------
(* The registration. Nothing is known of a claim beyond what the files say *)
(* of it, so ClaimInv relates the three: as long as no excuse was used, a  *)
(* claim that is open is the one that the record names, or the newest one, *)
(* whose answer is on its way to a client.                                 *)
Excuses == {"overwritten", "outdated", "raced", "insisted", "unanswered"}

(* A username and a mark need a claim; only a persona's record is marked.  *)
RecordOK(r) ==
  /\ r.status \in {"none", "minted"} => r.name = 0
  /\ r.needs => r.status = "attested" /\ ~Names!IsBot

(* What a client does, and at which of its steps.                          *)
DoesOK(c) ==
  /\ c.at \in {"bearer", "enroll", "redeem", "claim", "posted"} => c.does \in {"register", "again"}
  /\ c.does = "register" => c.copy.status = "minted"
  /\ c.does = "again" =>
       \/ c.copy.status = "attested"
       \/ c.copy.status = "claimed" /\ Names!IsBot
  /\ c.does \in {"edit", "status"} => Names!IsBot
  /\ c.does = "verify" => ~Names!IsBot
  /\ c.at = "edit" => c.does = "edit"

NumbersInv ==
  /\ RecordOK(record) /\ record.name <= count /\ people \notin filed
  /\ \A p \in Clients : /\ RecordOK(client[p].copy) /\ DoesOK(client[p])
                        /\ client[p].copy.name <= count /\ client[p].number <= count

(* A claim that is open is saved, or its answer is on its way.             *)
ClaimsInv ==
  /\ \A p, q \in Clients : client[p].at = "posted" /\ client[q].at = "posted" => p = q
  /\ \A p \in Clients : client[p].at = "posted" =>
       /\ client[p].number = count /\ count > 0 /\ Names!Open \subseteq {count} /\ record.name # count
       /\ \A q \in Clients : client[q].copy.name # count
  /\ (\A p \in Clients : client[p].at # "posted") => Names!Open \subseteq {record.name}

(* What was attested is not queued any more.                               *)
SettledOK(r) == r.status = "attested" => r.name \notin filed
SettledInv == SettledOK(record) /\ \A p \in Clients : SettledOK(client[p].copy)

(* What a client was told still holds in the one respect it acts on.       *)
ToldOK(c) ==
  /\ c.at = "told" /\ c.answer => c.copy.name \notin filed
  /\ c.at = "claim" \/ (c.at = "told" /\ ~c.answer) =>
       (c.does = "again" /\ c.copy.status = "attested" => c.copy.name \notin Names!Open)
ToldInv == \A p \in Clients : ToldOK(client[p])

ClaimInv == Names!TypeOK /\ NumbersInv /\ (blame = {} => ClaimsInv /\ SettledInv /\ ToldInv)

LEMMA ClaimInit == Names!Init => ClaimInv
  BY DEF Names!Init, ClaimInv, Names!TypeOK, NumbersInv, ClaimsInv, SettledInv, ToldInv, SettledOK, ToldOK, RecordOK,
         DoesOK, Names!NoName, Names!Idle, Names!Record, Names!Status, Names!Client, Names!Open

(* One claim at most is open, as what is open is one number.               *)
LEMMA OpenIsOne ==
  ASSUME ClaimInv, blame = {}
  PROVE  /\ \E x \in Nat : Names!Open \subseteq {x}
         /\ people # 0 => filed = {}
  <1>1. \E x \in Nat : Names!Open \subseteq {x}
    <2>1. CASE \E p \in Clients : client[p].at = "posted"
          BY <2>1 DEF ClaimInv, ClaimsInv, Names!TypeOK
    <2>2. CASE \A p \in Clients : client[p].at # "posted"
          BY <2>2 DEF ClaimInv, ClaimsInv, Names!TypeOK, Names!Record
    <2> QED BY <2>1, <2>2
  <1>2. people # 0 => filed = {} BY <1>1 DEF ClaimInv, NumbersInv, Names!Open
  <1> QED BY <1>1, <1>2

-----------------------------------------------------------------------------
(* A step of one client that neither posts a claim nor takes its answer:   *)
(* c is the client after it.                                               *)
LEMMA ClientGoesOn ==
  ASSUME ClaimInv, NEW p \in Clients, NEW c \in Names!Client,
         client' = [client EXCEPT ![p] = c],
         c.at # "posted", client[p].at = "posted" => blame' # {},
         c.copy = client[p].copy \/ c.copy = record' \/ c.copy = Names!NoName,
         c.number = client[p].number \/ c.number = 0,
         DoesOK(c), UNCHANGED <<trial, filed, people, count>>,
         record' \in Names!Record, RecordOK(record'), record'.name <= count,
         secret' \in {"none", "fresh", "old"},
         blame \subseteq blame', blame' \subseteq Excuses,
         blame' = {} => record'.name = record.name /\ SettledOK(record') /\ ToldOK(c)
  PROVE  ClaimInv'
  <1>0. /\ client \in [Clients -> Names!Client] /\ count \in Nat /\ record \in Names!Record
        /\ filed \subseteq 1 .. count /\ people \in 0 .. count
        BY DEF ClaimInv, Names!TypeOK
  <1>1. /\ client' \in [Clients -> Names!Client] /\ client'[p] = c
        /\ \A q \in Clients \ {p} : client'[q] = client[q]
        BY <1>0
  <1>2. Names!TypeOK' BY <1>0, <1>1 DEF Names!TypeOK, Excuses
  <1>3. /\ \A r : RecordOK(r)' <=> RecordOK(r)
        /\ \A d : DoesOK(d)' <=> DoesOK(d)
        BY DEF RecordOK, DoesOK, Names!IsBot
  <1>4. NumbersInv'
    <2>1. RecordOK(c.copy) /\ c.copy.name <= count /\ c.number <= count
          BY <1>0 DEF ClaimInv, NumbersInv, Names!NoName, RecordOK
    <2> QED BY <1>1, <1>3, <2>1 DEF ClaimInv, NumbersInv, RecordOK, DoesOK, Names!IsBot
  <1>5. ASSUME blame' = {} PROVE (ClaimsInv /\ SettledInv /\ ToldInv)'
    <2>0. /\ blame = {} /\ ClaimsInv /\ SettledInv /\ ToldInv
          /\ Names!Open' = Names!Open
          BY <1>5 DEF ClaimInv, Names!Open
    <2>1. SettledInv'
          BY <1>1, <1>5, <2>0 DEF SettledInv, SettledOK, Names!NoName
    <2>2. ToldInv'
          BY <1>1, <1>5, <2>0 DEF ToldInv, ToldOK
    <2>3. ClaimsInv'
      <3>1. client[p].at # "posted" /\ record'.name = record.name BY <1>5
      <3>2. ASSUME NEW q \in Clients, client[q].at = "posted"
            PROVE  c.copy.name # count
            BY <2>0, <3>1, <3>2, <1>0 DEF ClaimsInv, Names!NoName
      <3> QED BY <1>1, <2>0, <3>1, <3>2 DEF ClaimsInv
    <2> QED BY <2>1, <2>2, <2>3
  <1> QED BY <1>2, <1>4, <1>5 DEF ClaimInv

(* The world, where claims only leave the queue and the chain.             *)
LEMMA ClaimsLeave ==
  ASSUME ClaimInv, filed' \subseteq filed, Names!Open' \subseteq Names!Open,
         people' \in 0 .. count, people' \notin filed',
         secret' \in {"none", "fresh", "old"}, UNCHANGED <<trial, record, client, count, blame>>
  PROVE  ClaimInv'
  <1>1. Names!TypeOK' BY DEF ClaimInv, Names!TypeOK
  <1>2. NumbersInv' BY DEF ClaimInv, NumbersInv, RecordOK, DoesOK, Names!IsBot
  <1>3. ASSUME blame = {} PROVE (ClaimsInv /\ SettledInv /\ ToldInv)'
    <2>1. ClaimsInv' BY <1>3 DEF ClaimInv, ClaimsInv
    <2>2. SettledInv' BY <1>3 DEF ClaimInv, SettledInv, SettledOK
    <2>3. ToldInv' BY <1>3 DEF ClaimInv, ToldInv, ToldOK
    <2> QED BY <2>1, <2>2, <2>3
  <1> QED BY <1>1, <1>2, <1>3 DEF ClaimInv

-----------------------------------------------------------------------------
(* A claim is posted only by one that knows of no other: its number is     *)
(* new to everyone, and what was open before is not.                       *)
LEMMA PostsKeeps ==
  ASSUME ClaimInv, NEW p \in Clients, Names!Posts(p)
  PROVE  ClaimInv'
  <1> DEFINE c == [client[p] EXCEPT !.at = "posted", !.number = count + 1]
  <1>0. /\ client \in [Clients -> Names!Client] /\ count \in Nat /\ record \in Names!Record
        /\ filed \subseteq 1 .. count /\ people \in 0 .. count /\ client[p].at = "claim"
        BY DEF ClaimInv, Names!TypeOK, Names!Posts
  <1>1. /\ count' = count + 1 /\ filed' = filed \cup {count + 1} /\ people' = people /\ record' = record
        /\ UNCHANGED <<trial, secret>>
        BY DEF Names!Posts
  <1>2. /\ c \in Names!Client /\ c.at = "posted" /\ c.number = count + 1
        /\ c.copy = client[p].copy /\ c.does = client[p].does
    <2>1. client[p] \in Names!Client /\ count + 1 \in Nat BY <1>0
    <2> QED BY <2>1 DEF Names!Client
  <1>3. /\ client' \in [Clients -> Names!Client] /\ client'[p] = c
        /\ \A q \in Clients \ {p} : client'[q] = client[q]
        BY <1>0, <1>1, <1>2 DEF Names!Posts
  <1> HIDE DEF c
  <1>4. blame \subseteq blame' /\ blame' \subseteq Excuses
        BY DEF Names!Posts, ClaimInv, Names!TypeOK, Excuses
  <1>5. Names!TypeOK' BY <1>0, <1>1, <1>3, <1>4 DEF ClaimInv, Names!TypeOK, Excuses
  <1>6. /\ record.name \in Nat /\ record.name <= count
        /\ \A q \in Clients : client[q].copy.name \in Nat /\ client[q].copy.name <= count
                              /\ client[q].number \in Nat /\ client[q].number <= count
        BY <1>0 DEF ClaimInv, NumbersInv, Names!Client, Names!Record
  <1>7. NumbersInv'
    <2>1. DoesOK(c) BY <1>0, <1>2 DEF ClaimInv, NumbersInv, DoesOK
    <2>2. RecordOK(record') /\ record'.name <= count' /\ people' \notin filed'
          BY <1>0, <1>1, <1>6 DEF ClaimInv, NumbersInv
    <2>3. \A q \in Clients : /\ RecordOK(client'[q].copy) /\ DoesOK(client'[q])
                             /\ client'[q].copy.name <= count' /\ client'[q].number <= count'
      <3>1. client'[p].copy.name <= count' /\ client'[p].number <= count' BY <1>1, <1>2, <1>3, <1>6, <1>0
      <3>2. \A q \in Clients \ {p} : client'[q].copy.name <= count' /\ client'[q].number <= count'
            BY <1>1, <1>3, <1>6, <1>0
      <3>3. \A q \in Clients : RecordOK(client'[q].copy) /\ DoesOK(client'[q])
            BY <1>2, <1>3, <2>1 DEF ClaimInv, NumbersInv
      <3> QED BY <3>1, <3>2, <3>3
    <2> QED BY <1>1, <2>2, <2>3 DEF NumbersInv, RecordOK, DoesOK, Names!IsBot
  <1>8. ASSUME blame' = {} PROVE (ClaimsInv /\ SettledInv /\ ToldInv)'
    <2>0. /\ blame = {} /\ ClaimsInv /\ SettledInv /\ ToldInv BY <1>4, <1>8 DEF ClaimInv
    <2>1. /\ ~Names!Raced(p) /\ ~Names!Insists(p) BY <1>8 DEF Names!Posts
    <2>2. /\ \A q \in Clients : client[q].at # "posted"
          /\ client[p].copy.name = record.name
          BY <2>1 DEF Names!Raced
    <2>3. Names!Open \subseteq {record.name} BY <2>0, <2>2 DEF ClaimsInv
    <2>4. record.name \notin Names!Open
      <3>1. CASE client[p].does = "register"
        <4>1. client[p].copy.name = 0 BY <3>1 DEF ClaimInv, NumbersInv, DoesOK, RecordOK
        <4> QED BY <4>1, <2>2, <1>0 DEF Names!Open
      <3>2. CASE client[p].does = "again"
        <4>1. client[p].copy.status = "attested"
              BY <3>2, <2>1 DEF ClaimInv, NumbersInv, DoesOK, Names!Insists
        <4> QED BY <3>2, <4>1, <2>0, <2>2, <1>0 DEF ToldInv, ToldOK
      <3> QED BY <1>0, <3>1, <3>2 DEF ClaimInv, NumbersInv, DoesOK
    <2>5. filed = {} /\ people = 0 BY <2>3, <2>4, <1>0 DEF Names!Open
    <2>6. Names!Open' = {count'} BY <2>5, <1>1 DEF Names!Open
    <2>7. ClaimsInv'
      <3>1. \A q \in Clients : client'[q].at = "posted" => q = p BY <1>3, <2>2
      <3>2. /\ client'[p].at = "posted" /\ client'[p].number = count' /\ count' > 0 /\ record'.name # count'
            BY <1>0, <1>1, <1>2, <1>3, <1>6
      <3>3. \A q \in Clients : client'[q].copy.name # count'
        <4>1. \A q \in Clients : client'[q].copy = client[q].copy BY <1>2, <1>3
        <4> QED BY <4>1, <1>0, <1>1, <1>6
      <3> QED BY <3>1, <3>2, <3>3, <2>6 DEF ClaimsInv
    <2>8. SettledInv' BY <1>0, <1>1, <1>2, <1>3, <1>6, <2>5 DEF SettledInv, SettledOK
    <2>9. ToldInv'
      <3> SUFFICES ASSUME NEW q \in Clients PROVE ToldOK(client[q])'
          BY DEF ToldInv
      <3>1. client'[q].copy = client[q].copy /\ client[q].copy.name # count' BY <1>0, <1>1, <1>2, <1>3, <1>6
      <3>2. client'[q].copy.name \notin filed' /\ client'[q].copy.name \notin Names!Open'
            BY <3>1, <1>1, <2>5, <2>6
      <3> QED BY <3>2 DEF ToldOK
    <2> QED BY <2>7, <2>8, <2>9
  <1> QED BY <1>5, <1>7, <1>8 DEF ClaimInv

(* Its answer arrives: the record names what is open.                      *)
LEMMA ClaimedKeeps ==
  ASSUME ClaimInv, NEW p \in Clients, Names!Claimed(p)
  PROVE  ClaimInv'
  <1> DEFINE r == [name |-> client[p].number, status |-> "claimed", needs |-> FALSE]
             c == [client[p] EXCEPT !.at = "ask", !.does = "wait", !.copy = r, !.number = 0]
  <1>0. /\ client \in [Clients -> Names!Client] /\ count \in Nat /\ record \in Names!Record
        /\ filed \subseteq 1 .. count /\ people \in 0 .. count /\ client[p].at = "posted"
        BY DEF ClaimInv, Names!TypeOK, Names!Claimed
  <1>1. UNCHANGED <<trial, filed, people, count>> /\ record' = r /\ secret' \in {"none", "fresh", "old"}
        BY DEF Names!Claimed, Names!Writes, Names!world, ClaimInv, Names!TypeOK
  <1>2. /\ r \in Names!Record /\ r.name = client[p].number /\ r.status = "claimed" /\ ~r.needs
        BY <1>0 DEF Names!Client, Names!Record, Names!Status
  <1>3. c \in Names!Client /\ c.at = "ask" /\ c.does = "wait" /\ c.number = 0 /\ c.copy = r
        BY <1>0, <1>2 DEF Names!Client
  <1>4. /\ client' \in [Clients -> Names!Client] /\ client'[p] = c
        /\ \A q \in Clients \ {p} : client'[q] = client[q]
        BY <1>0, <1>3 DEF Names!Claimed
  <1>5. blame \subseteq blame' /\ blame' \subseteq Excuses
        BY DEF Names!Claimed, Names!Writes, Names!Blames, ClaimInv, Names!TypeOK, Excuses
  <1>6. Names!TypeOK' BY <1>0, <1>1, <1>2, <1>4, <1>5 DEF ClaimInv, Names!TypeOK, Excuses
  <1>7. NumbersInv'
    <2>1. RecordOK(r) /\ DoesOK(c) /\ r.name <= count /\ c.number <= count
          BY <1>0, <1>2, <1>3 DEF ClaimInv, NumbersInv, RecordOK, DoesOK
    <2>2. \A q \in Clients : /\ RecordOK(client'[q].copy) /\ DoesOK(client'[q])
                             /\ client'[q].copy.name <= count /\ client'[q].number <= count
          BY <1>3, <1>4, <2>1 DEF ClaimInv, NumbersInv
    <2> QED BY <1>1, <2>1, <2>2 DEF ClaimInv, NumbersInv, RecordOK, DoesOK, Names!IsBot
  <1>8. ASSUME blame' = {} PROVE (ClaimsInv /\ SettledInv /\ ToldInv)'
    <2>0. /\ blame = {} /\ ClaimsInv /\ SettledInv /\ ToldInv /\ Names!Open' = Names!Open
          BY <1>1, <1>5, <1>8 DEF ClaimInv, Names!Open
    <2>1. Names!Open \subseteq {r.name} /\ \A q \in Clients : client'[q].at # "posted"
      <3>1. client[p].number = count /\ Names!Open \subseteq {count} BY <1>0, <2>0 DEF ClaimsInv
      <3>2. \A q \in Clients \ {p} : client[q].at # "posted" BY <1>0, <2>0 DEF ClaimsInv
      <3> QED BY <1>2, <1>3, <1>4, <3>1, <3>2
    <2>2. ClaimsInv' BY <1>1, <2>0, <2>1 DEF ClaimsInv
    <2>3. SettledInv' BY <1>1, <1>2, <1>3, <1>4, <2>0 DEF SettledInv, SettledOK
    <2>4. ToldInv' BY <1>1, <1>3, <1>4, <2>0 DEF ToldInv, ToldOK
    <2> QED BY <2>2, <2>3, <2>4
  <1> QED BY <1>6, <1>7, <1>8 DEF ClaimInv

-----------------------------------------------------------------------------
(* The commands: what they read is the record, and what they save is the   *)
(* record's name.                                                          *)
LEMMA EntersOK ==
  ASSUME ClaimInv, NEW p \in Clients, client[p].at = "off",
         NEW at \in {"bearer", "ask", "edit"}, NEW does \in {"register", "again", "wait", "status", "verify", "edit"},
         Names!Enters(p, at, does, record'), UNCHANGED <<trial, filed, people, count, blame>>,
         record' = record \/ (record' = [record EXCEPT !.status = "minted"] /\ record.status = "none"),
         secret' \in {"none", "fresh", "old"},
         at = "bearer" => does \in {"register", "again"},
         does = "register" => record'.status = "minted",
         does = "again" => record'.status = "attested" \/ (record'.status = "claimed" /\ Names!IsBot),
         does \in {"edit", "status"} => Names!IsBot,
         does = "verify" => ~Names!IsBot,
         at = "edit" => does = "edit"
  PROVE  ClaimInv'
  <1> DEFINE c == [at |-> at, does |-> does, copy |-> record', session |-> secret, answer |-> FALSE, number |-> 0]
  <1>0. record \in Names!Record /\ secret \in {"none", "fresh", "old"} /\ count \in Nat BY DEF ClaimInv, Names!TypeOK
  <1>1. record' \in Names!Record /\ record'.name = record.name /\ RecordOK(record')
        BY <1>0 DEF ClaimInv, NumbersInv, Names!Record, Names!Status, RecordOK
  <1>2. c \in Names!Client BY <1>0, <1>1 DEF Names!Client
  <1>3. DoesOK(c) BY DEF DoesOK
  <1>4. client' = [client EXCEPT ![p] = c] BY DEF Names!Enters
  <1>5. record'.name <= count BY <1>1 DEF ClaimInv, NumbersInv
  <1>6. blame' = {} => SettledOK(record') /\ ToldOK(c)
    <2>1. ToldOK(c) BY DEF ToldOK
    <2>2. blame' = {} => SettledOK(record') BY <1>0, <1>1 DEF ClaimInv, SettledInv, SettledOK, Names!Record
    <2> QED BY <2>1, <2>2
  <1>7. blame \subseteq blame' /\ blame' \subseteq Excuses BY DEF ClaimInv, Names!TypeOK, Excuses
  <1>8. c.at # "posted" /\ client[p].at # "posted" /\ c.copy = record' /\ c.number = 0 BY DEF ClaimInv
  <1> HIDE DEF c
  <1> QED BY <1>1, <1>2, <1>3, <1>4, <1>5, <1>6, <1>7, <1>8, ClientGoesOn

(* Likewise a command that only changes the record: the client stays.      *)
LEMMA RecordChanges ==
  ASSUME ClaimInv, NEW p \in Clients, client[p].at = "off", UNCHANGED <<trial, client, filed, people, count, blame, secret>>,
         NEW s \in {"minted", "gone"}, record' = [record EXCEPT !.status = s],
         s = "minted" => record.status = "none", s = "gone" => Names!IsBot
  PROVE  ClaimInv'
  <1>0. /\ record \in Names!Record /\ secret \in {"none", "fresh", "old"} /\ count \in Nat
        /\ client \in [Clients -> Names!Client]
        BY DEF ClaimInv, Names!TypeOK
  <1>1. record' \in Names!Record /\ record'.name = record.name /\ RecordOK(record') /\ record'.status # "attested"
        BY <1>0 DEF ClaimInv, NumbersInv, Names!Record, Names!Status, RecordOK
  <1>2. client' = [client EXCEPT ![p] = client[p]] /\ client[p] \in Names!Client /\ DoesOK(client[p])
        BY <1>0 DEF ClaimInv, NumbersInv
  <1>3. record'.name <= count BY <1>1 DEF ClaimInv, NumbersInv
  <1>4. SettledOK(record') /\ (blame' = {} => ToldOK(client[p]))
        BY <1>1 DEF SettledOK, ClaimInv, ToldInv
  <1>5. blame \subseteq blame' /\ blame' \subseteq Excuses BY DEF ClaimInv, Names!TypeOK, Excuses
  <1> QED BY <1>0, <1>1, <1>2, <1>3, <1>4, <1>5, ClientGoesOn

LEMMA StartsKeeps ==
  ASSUME ClaimInv, NEW p \in Clients, Names!Starts(p)
  PROVE  ClaimInv'
  <1>0. /\ client[p].at = "off" /\ UNCHANGED <<trial, filed, people, count>>
        /\ record \in Names!Record /\ secret \in {"none", "fresh", "old"} /\ RecordOK(record)
        BY DEF Names!Starts, Names!world, ClaimInv, Names!TypeOK, NumbersInv
  <1>1. CASE Names!Creates(p)
    <2>1. /\ record.status = "none" /\ record' = [record EXCEPT !.status = "minted"] /\ record'.status = "minted"
          /\ UNCHANGED <<secret, blame>>
          BY <1>0, <1>1 DEF Names!Creates, Names!Record
    <2>2. CASE Names!Enters(p, "bearer", "register", record')
          BY <1>0, <2>1, <2>2, EntersOK
    <2>3. CASE UNCHANGED client BY <1>0, <2>1, <2>3, RecordChanges
    <2> QED BY <1>1, <2>2, <2>3 DEF Names!Creates
  <1>2. CASE Names!Registers(p)
    <2>0. record' = record /\ UNCHANGED blame BY <1>2 DEF Names!Registers
    <2>1. CASE record.status = "minted" /\ Names!Enters(p, "bearer", "register", record) /\ UNCHANGED secret
          BY <1>0, <2>0, <2>1, EntersOK
    <2>2. CASE record.needs /\ Names!Enters(p, "bearer", "again", record) /\ UNCHANGED secret
          BY <1>0, <2>0, <2>2, EntersOK DEF RecordOK
    <2>3. CASE /\ record.status = "claimed" /\ Names!Enters(p, "ask", "wait", record)
               /\ secret' = IF Names!IsBot THEN "none" ELSE secret
      <3>1. secret' \in {"none", "fresh", "old"} BY <1>0, <2>3
      <3> QED BY <1>0, <2>0, <2>3, <3>1, EntersOK
    <2> QED BY <1>2, <2>1, <2>2, <2>3 DEF Names!Registers
  <1>3. CASE Names!RegistersAgain(p)
    <2>1. /\ Names!IsBot /\ record.name # 0 /\ record.status # "gone" /\ record' = record /\ UNCHANGED <<secret, blame>>
          /\ Names!Enters(p, "bearer", "again", record)
          BY <1>3 DEF Names!RegistersAgain, Names!Exists, Names!file
    <2>2. record.status \in {"claimed", "attested"} BY <1>0, <2>1 DEF RecordOK, Names!Record, Names!Status
    <2> QED BY <1>0, <2>1, <2>2, EntersOK
  <1>4. CASE Names!Configures(p)
    <2>1. /\ Names!IsBot /\ record' = record /\ UNCHANGED <<secret, blame>> /\ Names!Enters(p, "edit", "edit", record)
          BY <1>4 DEF Names!Configures, Names!file
    <2> QED BY <1>0, <2>1, EntersOK
  <1>5. CASE Names!Looks(p)
    <2>1. /\ record' = record /\ UNCHANGED <<secret, blame>>
          /\ Names!Enters(p, "ask", IF Names!IsBot THEN "status" ELSE "verify", record)
          BY <1>5 DEF Names!Looks, Names!file
    <2>2. CASE Names!IsBot BY <1>0, <2>1, <2>2, EntersOK
    <2>3. CASE ~Names!IsBot BY <1>0, <2>1, <2>3, EntersOK
    <2> QED BY <2>2, <2>3
  <1>6. CASE Names!Deletes(p)
    <2>1. /\ Names!IsBot /\ record' = [record EXCEPT !.status = "gone"] /\ UNCHANGED <<client, secret, blame>>
          BY <1>6 DEF Names!Deletes
    <2> QED BY <1>0, <2>1, RecordChanges
  <1> QED BY <1>1, <1>2, <1>3, <1>4, <1>5, <1>6 DEF Names!Starts

-----------------------------------------------------------------------------
(* A client that only moves: to another step, or away.                     *)
LEMMA IdleOK ==
  /\ Names!Idle \in Names!Client /\ DoesOK(Names!Idle) /\ ToldOK(Names!Idle)
  /\ Names!Idle.at = "off" /\ Names!Idle.copy = Names!NoName /\ Names!Idle.number = 0
  BY DEF Names!Idle, Names!NoName, Names!Client, Names!Record, Names!Status, DoesOK, ToldOK

(* What every step of the client p begins with.                            *)
LEMMA ClientIs ==
  ASSUME ClaimInv, NEW p \in Clients
  PROVE  /\ client \in [Clients -> Names!Client] /\ client[p] \in Names!Client /\ client[p].copy \in Names!Record
         /\ record \in Names!Record /\ count \in Nat /\ secret \in {"none", "fresh", "old"} /\ blame \subseteq Excuses
         /\ RecordOK(record) /\ record.name <= count
         /\ RecordOK(client[p].copy) /\ client[p].copy.name <= count /\ DoesOK(client[p])
         /\ blame = {} => SettledOK(record) /\ SettledOK(client[p].copy) /\ ToldOK(client[p])
  <1>1. client \in [Clients -> Names!Client] BY DEF ClaimInv, Names!TypeOK
  <1>2. client[p] \in Names!Client /\ client[p].copy \in Names!Record BY <1>1 DEF Names!Client
  <1> QED BY <1>1, <1>2 DEF ClaimInv, Names!TypeOK, NumbersInv, SettledInv, ToldInv, Excuses

LEMMA GoesKeeps ==
  ASSUME ClaimInv, NEW p \in Clients, client[p].at # "posted",
         NEW a \in {"enroll", "redeem", "claim", "ask"}, NEW s \in {"none", "fresh", "old"},
         client' = [client EXCEPT ![p].at = a, ![p].session = s],
         UNCHANGED <<trial, filed, people, count, record, blame>>, secret' \in {"none", "fresh", "old"},
         a # "ask" => client[p].does \in {"register", "again"},
         a = "claim" => client[p].does # "again" \/ (blame = {} => ToldOK([client[p] EXCEPT !.at = a]))
  PROVE  ClaimInv'
  <1> DEFINE c == [client[p] EXCEPT !.at = a, !.session = s]
  <1>0. c \in Names!Client BY ClientIs DEF Names!Client
  <1>1. client' = [client EXCEPT ![p] = c] BY ClientIs
  <1>2. c.at = a /\ c.copy = client[p].copy /\ c.number = client[p].number /\ c.does = client[p].does /\ c.answer = client[p].answer
        BY ClientIs DEF Names!Client
  <1>3. DoesOK(c) BY <1>2, ClientIs DEF DoesOK
  <1>4. blame' = {} => ToldOK(c)
    <2>1. CASE a = "claim" /\ client[p].does = "again"
      <3>1. [client[p] EXCEPT !.at = a].at = a /\ [client[p] EXCEPT !.at = a].copy = client[p].copy
            /\ [client[p] EXCEPT !.at = a].does = client[p].does
            BY ClientIs DEF Names!Client
      <3> QED BY <1>2, <2>1, <3>1 DEF ToldOK
    <2>2. CASE ~(a = "claim" /\ client[p].does = "again") BY <1>2, <2>2 DEF ToldOK
    <2> QED BY <2>1, <2>2
  <1>5. record' \in Names!Record /\ RecordOK(record') /\ record'.name <= count /\ blame \subseteq blame' /\ blame' \subseteq Excuses
        /\ (blame' = {} => record'.name = record.name /\ SettledOK(record'))
        BY ClientIs
  <1> HIDE DEF c
  <1> QED BY <1>0, <1>1, <1>2, <1>3, <1>4, <1>5, ClientGoesOn

LEMMA LeavesKeeps ==
  ASSUME ClaimInv, NEW p \in Clients, Names!Leaves(p), UNCHANGED <<trial, filed, people, count>>,
         client[p].at = "posted" => blame' # {},
         record' \in Names!Record, RecordOK(record'), record'.name <= count,
         secret' \in {"none", "fresh", "old"}, blame \subseteq blame', blame' \subseteq Excuses,
         blame' = {} => record'.name = record.name /\ SettledOK(record')
  PROVE  ClaimInv'
  <1>1. client' = [client EXCEPT ![p] = Names!Idle] BY DEF Names!Leaves
  <1> QED BY <1>1, IdleOK, ClientGoesOn

(* ... and one that leaves without having changed anything.                *)
LEMMA LeavesAsItWas ==
  ASSUME ClaimInv, NEW p \in Clients, client[p].at # "posted", Names!Leaves(p),
         UNCHANGED <<trial, record, blame, filed, people, count>>, secret' \in {"none", "fresh", "old"}
  PROVE  ClaimInv'
  BY ClientIs, LeavesKeeps

-----------------------------------------------------------------------------
LEMMA EnrollingKeeps ==
  ASSUME ClaimInv, NEW p \in Clients, Names!Enrolling(p)
  PROVE  ClaimInv'
  <1>0. DoesOK(client[p]) /\ secret \in {"none", "fresh", "old"} /\ client[p] \in Names!Client
        /\ client[p].session \in {"none", "fresh", "old"} /\ client \in [Clients -> Names!Client]
        BY ClientIs DEF Names!Client
  <1>1. ASSUME client[p].at \in {"bearer", "enroll", "redeem"}, UNCHANGED <<trial, filed, people, count, record, blame>>, Names!Keeps(p)
        PROVE  ClaimInv'
    <2>1. Names!Onward(p) \in {"claim", "ask"} /\ (Names!Onward(p) = "claim" => client[p].does # "again") BY DEF Names!Onward
    <2>2. client' = [client EXCEPT ![p].at = Names!Onward(p), ![p].session = "fresh"] /\ secret' = "fresh" BY <1>1 DEF Names!Keeps
    <2>3. client[p].does \in {"register", "again"} BY <1>0, <1>1 DEF DoesOK
    <2> QED BY <1>1, <2>1, <2>2, <2>3, GoesKeeps
  <1>2. ASSUME NEW a \in {"enroll", "redeem", "claim", "ask"}, client[p].at \in {"bearer", "enroll"}, Names!Goes(p, a),
               a = "claim" => client[p].does # "again",
               UNCHANGED <<trial, filed, people, count, record, blame, secret>>
        PROVE  ClaimInv'
    <2>1. client' = [client EXCEPT ![p].at = a, ![p].session = client[p].session]
          BY <1>0, <1>2 DEF Names!Goes, Names!Client
    <2>2. client[p].does \in {"register", "again"} BY <1>0, <1>2 DEF DoesOK
    <2> QED BY <1>0, <1>2, <2>1, <2>2, GoesKeeps
  <1>3. CASE Names!HasBearer(p)
    <2>1. Names!Onward(p) \in {"claim", "ask"} /\ (Names!Onward(p) = "claim" => client[p].does # "again") BY DEF Names!Onward
    <2> QED BY <1>2, <1>3, <2>1 DEF Names!HasBearer, Names!file, Names!world
  <1>4. CASE Names!Refreshes(p) BY <1>1, <1>4 DEF Names!Refreshes, Names!world
  <1>5. CASE Names!MustEnroll(p) BY <1>2, <1>5 DEF Names!MustEnroll, Names!file, Names!world
  <1>6. CASE Names!Enrolls(p) BY <1>1, <1>6 DEF Names!Enrolls, Names!world
  <1>7. CASE Names!ProofRefused(p) BY <1>2, <1>7 DEF Names!ProofRefused, Names!file, Names!world
  <1>8. CASE Names!Redeems(p)
    <2>1. client[p].at = "redeem" /\ UNCHANGED <<trial, filed, people, count, record, blame>>
          BY <1>8 DEF Names!Redeems, Names!world
    <2>2. CASE Names!Keeps(p) BY <1>1, <2>1, <2>2
    <2>3. CASE Names!Leaves(p) /\ UNCHANGED secret BY <1>0, <2>1, <2>3, LeavesAsItWas
    <2> QED BY <1>8, <2>2, <2>3 DEF Names!Redeems
  <1> QED BY <1>3, <1>4, <1>5, <1>6, <1>7, <1>8 DEF Names!Enrolling

-----------------------------------------------------------------------------
(* An answer of the chain is about the account, and only one claim can be  *)
(* open: what it has attested is not queued.                               *)
LEMMA AsksKeeps ==
  ASSUME ClaimInv, NEW p \in Clients, Names!Asks(p)
  PROVE  ClaimInv'
  <1> DEFINE a == people # 0 /\ (client[p].does = "verify" => people = record.name)
             c == [client[p] EXCEPT !.at = "told", !.answer = a]
  <1>0. client[p].at = "ask" /\ UNCHANGED <<trial, filed, people, count, record, secret, blame>>
        BY DEF Names!Asks, Names!file, Names!world
  <1>1. client[p] \in Names!Client /\ a \in BOOLEAN BY ClientIs
  <1>2. c \in Names!Client BY <1>1 DEF Names!Client
  <1>3. client' = [client EXCEPT ![p] = c] BY ClientIs DEF Names!Asks
  <1>4. c.at = "told" /\ c.answer = a /\ c.copy = client[p].copy /\ c.does = client[p].does /\ c.number = client[p].number
        BY <1>1 DEF Names!Client
  <1>5. DoesOK(c) BY <1>4, ClientIs DEF DoesOK
  <1>6. ASSUME blame = {} PROVE ToldOK(c)
    <2>1. a => c.copy.name \notin filed BY <1>6, OpenIsOne
    <2>2. ASSUME ~a, c.does = "again", c.copy.status = "attested" PROVE c.copy.name \notin Names!Open
      <3>1. people = 0 BY <1>4, <2>2
      <3>2. c.copy.name \notin filed BY <1>4, <1>6, <2>2, ClientIs DEF SettledOK
      <3> QED BY <3>1, <3>2 DEF Names!Open
    <2> QED BY <1>4, <2>1, <2>2 DEF ToldOK
  <1>7. /\ record' \in Names!Record /\ RecordOK(record') /\ record'.name <= count /\ blame \subseteq blame'
        /\ blame' \subseteq Excuses /\ secret' \in {"none", "fresh", "old"}
        /\ (blame' = {} => record'.name = record.name /\ SettledOK(record') /\ ToldOK(c))
        BY <1>0, <1>6, ClientIs
  <1>8. c.at # "posted" /\ client[p].at # "posted" BY <1>0, <1>4
  <1> HIDE DEF c
  <1> QED BY <1>0, <1>2, <1>3, <1>4, <1>5, <1>7, <1>8, ClientGoesOn

LEMMA ConfirmsKeeps ==
  ASSUME ClaimInv, NEW p \in Clients, client[p].at = "told", client[p].answer,
         NEW r \in Names!Record, Names!Confirms(p, r), Names!Leaves(p) \/ Names!WaitsOn(p),
         UNCHANGED <<trial, filed, people, count>>,
         RecordOK(r), r.name = Names!Mine(p).name, secret' \in {"none", "fresh", "old"}
  PROVE  ClaimInv'
  <1>0. record' = r
        /\ blame' = blame \cup (IF Names!Mine(p).name # record.name THEN {"overwritten"} ELSE {})
                          \cup (IF ~Names!IsBot /\ people = 0 THEN {"outdated"} ELSE {})
        BY DEF Names!Confirms
  <1>1. r.name <= count BY ClientIs DEF Names!Mine
  <1>2. blame \subseteq blame' /\ blame' \subseteq Excuses BY <1>0, ClientIs DEF Excuses
  <1>3. ASSUME blame' = {} PROVE r.name = record.name /\ SettledOK(r)
    <2>1. blame = {} /\ Names!Mine(p).name = record.name BY <1>0, <1>3
    <2>2. CASE Names!IsBot
      <3>1. ToldOK(client[p]) BY <2>1, ClientIs
      <3> QED BY <2>1, <2>2, <3>1 DEF ToldOK, SettledOK, Names!Mine
    <2>3. CASE ~Names!IsBot
      <3>1. people # 0 BY <1>0, <1>3, <2>3
      <3> QED BY <2>1, <3>1, OpenIsOne DEF SettledOK
    <2> QED BY <2>2, <2>3
  <1>4. CASE Names!Leaves(p) BY <1>0, <1>1, <1>2, <1>3, <1>4, LeavesKeeps
  <1>5. CASE Names!WaitsOn(p)
    <2> DEFINE c == [client[p] EXCEPT !.at = "ask", !.does = "wait"]
    <2>1. client[p] \in Names!Client BY ClientIs
    <2>2. c \in Names!Client BY <2>1 DEF Names!Client
    <2>3. client' = [client EXCEPT ![p] = c] BY <1>5, ClientIs DEF Names!WaitsOn
    <2>4. c.at = "ask" /\ c.does = "wait" /\ c.copy = client[p].copy /\ c.number = client[p].number
          BY <2>1 DEF Names!Client
    <2>5. DoesOK(c) /\ ToldOK(c) BY <2>4 DEF DoesOK, ToldOK
    <2> HIDE DEF c
    <2> QED BY <1>0, <1>1, <1>2, <1>3, <2>2, <2>3, <2>4, <2>5, ClientGoesOn
  <1> QED BY <1>4, <1>5

LEMMA ReadingKeeps ==
  ASSUME ClaimInv, NEW p \in Clients, Names!Reading(p)
  PROVE  ClaimInv'
  <1> DEFINE m == Names!Mine(p)
             r == Names!Attested(m)
  <1>0. m \in Names!Record /\ RecordOK(m) BY ClientIs DEF Names!Mine
  <1>1. /\ r \in Names!Record /\ RecordOK(r) /\ r.name = m.name
        /\ [r EXCEPT !.needs = FALSE] \in Names!Record /\ RecordOK([r EXCEPT !.needs = FALSE])
        /\ [r EXCEPT !.needs = FALSE].name = m.name
        BY <1>0 DEF Names!Attested, Names!Record, Names!Status, RecordOK
  <1>2. secret \in {"none", "fresh", "old"} /\ DoesOK(client[p]) BY ClientIs
  <1>3. CASE Names!Asks(p) BY <1>3, AsksKeeps
  <1>4. CASE Names!ReadFirst(p)
    <2>0. client[p].at = "told" /\ client[p].does = "again" /\ UNCHANGED <<trial, filed, people, count>>
          BY <1>4 DEF Names!ReadFirst, Names!Told, Names!world
    <2>1. CASE /\ client[p].answer /\ Names!Confirms(p, [r EXCEPT !.needs = FALSE])
               /\ IF Names!IsBot THEN Names!Leaves(p) /\ UNCHANGED secret ELSE Names!WaitsOn(p) /\ secret' = "none"
      <3>1. secret' \in {"none", "fresh", "old"} /\ (Names!Leaves(p) \/ Names!WaitsOn(p)) BY <1>2, <2>1
      <3> QED BY <1>1, <2>0, <2>1, <3>1, ConfirmsKeeps
    <2>2. CASE ~client[p].answer /\ Names!Goes(p, "claim") /\ UNCHANGED Names!file
      <3>0. client \in [Clients -> Names!Client] /\ client[p] \in Names!Client BY ClientIs
      <3>1. client' = [client EXCEPT ![p].at = "claim", ![p].session = client[p].session]
            /\ client[p].session \in {"none", "fresh", "old"}
            BY <2>2, <3>0 DEF Names!Goes, Names!Client
      <3>2. blame = {} => ToldOK([client[p] EXCEPT !.at = "claim"])
        <4>1. [client[p] EXCEPT !.at = "claim"].at = "claim" /\ [client[p] EXCEPT !.at = "claim"].does = client[p].does
              /\ [client[p] EXCEPT !.at = "claim"].copy = client[p].copy
              BY <3>0 DEF Names!Client
        <4>2. blame = {} => ToldOK(client[p]) BY ClientIs
        <4> QED BY <2>0, <2>2, <4>1, <4>2 DEF ToldOK
      <3>3. UNCHANGED <<record, secret, blame>> BY <2>2 DEF Names!file
      <3> QED BY <1>2, <2>0, <3>1, <3>2, <3>3, GoesKeeps
    <2> QED BY <1>4, <2>1, <2>2 DEF Names!ReadFirst
  <1>5. CASE Names!Waits(p)
    <2>0. client[p].at = "told" /\ UNCHANGED <<trial, filed, people, count>>
          BY <1>5 DEF Names!Waits, Names!Told, Names!world
    <2>1. CASE client[p].answer /\ Names!Confirms(p, r) /\ Names!Leaves(p) /\ UNCHANGED secret
          BY <1>1, <1>2, <2>0, <2>1, ConfirmsKeeps
    <2>2. CASE Names!Goes(p, "ask") /\ UNCHANGED Names!file
      <3>1. client' = [client EXCEPT ![p].at = "ask", ![p].session = client[p].session]
            /\ client[p].session \in {"none", "fresh", "old"}
            BY <2>2, ClientIs DEF Names!Goes, Names!Client
      <3>2. UNCHANGED <<record, secret, blame>> BY <2>2 DEF Names!file
      <3> QED BY <1>2, <2>0, <3>1, <3>2, GoesKeeps
    <2>3. CASE Names!Leaves(p) /\ UNCHANGED Names!file
      <3>1. UNCHANGED <<record, secret, blame>> BY <2>3 DEF Names!file
      <3> QED BY <1>2, <2>0, <2>3, <3>1, LeavesAsItWas
    <2> QED BY <1>5, <2>1, <2>2, <2>3 DEF Names!Waits
  <1>6. CASE Names!ShowsStatus(p)
    <2>0. client[p].at = "told" /\ client[p].does = "status" /\ UNCHANGED <<trial, filed, people, count>>
          BY <1>6 DEF Names!ShowsStatus, Names!Told, Names!world
    <2>1. m = client[p].copy BY <1>2, <2>0 DEF DoesOK, Names!Mine
    <2>2. CASE client[p].answer /\ Names!Confirms(p, r) /\ Names!Leaves(p) /\ UNCHANGED secret
          BY <1>1, <1>2, <2>0, <2>2, ConfirmsKeeps
    <2>3. CASE Names!Leaves(p) /\ UNCHANGED Names!file
      <3>1. UNCHANGED <<record, secret, blame>> BY <2>3 DEF Names!file
      <3> QED BY <1>2, <2>0, <2>3, <3>1, LeavesAsItWas
    <2> QED BY <1>6, <2>1, <2>2, <2>3 DEF Names!ShowsStatus
  <1>7. CASE Names!Verifies(p)
    <2>0. /\ client[p].at = "told" /\ client[p].does = "verify" /\ UNCHANGED <<trial, filed, people, count, secret>>
          /\ Names!Leaves(p) /\ record' = Names!ApplyCheck(record, client[p].answer)
          /\ Names!Blames("outdated", client[p].answer /\ people = 0)
          BY <1>7 DEF Names!Verifies, Names!Told, Names!world
    <2>1. ~Names!IsBot BY <1>2, <2>0 DEF DoesOK
    <2>2. record' \in Names!Record /\ record'.name = record.name /\ RecordOK(record')
          BY <2>0, <2>1, ClientIs DEF Names!ApplyCheck, Names!Kept, Names!Record, Names!Status, RecordOK
    <2>3. blame \subseteq blame' /\ blame' \subseteq Excuses BY <2>0, ClientIs DEF Names!Blames, Excuses
    <2>4. ASSUME blame' = {} PROVE SettledOK(record')
      <3>1. blame = {} /\ SettledOK(record) BY <2>3, <2>4, ClientIs
      <3>2. CASE client[p].answer
        <4>1. filed = {} BY <2>0, <2>4, <3>1, <3>2, OpenIsOne DEF Names!Blames
        <4> QED BY <4>1 DEF SettledOK
      <3>3. CASE ~client[p].answer
        <4>1. record'.status = record.status BY <2>0, <3>3, ClientIs DEF Names!ApplyCheck, Names!Record
        <4> QED BY <2>2, <3>1, <4>1 DEF SettledOK
      <3> QED BY <3>2, <3>3
    <2>5. record'.name <= count BY <2>2, ClientIs
    <2> QED BY <1>2, <2>0, <2>2, <2>3, <2>4, <2>5, LeavesKeeps
  <1> QED BY <1>3, <1>4, <1>5, <1>6, <1>7 DEF Names!Reading

-----------------------------------------------------------------------------
(* An answer that nobody learns is an excuse.                              *)
LEMMA ClaimingKeeps ==
  ASSUME ClaimInv, NEW p \in Clients, Names!Claiming(p)
  PROVE  ClaimInv'
  <1>1. CASE Names!Posts(p) BY <1>1, PostsKeeps
  <1>2. CASE Names!Claimed(p) BY <1>2, ClaimedKeeps
  <1>3. CASE Names!LosesAnswer(p)
    <2>1. Names!Leaves(p) /\ UNCHANGED <<trial, filed, people, count, record, secret>> /\ blame' = blame \cup {"unanswered"}
          BY <1>3 DEF Names!LosesAnswer, Names!Blames, Names!world
    <2>2. blame' # {} /\ blame \subseteq blame' /\ blame' \subseteq Excuses BY <2>1, ClientIs DEF Excuses
    <2> QED BY <2>1, <2>2, ClientIs, LeavesKeeps
  <1> QED BY <1>1, <1>2, <1>3 DEF Names!Claiming

LEMMA SavesKeeps ==
  ASSUME ClaimInv, NEW p \in Clients, Names!Saves(p)
  PROVE  ClaimInv'
  <1>1. /\ client[p].at = "edit" /\ Names!Leaves(p) /\ UNCHANGED <<trial, filed, people, count, secret>>
        /\ record' = client[p].copy /\ Names!Blames("overwritten", Names!Mine(p).name # record.name)
        BY DEF Names!Saves, Names!Writes, Names!world
  <1>2. Names!Mine(p) = client[p].copy BY <1>1, ClientIs DEF DoesOK, Names!Mine
  <1>3. blame \subseteq blame' /\ blame' \subseteq Excuses BY <1>1, ClientIs DEF Names!Blames, Excuses
  <1>4. ASSUME blame' = {} PROVE record'.name = record.name /\ SettledOK(record')
    <2>1. blame = {} /\ client[p].copy.name = record.name BY <1>1, <1>2, <1>3, <1>4 DEF Names!Blames
    <2> QED BY <1>1, <2>1, ClientIs
  <1> QED BY <1>1, <1>3, <1>4, ClientIs, LeavesKeeps

LEMMA FailsKeeps ==
  ASSUME ClaimInv, NEW p \in Clients, Names!Fails(p)
  PROVE  ClaimInv'
  <1>1. client[p].at # "posted" /\ Names!Leaves(p) /\ UNCHANGED <<trial, filed, people, count, record, secret, blame>>
        BY DEF Names!Fails, Names!file, Names!world
  <1> QED BY <1>1, ClientIs, LeavesAsItWas

(* The daemon takes all its tasks along.                                   *)
LEMMA DiesKeeps ==
  ASSUME ClaimInv, NEW p \in Clients, Names!Dies(p)
  PROVE  ClaimInv'
  <1> DEFINE dead == IF Names!IsBot THEN {p} ELSE Clients
  <1>1. /\ UNCHANGED <<trial, filed, people, count, record, secret>>
        /\ client' = [q \in Clients |-> IF q \in dead THEN Names!Idle ELSE client[q]]
        /\ Names!Blames("unanswered", \E q \in dead : client[q].at = "posted")
        BY DEF Names!Dies, Names!world
  <1>2. CASE Names!IsBot
    <2>1. dead = {p} BY <1>2
    <2>2. Names!Leaves(p) BY <1>1, <2>1, ClientIs DEF Names!Leaves
    <2>3. client[p].at = "posted" => blame' # {} BY <1>1, <2>1 DEF Names!Blames
    <2>4. blame \subseteq blame' /\ blame' \subseteq Excuses BY <1>1, ClientIs DEF Names!Blames, Excuses
    <2>5. blame' = {} => SettledOK(record') BY <1>1, <2>4, ClientIs DEF SettledOK
    <2> QED BY <1>1, <2>2, <2>3, <2>4, <2>5, ClientIs, LeavesKeeps
  <1>3. CASE ~Names!IsBot
    <2>1. dead = Clients BY <1>3
    <2>2. \A q \in Clients : client'[q] = Names!Idle BY <1>1, <2>1
    <2>3. blame' \subseteq Excuses /\ blame \subseteq blame' BY <1>1, ClientIs DEF Names!Blames, Excuses
    <2>4. Names!TypeOK'
      <3>1. client' \in [Clients -> Names!Client] BY <1>1, <2>1, IdleOK
      <3> QED BY <1>1, <2>3, <3>1 DEF ClaimInv, Names!TypeOK, Excuses
    <2>5. NumbersInv'
          BY <1>1, <2>2, ClientIs DEF ClaimInv, NumbersInv, RecordOK, DoesOK, Names!IsBot, Names!Idle, Names!NoName
    <2>6. ASSUME blame' = {} PROVE (ClaimsInv /\ SettledInv /\ ToldInv)'
      <3>1. /\ blame = {} /\ ClaimsInv /\ SettledInv /\ Names!Open' = Names!Open
            /\ \A q \in Clients : client[q].at # "posted"
            BY <1>1, <2>1, <2>3, <2>6 DEF ClaimInv, Names!Open, Names!Blames
      <3>2. \A q \in Clients : client'[q].at = "off" /\ client'[q].copy = Names!NoName BY <2>2, IdleOK
      <3>3. ClaimsInv' BY <1>1, <3>1, <3>2 DEF ClaimsInv
      <3>4. SettledInv' BY <1>1, <3>1, <3>2 DEF SettledInv, SettledOK, Names!NoName
      <3>5. ToldInv' BY <3>2 DEF ToldInv, ToldOK
      <3> QED BY <3>3, <3>4, <3>5
    <2> QED BY <2>4, <2>5, <2>6 DEF ClaimInv
  <1> QED BY <1>2, <1>3

-----------------------------------------------------------------------------
LEMMA ClaimStep == ClaimInv /\ [Names!Next]_Names!vars => ClaimInv'
  <1> SUFFICES ASSUME ClaimInv, [Names!Next]_Names!vars PROVE ClaimInv' OBVIOUS
  <1>0. /\ secret \in {"none", "fresh", "old"} /\ count \in Nat /\ filed \subseteq 1 .. count /\ people \in 0 .. count
        /\ people \notin filed
        BY DEF ClaimInv, Names!TypeOK, NumbersInv
  <1>1. ASSUME NEW p \in Clients, Names!Starts(p) PROVE ClaimInv' BY <1>1, StartsKeeps
  <1>2. ASSUME NEW p \in Clients, Names!Enrolling(p) PROVE ClaimInv' BY <1>2, EnrollingKeeps
  <1>3. ASSUME NEW p \in Clients, Names!Reading(p) PROVE ClaimInv' BY <1>3, ReadingKeeps
  <1>4. ASSUME NEW p \in Clients, Names!Claiming(p) PROVE ClaimInv' BY <1>4, ClaimingKeeps
  <1>5. ASSUME NEW p \in Clients, Names!Saves(p) PROVE ClaimInv' BY <1>5, SavesKeeps
  <1>6. ASSUME NEW p \in Clients, Names!Fails(p) PROVE ClaimInv' BY <1>6, FailsKeeps
  <1>7. ASSUME NEW p \in Clients, Names!Dies(p) PROVE ClaimInv' BY <1>7, DiesKeeps
  <1>8. CASE Names!Lands
    <2>1. PICK n \in filed : /\ filed' = filed \ {n} /\ people' = IF people = 0 THEN n ELSE people
                             /\ UNCHANGED <<trial, record, secret, client, count, blame>>
          BY <1>8 DEF Names!Lands
    <2>2. Names!Open' \subseteq Names!Open /\ people' \notin filed' /\ people' \in 0 .. count
          BY <1>0, <2>1 DEF Names!Open
    <2> QED BY <1>0, <2>1, <2>2, ClaimsLeave
  <1>9. CASE Names!Wipes
    <2>1. people' = 0 /\ UNCHANGED <<trial, filed, record, secret, client, count, blame>>
          BY <1>9 DEF Names!Wipes, Names!file
    <2>2. Names!Open' \subseteq Names!Open /\ people' \notin filed' /\ people' \in 0 .. count
          BY <1>0, <2>1 DEF Names!Open
    <2> QED BY <1>0, <2>1, <2>2, ClaimsLeave
  <1>10. CASE Names!Ages
    <2>1. secret' = "old" /\ UNCHANGED <<trial, filed, people, record, client, count, blame>>
          BY <1>10 DEF Names!Ages, Names!world
    <2>2. Names!Open' = Names!Open BY <2>1 DEF Names!Open
    <2> QED BY <1>0, <2>1, <2>2, ClaimsLeave
  <1>11. CASE UNCHANGED Names!vars
    <2>1. UNCHANGED <<trial, filed, people, record, secret, client, count, blame>> BY <1>11 DEF Names!vars
    <2>2. Names!Open' = Names!Open BY <2>1 DEF Names!Open
    <2> QED BY <1>0, <2>1, <2>2, ClaimsLeave
  <1> QED BY <1>1, <1>2, <1>3, <1>4, <1>5, <1>6, <1>7, <1>8, <1>9, <1>10, <1>11 DEF Names!Next

(* An identity has one claim at a time on a username, however often its    *)
(* registration is resumed, verified, repeated and restarted, unless one   *)
(* of the five excuses was used (cli.mjs 1176-1180; registration.mjs       *)
(* 113-121).                                                               *)
THEOREM OneClaimAtATime == Names!Spec => []ClaimedOnce
  <1>1. ClaimInv => ClaimedOnce
    <2> SUFFICES ASSUME ClaimInv, blame = {} PROVE Cardinality(Names!Open) <= 1
        BY DEF ClaimedOnce, Names!ClaimedOnce, Names!Cardinality, Cardinality
    <2>1. PICK x \in Nat : Names!Open \subseteq {x} BY OpenIsOne
    <2>2. Cardinality({x}) = 1 /\ Cardinality({}) = 0 BY FS_Singleton, FS_EmptySet
    <2>3. CASE Names!Open = {} BY <2>2, <2>3
    <2>4. CASE Names!Open = {x} BY <2>2, <2>4
    <2> QED BY <2>1, <2>3, <2>4
  <1> QED BY <1>1, ClaimInit, ClaimStep, PTL DEF Names!Spec

=============================================================================
