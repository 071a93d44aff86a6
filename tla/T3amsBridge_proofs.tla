------------------------- MODULE T3amsBridge_proofs -------------------------
(***************************************************************************)
(* What the bridge of the T3ams transport keeps for any messages, faults,  *)
(* frames and edits. JournalInv is inductive of the journal alone: rows    *)
(* are leased lane by lane, oldest first, and what a failed write takes    *)
(* back is as it was. WorkInv adds the gateway: whatever it holds carries  *)
(* the claim it was leased under, and an answer that is on its way to be   *)
(* acknowledged is on the screen, or is the pending frame of its lane.     *)
(* ContextInv is about what the same transport keeps of the talk around it *)
(* (T3amsContext), and WorkspaceInv of the workspace it is in              *)
(* (T3amsWorkspace).                                                       *)
(***************************************************************************)
EXTENDS T3amsBridge, T3amsTraffic, SequenceTheorems, FiniteSetTheorems, TLAPS

States  == {"no", "yes", "gone"}
RowType == [in : States, rev : Nat, lease : Nat, live : BOOLEAN, by : Nat]
DiskType == [in : States, rev : Nat, by : Nat]
Ops     == {"none", "admit", "revise", "retry", "lease", "renew", "ack"}
MutType == [op : Ops, for : SUBSET Msgs, lane : {0} \union Lanes, heard : BOOLEAN,
            before : [Msgs -> RowType] \union {<<>>}]

(* Rows in line: of a lane, only the oldest row that is left has a lease.  *)
Arrived(r) == \A m, n \in Msgs : m < n /\ r[n].in # "no" => r[m].in # "no"
InLine(r, laneOf, top) ==
  /\ Arrived(r)
  /\ \A m \in Msgs : (r[m].live => r[m].in = "yes" /\ r[m].lease # 0) /\ r[m].lease <= top[m]
  /\ \A m, n \in Msgs : m < n /\ laneOf[m] = laneOf[n] /\ r[n].lease # 0 => r[m].in = "gone"

JournalType ==
  /\ LaneOf \in [Msgs -> Lanes] /\ row \in [Msgs -> RowType] /\ disk \in [Msgs -> DiskType]
  /\ issued \in [Msgs -> Nat] /\ durable \in BOOLEAN
  /\ mut \in MutType

(* The mutation that is being written, and the rows as they were before.   *)
Unmoved(m) ==
  LET b == mut.before[m]
  IN /\ row[m].in = b.in /\ row[m].lease = b.lease /\ row[m].rev = b.rev /\ row[m].by = b.by
     /\ row[m].live => b.live
MutInv ==
  mut.op \in {"ack", "revise"} =>
    /\ mut.before \in [Msgs -> RowType] /\ InLine(mut.before, LaneOf, issued)
    /\ \A m \in Msgs \ mut.for : Unmoved(m)
    /\ \A m \in mut.for :
         /\ mut.before[m].in = "yes" /\ mut.before[m].by = 0 /\ row[m].lease = 0 /\ ~row[m].live /\ disk[m].by = 0
         /\ mut.op = "ack" => /\ row[m].in = "gone" /\ row[m].rev = mut.before[m].rev
                              /\ mut.before[m].live

(* Who is marked as answered has left the journal, on the disk and off it. *)
ByInv ==
  \A m \in Msgs :
    /\ row[m].by # 0 => row[m].in = "gone"
    /\ disk[m].by # 0 => disk[m].in = "gone" /\ row[m].by = disk[m].by

JournalInv == JournalType /\ InLine(row, LaneOf, issued) /\ Arrived(disk) /\ MutInv /\ ByInv

-----------------------------------------------------------------------------
(* The gateway.                                                            *)
ClaimType  == [m : Msgs, lease : Nat, rev : Nat]
BubbleType == [lease : Nat, rev : Nat, text : {"progress", "final"}]
EditType   == [claim : [m : Nat, lease : Nat, rev : Nat], text : {"none", "progress", "final"},
               bubble : Nat]
Pcs        == {"agent", "first", "edit", "finalEdit", "finalSend", "publishFirst", "publishFinal",
               "ended", "renew", "renewing", "ack", "flushed", "acking", "over"}
JobType    == [pc : Pcs, claim : ClaimType, live : Nat, unavailable : BOOLEAN, failed : BOOLEAN,
               final : BOOLEAN, frames : Nat, retried : BOOLEAN, tries : Nat]

GatewayType ==
  /\ pend \in [Lanes -> EditType] /\ bubbles \in [Msgs -> Seq(BubbleType)]
  /\ batch \in Seq(ClaimType) /\ queue \in [Lanes -> Seq(ClaimType)]
  /\ ready \in Seq(Lanes) /\ job \in [Lanes -> JobType \union {NoJob}]

(* A claim is good, or will be when an acknowledgement is taken back: r    *)
(* are the rows, u the mutation, f the lanes and top the leases issued.    *)
Good(c, r, u) ==
  \/ r[c.m].in = "yes" /\ r[c.m].lease = c.lease /\ r[c.m].live
  \/ u.op = "ack" /\ c.m \in u.for /\ u.before[c.m].lease = c.lease
ClaimOK(c, l, f, top, r, u) ==
  /\ f[c.m] = l /\ c.lease # 0 /\ c.lease <= top[c.m]
  /\ Good(c, r, u) => c.rev = r[c.m].rev

ClaimsInv ==
  /\ \A i \in 1 .. Len(batch) : ClaimOK(batch[i], LaneOf[batch[i].m], LaneOf, issued, row, mut)
  /\ \A l \in Lanes : \A i \in 1 .. Len(queue[l]) : ClaimOK(queue[l][i], l, LaneOf, issued, row, mut)
  /\ \A l \in Lanes : job[l].pc # "none" => ClaimOK(job[l].claim, l, LaneOf, issued, row, mut)

(* The dispatcher: a lane is ready once, with work and no turn.            *)
ReadyOK(q, r, j) ==
  /\ \A i, k \in 1 .. Len(r) : r[i] = r[k] => i = k
  /\ \A i \in 1 .. Len(r) : q[r[i]] # <<>> /\ j[r[i]].pc = "none"
ReadyInv == ReadyOK(queue, ready, job)

(* Who waits for a mutation, unless the gateway has died.                  *)
Waiting(op) == IF op = "renew" THEN "renewing" ELSE "acking"
Gone == batch = <<>> /\ ready = <<>> /\ \A l \in Lanes : queue[l] = <<>> /\ job[l].pc = "none"
WaitInv ==
  /\ mut.op \in {"renew", "ack"} /\ mut.heard => mut.lane \in Lanes /\ job[mut.lane].pc = Waiting(mut.op)
  /\ mut.op = "ack" => \A m \in mut.for : LaneOf[m] = mut.lane
  /\ mut.op = "lease" => \A m \in mut.for : row[m].lease # 0
  /\ mut.op # "none" /\ ~mut.heard => Gone

(* A bubble that was shown under the claim.                                *)
Own(c, i, b) == i \in 1 .. Len(b[c.m]) /\ b[c.m][i].lease = c.lease /\ b[c.m][i].rev = c.rev
Seen(m, lease, b) == \E i \in 1 .. Len(b[m]) : b[m][i].lease = lease /\ b[m][i].text = "final"

PendOK(e, l, f, top, r, u, b) ==
  e # NoEdit =>
    /\ e.claim \in ClaimType /\ ClaimOK(e.claim, l, f, top, r, u)
    /\ e.text # "none" /\ Own(e.claim, e.bubble, b)
PendInv == \A l \in Lanes : PendOK(pend[l], l, LaneOf, issued, row, mut, bubbles)

(* The answer of a turn whose claim is good: on the screen, or about to be.*)
Unacked == {"renew", "renewing", "ack"}
Acked   == {"flushed", "acking"}
JobOK(j, e, r, u, b) ==
  /\ j.live # 0 => Own(j.claim, j.live, b)
  /\ j.pc \in Edits => j.live # 0
  /\ j.pc \in {"agent", "first", "edit", "publishFirst"} => ~j.final
  /\ j.pc \in Unacked \union Acked => ~j.failed
  /\ j.pc = "publishFinal" => e.claim # j.claim
  /\ j.pc \in Unacked \union {"ended"} /\ j.final /\ ~j.failed /\ Good(j.claim, r, u) =>
       IF e.claim = j.claim THEN e.text = "final" ELSE Seen(j.claim.m, j.claim.lease, b)
  /\ j.pc \in Acked /\ j.final /\ Good(j.claim, r, u) =>
       Seen(j.claim.m, j.claim.lease, b) /\ e.claim # j.claim
JobsInv == \A l \in Lanes : job[l].pc # "none" => JobOK(job[l], pend[l], row, mut, bubbles)

SeenInv == \A m \in Msgs : row[m].by # 0 => Seen(m, row[m].by, bubbles)

WorkInv == GatewayType /\ ClaimsInv /\ ReadyInv /\ WaitInv /\ PendInv /\ JobsInv /\ SeenInv

-----------------------------------------------------------------------------
(* The journal by itself.                                                  *)

LEMMA Numbers == Msgs \subseteq Nat /\ Lanes = Msgs /\ Messages \in Nat
BY ConstantsAssumption DEF ConstantsAssumption, Msgs, Lanes

(* What is true of the rows at the start of a mutation, which no other     *)
(* mutation overlaps.                                                      *)
LEMMA BeginsKeeps ==
  ASSUME JournalInv, NEW op \in {"admit", "revise", "retry", "lease", "renew", "ack"},
         NEW S \in SUBSET Msgs, NEW l \in {0} \union Lanes, NEW rows, row' = rows, UNCHANGED <<LaneOf, disk, durable>>,
         mut' = [op |-> op, for |-> S, lane |-> l, heard |-> TRUE, before |-> row],
         rows \in [Msgs -> RowType], InLine(rows, LaneOf, issued'), issued' \in [Msgs -> Nat],
         \A m \in Msgs : issued[m] <= issued'[m],
         \A m \in Msgs \ S : rows[m] = row[m],
         \A m \in S : /\ rows[m].by # 0 => rows[m].in = "gone"
                      /\ disk[m].by = 0 \/ rows[m].by = row[m].by,
         op \in {"ack", "revise"} => \A m \in S :
           /\ row[m].in = "yes" /\ rows[m].lease = 0 /\ ~rows[m].live
           /\ op = "ack" => rows[m].in = "gone" /\ rows[m].rev = row[m].rev /\ row[m].live
  PROVE  JournalInv'
<1> USE Numbers
<1>1. row' = rows /\ UNCHANGED <<LaneOf, disk, durable>>
  OBVIOUS
<1>2. /\ mut'.op = op /\ mut'.for = S /\ mut'.heard = TRUE /\ mut'.before = row
  OBVIOUS
<1>3. JournalType'
  <2>1. row \in [Msgs -> RowType]
    BY DEF JournalInv, JournalType
  <2>2. mut' \in MutType
    BY <2>1 DEF MutType, Ops
  <2>3. QED
    BY <1>1, <2>2 DEF JournalInv, JournalType
<1>4. InLine(row', LaneOf', issued') /\ Arrived(disk')
  BY <1>1 DEF JournalInv
<1>5. InLine(row, LaneOf', issued')
  <2>1. \A m \in Msgs : row[m].lease \in Nat /\ issued[m] \in Nat /\ issued'[m] \in Nat
    BY DEF JournalInv, JournalType, RowType
  <2>2. InLine(row, LaneOf, issued)
    BY DEF JournalInv
  <2>3. \A m \in Msgs : row[m].lease <= issued'[m]
    BY <2>1, <2>2 DEF InLine
  <2>4. QED
    BY <1>1, <2>2, <2>3 DEF InLine
<1>6. MutInv'
  <2>1. SUFFICES ASSUME op \in {"ack", "revise"} PROVE MutInv'
    BY <1>2 DEF MutInv
  <2>2. \A m \in Msgs \ S : Unmoved(m)'
    BY <1>1, <1>2 DEF Unmoved
  <2>3. \A m \in S : disk[m].by = 0
    BY <2>1 DEF JournalInv, ByInv
  <2>4. row \in [Msgs -> RowType]
    BY DEF JournalInv, JournalType
  <2>5. \A m \in S : /\ row[m].in = "yes" /\ row[m].by = 0 /\ row'[m].lease = 0 /\ ~row'[m].live /\ disk'[m].by = 0
                     /\ op = "ack" => row'[m].in = "gone" /\ row'[m].rev = row[m].rev /\ row[m].live
    BY <1>1, <2>1, <2>3 DEF JournalInv, ByInv
  <2>6. QED
    BY <1>2, <1>5, <2>2, <2>4, <2>5 DEF MutInv
<1>7. ByInv'
  <2>1. SUFFICES ASSUME NEW m \in Msgs
                 PROVE  /\ rows[m].by # 0 => rows[m].in = "gone"
                        /\ disk[m].by # 0 => disk[m].in = "gone" /\ rows[m].by = disk[m].by
    BY <1>1 DEF ByInv
  <2>2. /\ row[m].by # 0 => row[m].in = "gone"
        /\ disk[m].by # 0 => disk[m].in = "gone" /\ row[m].by = disk[m].by
    BY DEF JournalInv, ByInv
  <2>3. CASE m \in S
    <3>1. /\ rows[m].by # 0 => rows[m].in = "gone"
          /\ disk[m].by = 0 \/ rows[m].by = row[m].by
      BY <2>3
    <3>2. QED
      BY <2>2, <3>1
  <2>4. CASE m \notin S
    <3>1. rows[m] = row[m]
      BY <2>4
    <3>2. QED
      BY <2>2, <3>1
  <2>5. QED
    BY <2>3, <2>4
<1>8. QED
  BY <1>3, <1>4, <1>6, <1>7 DEF JournalInv

LEMMA ArrivesKeeps ==
  ASSUME JournalInv, NEW m \in Msgs, Arrives(m)
  PROVE  JournalInv'
<1> USE Numbers
<1> DEFINE rows == [row EXCEPT ![m].in = "yes"]
<1>1. /\ row[m].in = "no" /\ row' = rows /\ issued' = issued /\ UNCHANGED <<LaneOf, disk, durable>>
      /\ mut' = [op |-> "admit", for |-> {m}, lane |-> 0, heard |-> TRUE, before |-> row]
      /\ \A n \in Msgs : n < m => row[n].in # "no"
  BY DEF Arrives, Begins
<1>2. row \in [Msgs -> RowType] /\ issued \in [Msgs -> Nat] /\ InLine(row, LaneOf, issued)
  BY DEF JournalInv, JournalType
<1>3. rows[m] = [row[m] EXCEPT !.in = "yes"] /\ \A n \in Msgs \ {m} : rows[n] = row[n]
  BY <1>2
<1>4. /\ rows[m] \in RowType /\ rows[m].in = "yes" /\ rows[m].lease = row[m].lease
      /\ (rows[m].live => row[m].live) /\ rows[m].by = row[m].by
  BY <1>2, <1>3 DEF RowType, States
<1>5. rows \in [Msgs -> RowType]
  BY <1>2, <1>3, <1>4
<1> HIDE DEF rows
<1>6. InLine(rows, LaneOf, issued)
  <2>1. Arrived(rows)
    BY <1>1, <1>2, <1>3, <1>4 DEF InLine, Arrived
  <2>2. ASSUME NEW n \in Msgs
        PROVE  (rows[n].live => rows[n].in = "yes" /\ rows[n].lease # 0) /\ rows[n].lease <= issued[n]
    <3>1. CASE n = m
      BY <1>2, <1>4, <3>1 DEF InLine
    <3>2. CASE n # m
      BY <1>2, <1>3, <3>2 DEF InLine
    <3>3. QED
      BY <3>1, <3>2
  <2>3. ASSUME NEW k \in Msgs, NEW n \in Msgs, k < n, LaneOf[k] = LaneOf[n], rows[n].lease # 0
        PROVE  rows[k].in = "gone"
    <3>1. rows[n].lease = row[n].lease
      BY <1>3, <1>4
    <3>2. row[k].in = "gone"
      BY <1>2, <2>3, <3>1 DEF InLine
    <3>3. k # m
      BY <1>1, <3>2
    <3>4. QED
      BY <1>3, <3>2, <3>3
  <2>4. QED
    BY <2>1, <2>2, <2>3 DEF InLine
<1>7. row[m].by = 0 /\ \A n \in Msgs : issued[n] <= issued'[n]
  BY <1>1, <1>2 DEF JournalInv, ByInv
<1>8. \A n \in {m} : /\ rows[n].by # 0 => rows[n].in = "gone"
                     /\ disk[n].by = 0 \/ rows[n].by = row[n].by
  BY <1>4, <1>7
<1>9. QED
  BY <1>1, <1>2, <1>3, <1>5, <1>6, <1>7, <1>8, BeginsKeeps

(* A row that loses its lease, and perhaps its place.                      *)
LEMMA FreedInLine ==
  ASSUME JournalInv, NEW S \in SUBSET Msgs, NEW rows \in [Msgs -> RowType],
         \A n \in Msgs \ S : rows[n] = row[n],
         \A n \in S : /\ rows[n].lease = 0 /\ ~rows[n].live
                      /\ rows[n].in = row[n].in \/ (row[n].in = "yes" /\ rows[n].in = "gone")
  PROVE  InLine(rows, LaneOf, issued)
<1> USE Numbers
<1>1. InLine(row, LaneOf, issued) /\ issued \in [Msgs -> Nat]
  BY DEF JournalInv, JournalType
<1>2. \A n \in Msgs : (row[n].in # "no" <=> rows[n].in # "no") /\ (row[n].in = "gone" => rows[n].in = "gone")
  OBVIOUS
<1>3. Arrived(rows)
  BY <1>1, <1>2 DEF InLine, Arrived
<1>4. ASSUME NEW n \in Msgs
      PROVE  (rows[n].live => rows[n].in = "yes" /\ rows[n].lease # 0) /\ rows[n].lease <= issued[n]
  <2>1. issued[n] \in Nat
    BY <1>1
  <2>2. CASE n \in S
    <3>1. rows[n].lease = 0 /\ ~rows[n].live
      BY <2>2
    <3>2. QED
      BY <2>1, <3>1
  <2>3. CASE n \notin S
    BY <1>1, <2>3 DEF InLine
  <2>4. QED
    BY <2>2, <2>3
<1>5. ASSUME NEW k \in Msgs, NEW n \in Msgs, k < n, LaneOf[k] = LaneOf[n], rows[n].lease # 0
      PROVE  rows[k].in = "gone"
  <2>1. rows[n] = row[n]
    BY <1>5
  <2>2. row[k].in = "gone"
    BY <1>1, <1>5, <2>1 DEF InLine
  <2>3. QED
    BY <1>2, <2>2
<1>6. QED
  BY <1>3, <1>4, <1>5 DEF InLine

LEMMA FreedType ==
  ASSUME NEW r \in RowType
  PROVE  /\ Freed(r) \in RowType /\ Freed(r).lease = 0 /\ Freed(r).live = FALSE
         /\ Freed(r).in = r.in /\ Freed(r).rev = r.rev /\ Freed(r).by = r.by
BY DEF Freed, RowType

LEMMA ReviseKeeps ==
  ASSUME JournalInv, NEW m \in Msgs, Revise(m)
  PROVE  JournalInv'
<1> USE Numbers
<1>1. /\ row[m].in = "yes" /\ issued' = issued /\ LaneOf' = LaneOf
      /\ row \in [Msgs -> RowType] /\ issued \in [Msgs -> Nat] /\ row[m] \in RowType
  BY DEF Revise, Begins, JournalInv, JournalType
<1>2. PICK r \in RowType :
        /\ row' = [row EXCEPT ![m] = Freed(r)] /\ UNCHANGED <<LaneOf, disk, durable>>
        /\ mut' = [op |-> "revise", for |-> {m}, lane |-> 0, heard |-> TRUE, before |-> row]
        /\ r.by = row[m].by /\ (r.in = row[m].in \/ r.in = "gone")
  <2> DEFINE a == [row[m] EXCEPT !.rev = @ + 1]
             b == [row[m] EXCEPT !.in = "gone"]
  <2>1. /\ a \in RowType /\ a.by = row[m].by /\ a.in = row[m].in
        /\ b \in RowType /\ b.by = row[m].by /\ b.in = "gone"
    BY <1>1 DEF RowType, States
  <2>2. /\ row' = [row EXCEPT ![m] = Freed(a)] \/ row' = [row EXCEPT ![m] = Freed(b)]
        /\ UNCHANGED <<LaneOf, disk, durable>>
        /\ mut' = [op |-> "revise", for |-> {m}, lane |-> 0, heard |-> TRUE, before |-> row]
    BY DEF Revise, Begins
  <2> HIDE DEF a, b
  <2>3. QED
    BY <2>1, <2>2
<1> DEFINE rows == [row EXCEPT ![m] = Freed(r)]
<1>3. rows[m] = Freed(r) /\ \A n \in Msgs \ {m} : rows[n] = row[n]
  BY <1>1
<1>4. /\ rows[m] \in RowType /\ rows[m].lease = 0 /\ ~rows[m].live /\ rows[m].by = row[m].by
      /\ rows[m].in = row[m].in \/ rows[m].in = "gone"
  BY <1>2, <1>3, FreedType
<1>5. rows \in [Msgs -> RowType]
  BY <1>1, <1>3, <1>4
<1>6. row' = rows
  BY <1>2
<1> HIDE DEF rows
<1>7. InLine(rows, LaneOf, issued)
  <2>1. \A n \in {m} : /\ rows[n].lease = 0 /\ ~rows[n].live
                       /\ rows[n].in = row[n].in \/ (row[n].in = "yes" /\ rows[n].in = "gone")
    BY <1>1, <1>4
  <2>2. {m} \in SUBSET Msgs
    OBVIOUS
  <2>3. QED
    BY <1>3, <1>5, <2>1, <2>2, FreedInLine
<1>8. row[m].by = 0 /\ \A n \in Msgs : issued[n] <= issued'[n]
  BY <1>1 DEF JournalInv, ByInv
<1>9. \A n \in {m} : /\ rows[n].by # 0 => rows[n].in = "gone"
                     /\ disk[n].by = 0 \/ rows[n].by = row[n].by
                     /\ row[n].in = "yes" /\ rows[n].lease = 0 /\ ~rows[n].live
  BY <1>1, <1>4, <1>8
<1>10. QED
  BY <1>1, <1>2, <1>3, <1>5, <1>6, <1>7, <1>8, <1>9, BeginsKeeps

(* A retry, or a renewal: nothing of the rows changes.                     *)
LEMMA RewriteKeeps ==
  ASSUME JournalInv, NEW op \in {"retry", "renew"}, NEW S \in SUBSET Msgs, NEW l \in {0} \union Lanes,
         Begins(op, S, l, row), issued' = issued
  PROVE  JournalInv'
<1>1. /\ row' = row /\ UNCHANGED <<LaneOf, disk, durable>>
      /\ mut' = [op |-> op, for |-> S, lane |-> l, heard |-> TRUE, before |-> row]
  BY DEF Begins
<1>2. row \in [Msgs -> RowType] /\ issued \in [Msgs -> Nat] /\ InLine(row, LaneOf, issued)
  BY DEF JournalInv, JournalType
<1>3. \A m \in Msgs : issued[m] <= issued'[m] /\ (row[m].by # 0 => row[m].in = "gone")
  BY <1>2 DEF JournalInv, ByInv
<1>4. QED
  BY <1>1, <1>2, <1>3, BeginsKeeps

(* A poll leases rows whose lane has none: what was before them has gone.  *)
LEMMA LeaseKeeps ==
  ASSUME JournalInv, Lease
  PROVE  JournalInv'
<1> USE Numbers
<1> DEFINE S == Leasable
           rows == [m \in Msgs |-> IF m \in S THEN [row[m] EXCEPT !.lease = issued'[m], !.live = TRUE]
                                   ELSE row[m]]
<1>1. /\ row' = rows /\ UNCHANGED <<LaneOf, disk, durable>>
      /\ mut' = [op |-> "lease", for |-> S, lane |-> 0, heard |-> TRUE, before |-> row]
      /\ issued' = [m \in Msgs |-> issued[m] + IF m \in S THEN 1 ELSE 0]
  BY DEF Lease, Begins
<1>2. row \in [Msgs -> RowType] /\ issued \in [Msgs -> Nat] /\ InLine(row, LaneOf, issued)
  BY DEF JournalInv, JournalType
<1>3. S \in SUBSET Msgs
  BY DEF Leasable
<1>4. ASSUME NEW m \in S
      PROVE  /\ row[m].in = "yes"
             /\ \A n \in Msgs : n < m /\ LaneOf[n] = LaneOf[m] => row[n].in = "gone"
  <2>1. /\ m \in Msgs /\ row[m].in = "yes" /\ LaneOf[m] \notin Occupied
        /\ \A n \in Msgs : n < m /\ LaneOf[n] = LaneOf[m] => row[n].in # "yes" \/ row[n].live
    BY <1>4 DEF Leasable
  <2>2. ASSUME NEW n \in Msgs, n < m, LaneOf[n] = LaneOf[m] PROVE row[n].in = "gone"
    <3>1. row[n].in # "no" /\ row[n].in \in States
      BY <1>2, <2>1, <2>2 DEF InLine, Arrived, RowType
    <3>2. row[n].live => row[n].in = "yes"
      BY <1>2 DEF InLine
    <3>3. ~(row[n].in = "yes" /\ row[n].live)
      BY <2>1, <2>2 DEF Occupied
    <3>4. QED
      BY <2>1, <2>2, <3>1, <3>2, <3>3 DEF States
  <2>3. QED
    BY <2>1, <2>2
<1>5. \A m \in Msgs : issued'[m] \in Nat /\ issued[m] \in Nat /\ issued[m] <= issued'[m]
                      /\ (m \in S => issued'[m] # 0)
  <2> HIDE DEF S
  <2>1. SUFFICES ASSUME NEW m \in Msgs
                 PROVE  /\ issued'[m] \in Nat /\ issued[m] \in Nat /\ issued[m] <= issued'[m]
                        /\ (m \in S => issued'[m] # 0)
    OBVIOUS
  <2>2. issued[m] \in Nat /\ issued'[m] = issued[m] + IF m \in S THEN 1 ELSE 0
    BY <1>1, <1>2
  <2>3. CASE m \in S
    BY <2>2, <2>3
  <2>4. CASE m \notin S
    BY <2>2, <2>4
  <2>5. QED
    BY <2>3, <2>4
<1> HIDE DEF S
<1>6. ASSUME NEW m \in S
      PROVE  /\ rows[m] \in RowType /\ rows[m].lease = issued'[m] /\ rows[m].live = TRUE
             /\ rows[m].in = row[m].in /\ rows[m].by = row[m].by
  <2>1. m \in Msgs /\ row[m] \in RowType /\ issued'[m] \in Nat
    BY <1>2, <1>3, <1>5, <1>6
  <2>2. rows[m] = [row[m] EXCEPT !.lease = issued'[m], !.live = TRUE]
    BY <1>6, <2>1
  <2>3. QED
    BY <2>1, <2>2 DEF RowType
<1>7. \A m \in Msgs \ S : rows[m] = row[m]
  OBVIOUS
<1>8. rows \in [Msgs -> RowType]
  BY <1>2, <1>3, <1>6, <1>7
<1> HIDE DEF rows
<1>9. InLine(rows, LaneOf, issued')
  <2>1. \A m \in Msgs : rows[m].in = row[m].in
    BY <1>6, <1>7
  <2>2. Arrived(rows)
    BY <1>2, <2>1 DEF InLine, Arrived
  <2>3. ASSUME NEW m \in Msgs
        PROVE  (rows[m].live => rows[m].in = "yes" /\ rows[m].lease # 0) /\ rows[m].lease <= issued'[m]
    <3>1. CASE m \in S
      <4>1. rows[m].in = "yes" /\ rows[m].lease = issued'[m]
        BY <1>4, <1>6, <3>1
      <4>2. QED
        BY <1>5, <3>1, <4>1
    <3>2. CASE m \notin S
      <4>1. rows[m] = row[m] /\ row[m].lease \in Nat /\ row[m].lease <= issued[m]
        BY <1>2, <1>7, <3>2 DEF RowType, InLine
      <4>2. (row[m].live => row[m].in = "yes" /\ row[m].lease # 0)
        BY <1>2 DEF InLine
      <4>3. issued[m] \in Nat /\ issued'[m] \in Nat /\ issued[m] <= issued'[m]
        BY <1>5
      <4>4. rows[m].lease <= issued'[m]
        BY <4>1, <4>3
      <4>5. QED
        BY <4>1, <4>2, <4>4
    <3>3. QED
      BY <3>1, <3>2
  <2>4. ASSUME NEW k \in Msgs, NEW m \in Msgs, k < m, LaneOf[k] = LaneOf[m], rows[m].lease # 0
        PROVE  rows[k].in = "gone"
    <3>1. CASE m \in S
      BY <1>4, <2>1, <2>4, <3>1
    <3>2. CASE m \notin S
      BY <1>2, <1>7, <2>1, <2>4, <3>2 DEF InLine
    <3>3. QED
      BY <3>1, <3>2
  <2>5. QED
    BY <2>2, <2>3, <2>4 DEF InLine
<1>10. \A m \in S : /\ rows[m].by # 0 => rows[m].in = "gone"
                    /\ disk[m].by = 0 \/ rows[m].by = row[m].by
  BY <1>3, <1>6 DEF JournalInv, ByInv
<1>11. issued' \in [Msgs -> Nat]
  BY <1>1, <1>2
<1>12. QED
  BY <1>1, <1>3, <1>5, <1>7, <1>8, <1>9, <1>10, <1>11, BeginsKeeps

(* The acknowledged row leaves the journal, until its removal fails.       *)
LEMMA AckKeeps ==
  ASSUME JournalInv, NEW c, c.m \in Msgs, Active(c), NEW l \in Lanes, NEW by \in Nat,
         Begins("ack", {c.m}, l, [row EXCEPT ![c.m] = Freed([row[c.m] EXCEPT !.in = "gone", !.by = by])]),
         issued' = issued
  PROVE  JournalInv'
<1> USE Numbers
<1> DEFINE m == c.m
           a == [row[m] EXCEPT !.in = "gone", !.by = by]
           rows == [row EXCEPT ![m] = Freed(a)]
<1>1. /\ row' = rows /\ UNCHANGED <<LaneOf, disk, durable>>
      /\ mut' = [op |-> "ack", for |-> {m}, lane |-> l, heard |-> TRUE, before |-> row]
  BY DEF Begins
<1>2. row[m].in = "yes" /\ row[m].live
  BY DEF Active
<1>3. /\ row \in [Msgs -> RowType] /\ issued \in [Msgs -> Nat] /\ row[m] \in RowType
  BY DEF JournalInv, JournalType
<1>4. a \in RowType /\ a.by = by /\ a.in = "gone" /\ a.rev = row[m].rev
  BY <1>3 DEF RowType, States
<1> HIDE DEF a
<1>5. rows[m] = Freed(a) /\ \A n \in Msgs \ {m} : rows[n] = row[n]
  BY <1>3
<1>6. /\ rows[m] \in RowType /\ rows[m].lease = 0 /\ ~rows[m].live /\ rows[m].by = by
      /\ rows[m].in = "gone" /\ rows[m].rev = row[m].rev
  BY <1>4, <1>5, FreedType
<1>7. rows \in [Msgs -> RowType]
  BY <1>3, <1>5, <1>6
<1> HIDE DEF rows, m
<1>8. m \in Msgs /\ {m} \in SUBSET Msgs
  BY DEF m
<1>9. InLine(rows, LaneOf, issued)
  <2>1. \A n \in {m} : /\ rows[n].lease = 0 /\ ~rows[n].live
                       /\ rows[n].in = row[n].in \/ (row[n].in = "yes" /\ rows[n].in = "gone")
    BY <1>2, <1>6
  <2>2. QED
    BY <1>5, <1>7, <1>8, <2>1, FreedInLine
<1>10. disk[m].by = 0 /\ \A n \in Msgs : issued[n] <= issued'[n]
  <2>1. row[m].by = 0 /\ (disk[m].by # 0 => row[m].by = disk[m].by)
    BY <1>2, <1>8 DEF JournalInv, ByInv
  <2>2. QED
    BY <1>3, <2>1
<1>11. \A n \in {m} : /\ rows[n].by # 0 => rows[n].in = "gone"
                      /\ disk[n].by = 0 \/ rows[n].by = row[n].by
                      /\ row[n].in = "yes" /\ rows[n].lease = 0 /\ ~rows[n].live
                      /\ rows[n].in = "gone" /\ rows[n].rev = row[n].rev /\ row[n].live
  BY <1>2, <1>6, <1>10
<1>12. QED
  BY <1>1, <1>3, <1>5, <1>7, <1>8, <1>9, <1>10, <1>11, BeginsKeeps

LEMMA NoMutType == NoMut \in MutType
BY DEF NoMut, MutType, Ops

(* A write ends: the rows are on the disk.                                 *)
LEMMA SavedKeeps ==
  ASSUME JournalInv, NEW lost, MutationSaved(lost)
  PROVE  JournalInv'
<1>1. /\ disk' = OnDisk(row) /\ durable' = (durable \/ Thaws) /\ mut' = NoMut
      /\ UNCHANGED <<LaneOf, row, issued>>
  BY DEF MutationSaved
<1>2. row \in [Msgs -> RowType] /\ InLine(row, LaneOf, issued)
  BY DEF JournalInv, JournalType
<1>3. \A m \in Msgs : /\ disk'[m] \in DiskType /\ disk'[m].in = row[m].in /\ disk'[m].by = row[m].by
  BY <1>1, <1>2 DEF OnDisk, RowType, DiskType
<1>4. disk' \in [Msgs -> DiskType]
  BY <1>1, <1>3 DEF OnDisk
<1>5. mut'.op = "none" /\ mut'.for = {} /\ mut'.heard = FALSE
  BY <1>1 DEF NoMut
<1>6. JournalType'
  <2>1. durable' \in BOOLEAN /\ mut' \in MutType
    BY <1>1, NoMutType
  <2>2. QED
    BY <1>1, <1>4, <2>1 DEF JournalInv, JournalType
<1>7. InLine(row', LaneOf', issued') /\ Arrived(disk')
  BY <1>1, <1>2, <1>3 DEF InLine, Arrived
<1>8. MutInv' /\ ByInv'
  BY <1>1, <1>3, <1>5 DEF JournalInv, MutInv, ByInv
<1>9. QED
  BY <1>6, <1>7, <1>8 DEF JournalInv

(* Rows that have nothing to do with a mutation, or with none.             *)
LEMMA LapsesKeeps ==
  ASSUME JournalInv, NEW m \in Msgs, Lapses(m)
  PROVE  JournalInv'
<1> USE Numbers
<1>1. /\ row' = [row EXCEPT ![m].live = FALSE] /\ m \notin mut.for
      /\ UNCHANGED <<LaneOf, disk, durable, mut, issued>>
  BY DEF Lapses
<1>2. row \in [Msgs -> RowType] /\ InLine(row, LaneOf, issued) /\ row[m] \in RowType
  BY DEF JournalInv, JournalType
<1>3. row'[m] = [row[m] EXCEPT !.live = FALSE] /\ \A n \in Msgs \ {m} : row'[n] = row[n]
  BY <1>1, <1>2
<1>4. row'[m] \in RowType /\ row'[m].live = FALSE
  BY <1>2, <1>3 DEF RowType
<1>5. \A n \in Msgs : /\ row'[n].in = row[n].in /\ row'[n].lease = row[n].lease /\ row'[n].rev = row[n].rev
                      /\ row'[n].by = row[n].by /\ (row'[n].live => row[n].live)
  BY <1>2, <1>3 DEF RowType
<1>6. row' \in [Msgs -> RowType]
  BY <1>1, <1>2, <1>3, <1>4
<1>7. JournalType'
  BY <1>1, <1>6 DEF JournalInv, JournalType
<1>8. InLine(row', LaneOf', issued') /\ Arrived(disk')
  BY <1>1, <1>2, <1>5 DEF JournalInv, InLine, Arrived
<1>9. MutInv'
  <2>1. SUFFICES ASSUME mut.op \in {"ack", "revise"} PROVE MutInv'
    BY <1>1 DEF MutInv
  <2>2. MutInv /\ mut.for \in SUBSET Msgs
    BY DEF JournalInv, JournalType, MutType
  <2>3. \A n \in Msgs \ mut.for : Unmoved(n)'
    BY <1>1, <1>5, <2>1, <2>2 DEF MutInv, Unmoved
  <2>4. \A n \in mut.for : row'[n] = row[n]
    BY <1>1, <1>3, <2>2
  <2>5. QED
    BY <1>1, <2>1, <2>2, <2>3, <2>4 DEF MutInv
<1>10. ByInv'
  BY <1>1, <1>5 DEF JournalInv, ByInv
<1>11. QED
  BY <1>7, <1>8, <1>9, <1>10 DEF JournalInv

(* What a failed write takes back: the leases it gave, the row it removed. *)
LEMMA FailsKeeps ==
  ASSUME JournalInv, MutationFails
  PROVE  JournalInv'
<1> USE Numbers
<1>1. /\ row' = RolledBack /\ durable' = (durable /\ mut.op = "retry") /\ mut' = NoMut
      /\ UNCHANGED <<LaneOf, disk, issued>>
  BY DEF MutationFails
<1>2. /\ row \in [Msgs -> RowType] /\ InLine(row, LaneOf, issued) /\ issued \in [Msgs -> Nat]
      /\ mut.for \in SUBSET Msgs
  BY DEF JournalInv, JournalType, MutType
<1>3. mut'.op = "none" /\ mut'.for = {} /\ mut'.heard = FALSE
  BY <1>1 DEF NoMut
<1>4. row' \in [Msgs -> RowType] /\ InLine(row', LaneOf, issued) /\ ByInv'
  <2>1. CASE mut.op = "lease"
    <3>1. \A m \in Msgs : row'[m] = IF m \in mut.for THEN Freed(row[m]) ELSE row[m]
      BY <1>1, <2>1 DEF RolledBack
    <3>2. \A m \in mut.for : /\ row'[m] \in RowType /\ row'[m].lease = 0 /\ ~row'[m].live
                             /\ row'[m].in = row[m].in /\ row'[m].by = row[m].by
      <4>1. SUFFICES ASSUME NEW m \in mut.for
                     PROVE  /\ row'[m] \in RowType /\ row'[m].lease = 0 /\ ~row'[m].live
                            /\ row'[m].in = row[m].in /\ row'[m].by = row[m].by
        OBVIOUS
      <4>2. row[m] \in RowType /\ row'[m] = Freed(row[m])
        BY <1>2, <3>1
      <4>3. QED
        BY <4>2, FreedType
    <3>3. \A m \in Msgs \ mut.for : row'[m] = row[m]
      BY <3>1
    <3>4. row' \in [Msgs -> RowType]
      BY <1>1, <1>2, <3>2, <3>3 DEF RolledBack
    <3>5. InLine(row', LaneOf, issued)
      BY <1>2, <3>2, <3>3, <3>4, FreedInLine
    <3>6. ByInv'
      BY <1>1, <3>2, <3>3 DEF JournalInv, ByInv
    <3>7. QED
      BY <3>4, <3>5, <3>6
  <2>2. CASE mut.op = "ack"
    <3> DEFINE b == mut.before
    <3>1. \A m \in Msgs : row'[m] = IF m \in mut.for THEN b[m] ELSE row[m]
      BY <1>1, <2>2 DEF RolledBack
    <3>2. b \in [Msgs -> RowType] /\ InLine(b, LaneOf, issued)
      BY <2>2 DEF JournalInv, MutInv
    <3>3. \A m \in Msgs : /\ row'[m] \in RowType /\ row'[m].in = b[m].in /\ row'[m].lease = b[m].lease
                          /\ (row'[m].live => b[m].live) /\ (m \notin mut.for => row'[m] = row[m])
      <4>1. SUFFICES ASSUME NEW m \in Msgs
                     PROVE  /\ row'[m] \in RowType /\ row'[m].in = b[m].in /\ row'[m].lease = b[m].lease
                            /\ (row'[m].live => b[m].live) /\ (m \notin mut.for => row'[m] = row[m])
        OBVIOUS
      <4>2. CASE m \in mut.for
        BY <3>1, <3>2, <4>2
      <4>3. CASE m \notin mut.for
        <5>1. Unmoved(m)
          BY <2>2, <4>3 DEF JournalInv, MutInv
        <5>2. QED
          BY <1>2, <3>1, <4>3, <5>1 DEF Unmoved
      <4>4. QED
        BY <4>2, <4>3
    <3>4. row' \in [Msgs -> RowType]
      BY <1>1, <3>3 DEF RolledBack
    <3>5. InLine(row', LaneOf, issued)
      BY <3>2, <3>3 DEF InLine, Arrived
    <3>6. ByInv'
      <4>1. \A m \in mut.for : row'[m].by = 0 /\ disk[m].by = 0
        <5>1. SUFFICES ASSUME NEW m \in mut.for PROVE row'[m].by = 0 /\ disk[m].by = 0
          OBVIOUS
        <5>2. row'[m] = b[m] /\ b[m].by = 0 /\ disk[m].by = 0
          BY <1>2, <2>2, <3>1 DEF JournalInv, MutInv
        <5>3. QED
          BY <5>2
      <4>2. QED
        BY <1>1, <3>3, <4>1 DEF JournalInv, ByInv
    <3>7. QED
      BY <3>4, <3>5, <3>6
  <2>3. CASE mut.op \notin {"lease", "ack"}
    <3>1. row' = row
      BY <1>1, <1>2, <2>3 DEF RolledBack
    <3>2. QED
      BY <1>1, <1>2, <3>1 DEF JournalInv, ByInv
  <2>4. QED
    BY <2>1, <2>2, <2>3
<1>5. JournalType'
  <2>1. durable' \in BOOLEAN /\ mut' \in MutType
    BY <1>1, NoMutType
  <2>2. QED
    BY <1>1, <1>4, <2>1 DEF JournalInv, JournalType
<1>6. MutInv' /\ Arrived(disk')
  BY <1>1, <1>3 DEF JournalInv, MutInv
<1>7. QED
  BY <1>1, <1>4, <1>5, <1>6 DEF JournalInv

(* Of a process that died the disk is left, and no lease.                  *)
LEMMA DiesKeeps ==
  ASSUME JournalInv, BotDies
  PROVE  JournalInv'
<1> USE Numbers
<1>1. /\ row' = Restored /\ durable' = TRUE /\ mut' = NoMut /\ UNCHANGED <<LaneOf, disk, issued>>
  BY DEF BotDies
<1>2. disk \in [Msgs -> DiskType] /\ issued \in [Msgs -> Nat] /\ Arrived(disk)
  BY DEF JournalInv, JournalType
<1>3. \A m \in Msgs : /\ row'[m] \in RowType /\ row'[m].in = disk[m].in /\ row'[m].by = disk[m].by
                      /\ row'[m].lease = 0 /\ ~row'[m].live
  BY <1>1, <1>2 DEF Restored, RowType, DiskType
<1>4. row' \in [Msgs -> RowType]
  BY <1>1, <1>3 DEF Restored
<1>5. mut'.op = "none" /\ mut'.for = {} /\ mut'.heard = FALSE
  BY <1>1 DEF NoMut
<1>6. JournalType'
  <2>1. durable' \in BOOLEAN /\ mut' \in MutType
    BY <1>1, NoMutType
  <2>2. QED
    BY <1>1, <1>4, <2>1 DEF JournalInv, JournalType
<1>7. InLine(row', LaneOf', issued') /\ Arrived(disk')
  <2>1. \A m \in Msgs : issued[m] \in Nat /\ row'[m].lease <= issued[m]
    <3> SUFFICES ASSUME NEW m \in Msgs PROVE issued[m] \in Nat /\ row'[m].lease <= issued[m]
      OBVIOUS
    <3>1. issued[m] \in Nat
      BY <1>2
    <3>2. row'[m].lease = 0
      BY <1>3
    <3> QED
      BY <3>1, <3>2
  <2>2. QED
    BY <1>1, <1>2, <1>3, <2>1 DEF InLine, Arrived
<1>8. MutInv' /\ ByInv'
  BY <1>1, <1>3, <1>5 DEF JournalInv, MutInv, ByInv
<1>9. QED
  BY <1>6, <1>7, <1>8 DEF JournalInv

-----------------------------------------------------------------------------
(* No claim that anybody holds gets good again.                            *)
Fading ==
  /\ LaneOf' = LaneOf /\ \A m \in Msgs : issued[m] <= issued'[m]
  /\ \A c \in ClaimType : c.lease # 0 /\ c.lease <= issued[c.m] /\ Good(c, row', mut') =>
       Good(c, row, mut) /\ row'[c.m].rev = row[c.m].rev

(* A row as it was, or without a lease, or with a new one.                 *)
LEMMA RowsFade ==
  ASSUME JournalInv, LaneOf' = LaneOf, \A m \in Msgs : issued[m] <= issued'[m], mut'.op # "ack",
         \A m \in Msgs :
           \/ /\ row'[m].lease = row[m].lease /\ row'[m].rev = row[m].rev
              /\ row'[m].live => row[m].live
           \/ row'[m].lease = 0
           \/ row'[m].lease > issued[m]
  PROVE  Fading
<1>1. SUFFICES ASSUME NEW c \in ClaimType, c.lease # 0, c.lease <= issued[c.m], Good(c, row', mut')
               PROVE  Good(c, row, mut) /\ row'[c.m].rev = row[c.m].rev
  BY DEF Fading
<1>2. c.m \in Msgs /\ c.lease \in Nat /\ issued[c.m] \in Nat
  BY DEF ClaimType, JournalInv, JournalType
<1>3. row'[c.m].lease = c.lease /\ row'[c.m].live
  BY <1>1 DEF Good
<1>4. row[c.m].lease = c.lease /\ row'[c.m].rev = row[c.m].rev /\ row[c.m].live
  BY <1>1, <1>2, <1>3
<1>5. row[c.m].in = "yes"
  BY <1>2, <1>4 DEF JournalInv, InLine
<1>6. QED
  BY <1>4, <1>5 DEF Good

LEMMA StandsFades ==
  ASSUME JournalInv, UNCHANGED <<LaneOf, issued, row>>, mut' = mut \/ mut' = [mut EXCEPT !.heard = FALSE]
  PROVE  Fading
<1>1. mut'.op = mut.op /\ mut'.for = mut.for /\ mut'.before = mut.before
  <2>1. CASE mut' = mut
    BY <2>1
  <2>2. CASE mut' = [mut EXCEPT !.heard = FALSE]
    BY <2>2 DEF JournalInv, JournalType, MutType
  <2>3. QED
    BY <2>1, <2>2
<1>2. \A m \in Msgs : issued[m] <= issued'[m]
  BY DEF JournalInv, JournalType
<1>3. QED
  BY <1>1, <1>2 DEF Fading, Good

(* What a failed acknowledgement takes back had its lease before.          *)
LEMMA FailFades ==
  ASSUME JournalInv, MutationFails
  PROVE  Fading
<1>1. /\ row' = RolledBack /\ mut' = NoMut /\ UNCHANGED <<LaneOf, issued>>
  BY DEF MutationFails
<1>2. /\ row \in [Msgs -> RowType] /\ issued \in [Msgs -> Nat] /\ \A m \in Msgs : issued[m] <= issued'[m]
      /\ mut'.op = "none"
  BY <1>1 DEF JournalInv, JournalType, NoMut
<1>3. CASE mut.op = "ack"
  <2>1. SUFFICES ASSUME NEW c \in ClaimType, c.lease # 0, c.lease <= issued[c.m], Good(c, row', mut')
                 PROVE  Good(c, row, mut) /\ row'[c.m].rev = row[c.m].rev
    BY <1>1, <1>2 DEF Fading
  <2>2. c.m \in Msgs /\ row'[c.m].in = "yes" /\ row'[c.m].lease = c.lease /\ row'[c.m].live
    BY <1>2, <2>1 DEF ClaimType, Good
  <2>3. CASE c.m \in mut.for
    <3>1. row'[c.m] = mut.before[c.m]
      BY <1>1, <1>3, <2>2, <2>3 DEF RolledBack
    <3>2. row[c.m].rev = mut.before[c.m].rev
      BY <1>3, <2>3 DEF JournalInv, MutInv
    <3>3. QED
      BY <1>3, <2>2, <2>3, <3>1, <3>2 DEF Good
  <2>4. CASE c.m \notin mut.for
    <3>1. row'[c.m] = row[c.m]
      BY <1>1, <2>2, <2>4 DEF RolledBack
    <3>2. QED
      BY <2>2, <3>1 DEF Good
  <2>5. QED
    BY <2>3, <2>4
<1>4. CASE mut.op # "ack"
  <2>1. ASSUME NEW m \in Msgs
        PROVE  row'[m] = row[m] \/ row'[m].lease = 0
    <3>1. row[m] \in RowType
      BY <1>2
    <3>2. row'[m] = row[m] \/ row'[m] = Freed(row[m])
      BY <1>1, <1>4 DEF RolledBack
    <3>3. QED
      BY <3>1, <3>2, FreedType
  <2>2. QED
    BY <1>1, <1>2, <2>1, RowsFade
<1>5. QED
  BY <1>3, <1>4

LEMMA AckFades ==
  ASSUME JournalInv, NEW c \in ClaimType, Active(c), NEW l \in Lanes, NEW by \in Nat,
         Begins("ack", {c.m}, l, [row EXCEPT ![c.m] = Freed([row[c.m] EXCEPT !.in = "gone", !.by = by])]),
         issued' = issued
  PROVE  Fading
<1> DEFINE m == c.m
           a == [row[m] EXCEPT !.in = "gone", !.by = by]
<1>1. /\ row' = [row EXCEPT ![m] = Freed(a)] /\ LaneOf' = LaneOf
      /\ mut'.op = "ack" /\ mut'.for = {m} /\ mut'.before = row
  BY DEF Begins
<1>2. m \in Msgs /\ row[m].in = "yes" /\ row[m].live
  BY DEF Active, ClaimType
<1>3. /\ row \in [Msgs -> RowType] /\ issued \in [Msgs -> Nat] /\ row[m] \in RowType
  BY <1>2 DEF JournalInv, JournalType
<1>4. a \in RowType /\ a.rev = row[m].rev
  BY <1>3 DEF RowType, States
<1> HIDE DEF a
<1>5. /\ row'[m] = Freed(a) /\ row'[m].lease = 0 /\ row'[m].rev = row[m].rev
      /\ \A n \in Msgs \ {m} : row'[n] = row[n]
  BY <1>1, <1>2, <1>3, <1>4, FreedType
<1>6. \A n \in Msgs : issued[n] <= issued'[n]
  BY <1>3
<1>7. SUFFICES ASSUME NEW d \in ClaimType, d.lease # 0, d.lease <= issued[d.m], Good(d, row', mut')
               PROVE  Good(d, row, mut) /\ row'[d.m].rev = row[d.m].rev
  BY <1>1, <1>6 DEF Fading
<1>8. d.m \in Msgs
  BY DEF ClaimType
<1>9. CASE d.m = m
  <2>1. row[m].lease = d.lease
    BY <1>1, <1>5, <1>7, <1>9 DEF Good
  <2>2. QED
    BY <1>2, <1>5, <1>9, <2>1 DEF Good
<1>10. CASE d.m # m
  <2>1. row'[d.m] = row[d.m] /\ d.m \notin mut'.for
    BY <1>1, <1>5, <1>8, <1>10
  <2>2. QED
    BY <1>7, <2>1 DEF Good
<1>11. QED
  BY <1>9, <1>10

-----------------------------------------------------------------------------
(* What the gateway and the pending frames hold is carried over a step.    *)
LEMMA ClaimCarries ==
  ASSUME JournalInv, JournalType', Fading, NEW c \in ClaimType, NEW l \in Lanes,
         ClaimOK(c, l, LaneOf, issued, row, mut)
  PROVE  ClaimOK(c, l, LaneOf', issued', row', mut')
<1>1. c.m \in Msgs /\ c.lease \in Nat /\ issued[c.m] \in Nat /\ issued'[c.m] \in Nat
  BY DEF ClaimType, JournalInv, JournalType
<1>2. c.lease <= issued'[c.m]
  BY <1>1 DEF ClaimOK, Fading
<1>3. QED
  BY <1>2 DEF ClaimOK, Fading

LEMMA PendCarries ==
  ASSUME JournalInv, JournalType', Fading, NEW e \in EditType, NEW l \in Lanes, NEW b,
         PendOK(e, l, LaneOf, issued, row, mut, bubbles),
         \A m \in Msgs : LaneOf[m] = l => b[m] = bubbles[m]
  PROVE  PendOK(e, l, LaneOf', issued', row', mut', b)
<1>1. SUFFICES ASSUME e # NoEdit PROVE PendOK(e, l, LaneOf', issued', row', mut', b)
  BY DEF PendOK
<1>2. e.claim \in ClaimType /\ ClaimOK(e.claim, l, LaneOf, issued, row, mut) /\ e.text # "none"
      /\ Own(e.claim, e.bubble, bubbles)
  BY <1>1 DEF PendOK
<1>3. ClaimOK(e.claim, l, LaneOf', issued', row', mut')
  BY <1>2, ClaimCarries
<1>4. b[e.claim.m] = bubbles[e.claim.m]
  BY <1>2 DEF ClaimType, ClaimOK
<1>5. QED
  BY <1>2, <1>3, <1>4 DEF PendOK, Own

LEMMA JobCarries ==
  ASSUME JournalInv, Fading, NEW j \in JobType, NEW e, NEW x, NEW l \in Lanes, NEW b,
         ClaimOK(j.claim, l, LaneOf, issued, row, mut), JobOK(j, e, row, mut, bubbles),
         \A m \in Msgs : LaneOf[m] = l => b[m] = bubbles[m],
         x = e \/ (x.claim # j.claim /\ ~Good(j.claim, row', mut'))
  PROVE  JobOK(j, x, row', mut', b)
<1> DEFINE c == j.claim
<1>1. c \in ClaimType /\ c.m \in Msgs /\ b[c.m] = bubbles[c.m]
  BY DEF JobType, ClaimType, ClaimOK
<1>2. Good(c, row', mut') => Good(c, row, mut)
  BY <1>1 DEF Fading, ClaimOK
<1>3. Own(c, j.live, b) <=> Own(c, j.live, bubbles)
  BY <1>1 DEF Own
<1>4. Seen(c.m, c.lease, b) <=> Seen(c.m, c.lease, bubbles)
  BY <1>1 DEF Seen
<1>5. CASE x = e
  BY <1>2, <1>3, <1>4, <1>5 DEF JobOK
<1>6. CASE x.claim # j.claim /\ ~Good(j.claim, row', mut')
  BY <1>3, <1>6 DEF JobOK
<1>7. QED
  BY <1>5, <1>6

LEMMA Working ==
  ASSUME GatewayType, NEW l \in Lanes
  PROVE  /\ job[l] = NoJob <=> job[l].pc = "none"
         /\ job[l] # NoJob => /\ job[l] \in JobType /\ job[l].claim \in ClaimType
                              /\ job[l].claim.m \in Msgs /\ job[l].claim.lease \in Nat
<1>1. job[l] \in JobType \union {NoJob} /\ NoJob.pc = "none"
  BY DEF GatewayType, NoJob
<1>2. job[l] \in JobType => job[l].pc # "none" /\ job[l].claim \in ClaimType
  BY DEF JobType, Pcs
<1>3. QED
  BY <1>1, <1>2 DEF ClaimType

(* Two good claims of a lane are the same: the rows are in line, also as   *)
(* they were before an acknowledgement that may be taken back.             *)
LEMMA OneGood ==
  ASSUME JournalInv, NEW l \in Lanes, NEW c \in ClaimType, NEW d \in ClaimType,
         ClaimOK(c, l, LaneOf, issued, row, mut), ClaimOK(d, l, LaneOf, issued, row, mut),
         Active(c), Good(d, row, mut)
  PROVE  c = d
<1> USE Numbers
<1>1. /\ c.m \in Msgs /\ d.m \in Msgs /\ LaneOf[c.m] = LaneOf[d.m]
      /\ c.lease \in Nat /\ d.lease \in Nat /\ c.m \in Nat /\ d.m \in Nat
  BY DEF ClaimType, ClaimOK
<1>2. row[c.m].in = "yes" /\ row[c.m].live /\ row[c.m].lease = c.lease /\ c.lease # 0
  BY DEF Active, ClaimOK
<1>3. c.rev = row[c.m].rev /\ d.rev = row[d.m].rev
  BY <1>2 DEF ClaimOK, Good
<1>4. c.m = d.m
  <2>1. CASE row[d.m].in = "yes" /\ row[d.m].lease = d.lease /\ row[d.m].live
    <3>1. row[d.m].lease # 0 /\ InLine(row, LaneOf, issued)
      BY <2>1 DEF ClaimOK, JournalInv
    <3>2. ~(c.m < d.m) /\ ~(d.m < c.m)
      BY <1>1, <1>2, <2>1, <3>1 DEF InLine
    <3>3. QED
      BY <1>1, <3>2
  <2>2. CASE mut.op = "ack" /\ d.m \in mut.for /\ mut.before[d.m].lease = d.lease
    <3>1. /\ InLine(mut.before, LaneOf, issued) /\ mut.before[d.m].in = "yes" /\ mut.before[d.m].lease # 0
          /\ row[d.m].lease = 0
      BY <2>2 DEF JournalInv, MutInv, ClaimOK
    <3>2. CASE c.m \in mut.for
      BY <1>2, <2>2, <3>2 DEF JournalInv, MutInv
    <3>3. CASE c.m \notin mut.for
      <4>1. Unmoved(c.m)
        BY <1>1, <2>2, <3>3 DEF JournalInv, MutInv
      <4>2. mut.before[c.m].in = "yes" /\ mut.before[c.m].lease # 0
        BY <1>2, <4>1 DEF Unmoved
      <4>3. ~(c.m < d.m) /\ ~(d.m < c.m)
        BY <1>1, <3>1, <4>2 DEF InLine
      <4>4. QED
        BY <1>1, <4>3
    <3>4. QED
      BY <3>2, <3>3
  <2>3. QED
    BY <2>1, <2>2 DEF Good
<1>5. c.lease = d.lease
  BY <1>2, <1>4 DEF Good, JournalInv, MutInv
<1>6. QED
  BY <1>3, <1>4, <1>5 DEF ClaimType

-----------------------------------------------------------------------------
(* A step that changes the lanes of K only, and fades the claims.          *)
LEMMA LanesMove ==
  ASSUME JournalInv, WorkInv, JournalType', Fading, NEW K \in SUBSET Lanes,
         \A l \in Lanes \ K : job'[l] = job[l] /\ queue'[l] = queue[l] /\ pend'[l] = pend[l],
         \A m \in Msgs : LaneOf[m] \notin K => bubbles'[m] = bubbles[m],
         \A i \in 1 .. Len(batch') :
            ClaimOK(batch'[i], LaneOf'[batch'[i].m], LaneOf', issued', row', mut'),
         \A l \in K :
            /\ \A i \in 1 .. Len(queue'[l]) : ClaimOK(queue'[l][i], l, LaneOf', issued', row', mut')
            /\ job'[l].pc # "none" => /\ ClaimOK(job'[l].claim, l, LaneOf', issued', row', mut')
                                      /\ JobOK(job'[l], pend'[l], row', mut', bubbles')
            /\ PendOK(pend'[l], l, LaneOf', issued', row', mut', bubbles')
  PROVE  ClaimsInv' /\ PendInv' /\ JobsInv'
<1>1. GatewayType /\ ClaimsInv /\ PendInv /\ JobsInv
  BY DEF WorkInv
<1>2. ASSUME NEW l \in Lanes \ K, NEW i \in 1 .. Len(queue'[l])
      PROVE  ClaimOK(queue'[l][i], l, LaneOf', issued', row', mut')
  <2>1. queue'[l] = queue[l] /\ queue[l] \in Seq(ClaimType)
    BY <1>1 DEF GatewayType
  <2>2. queue[l][i] \in ClaimType /\ ClaimOK(queue[l][i], l, LaneOf, issued, row, mut)
    BY <1>1, <1>2, <2>1 DEF ClaimsInv
  <2>3. QED
    BY <2>1, <2>2, ClaimCarries
<1>3. ASSUME NEW l \in Lanes \ K, job'[l].pc # "none"
      PROVE  /\ ClaimOK(job'[l].claim, l, LaneOf', issued', row', mut')
             /\ JobOK(job'[l], pend'[l], row', mut', bubbles')
  <2>1. job'[l] = job[l] /\ pend'[l] = pend[l] /\ \A m \in Msgs : LaneOf[m] = l => bubbles'[m] = bubbles[m]
    OBVIOUS
  <2>2. job[l] \in JobType /\ job[l].claim \in ClaimType
    BY <1>1, <1>3, <2>1, Working
  <2>3. ClaimOK(job[l].claim, l, LaneOf, issued, row, mut) /\ JobOK(job[l], pend[l], row, mut, bubbles)
    BY <1>1, <1>3, <2>1 DEF ClaimsInv, JobsInv
  <2>4. ClaimOK(job[l].claim, l, LaneOf', issued', row', mut')
    BY <2>2, <2>3, ClaimCarries
  <2>5. JobOK(job[l], pend[l], row', mut', bubbles')
    BY <2>1, <2>2, <2>3, JobCarries
  <2>6. QED
    BY <2>1, <2>4, <2>5
<1>4. ASSUME NEW l \in Lanes \ K
      PROVE  PendOK(pend'[l], l, LaneOf', issued', row', mut', bubbles')
  <2>1. pend'[l] = pend[l] /\ \A m \in Msgs : LaneOf[m] = l => bubbles'[m] = bubbles[m]
    OBVIOUS
  <2>2. pend[l] \in EditType /\ PendOK(pend[l], l, LaneOf, issued, row, mut, bubbles)
    BY <1>1 DEF GatewayType, PendInv
  <2>3. PendOK(pend[l], l, LaneOf', issued', row', mut', bubbles')
    BY <2>1, <2>2, PendCarries
  <2>4. QED
    BY <2>1, <2>3
<1>5. ClaimsInv'
  BY <1>2, <1>3 DEF ClaimsInv
<1>6. PendInv'
  BY <1>4 DEF PendInv
<1>7. JobsInv'
  BY <1>3 DEF JobsInv
<1>8. QED
  BY <1>5, <1>6, <1>7

LEMMA BatchStays ==
  ASSUME JournalInv, WorkInv, JournalType', Fading, batch' = batch
  PROVE  \A i \in 1 .. Len(batch') :
            ClaimOK(batch'[i], LaneOf'[batch'[i].m], LaneOf', issued', row', mut')
<1>1. ASSUME NEW i \in 1 .. Len(batch)
      PROVE  ClaimOK(batch[i], LaneOf'[batch[i].m], LaneOf', issued', row', mut')
  <2>1. batch[i] \in ClaimType /\ ClaimOK(batch[i], LaneOf[batch[i].m], LaneOf, issued, row, mut)
    <3>1. batch \in Seq(ClaimType)
      BY DEF WorkInv, GatewayType
    <3>2. batch[i] \in ClaimType
      BY <3>1
    <3>3. ClaimOK(batch[i], LaneOf[batch[i].m], LaneOf, issued, row, mut)
      BY DEF WorkInv, ClaimsInv
    <3> QED
      BY <3>2, <3>3
  <2>2. batch[i].m \in Msgs /\ LaneOf' = LaneOf /\ LaneOf \in [Msgs -> Lanes]
    BY <2>1 DEF ClaimType, Fading, JournalInv, JournalType
  <2>3. LaneOf[batch[i].m] \in Lanes
    BY <2>2
  <2>4. ClaimOK(batch[i], LaneOf[batch[i].m], LaneOf', issued', row', mut')
    BY <2>1, <2>3, ClaimCarries
  <2>5. QED
    BY <2>2, <2>4
<1>2. QED
  BY <1>1

LEMMA QueuesStay ==
  ASSUME JournalInv, WorkInv, JournalType', Fading, queue' = queue
  PROVE  \A l \in Lanes : \A i \in 1 .. Len(queue'[l]) :
            ClaimOK(queue'[l][i], l, LaneOf', issued', row', mut')
<1>1. ASSUME NEW l \in Lanes, NEW i \in 1 .. Len(queue[l])
      PROVE  ClaimOK(queue[l][i], l, LaneOf', issued', row', mut')
  <2>1. queue[l] \in Seq(ClaimType)
    BY DEF WorkInv, GatewayType
  <2>2. queue[l][i] \in ClaimType /\ ClaimOK(queue[l][i], l, LaneOf, issued, row, mut)
    BY <1>1, <2>1 DEF WorkInv, ClaimsInv
  <2>3. QED
    BY <2>2, ClaimCarries
<1>2. QED
  BY <1>1

(* A step of the journal. Of the pending frames only those go whose lane   *)
(* has no good claim, and a turn that hears of it goes on with its claim.  *)
LEMMA MutationMoves ==
  ASSUME JournalInv, WorkInv, JournalInv', Fading, UNCHANGED <<queue, ready, bubbles>>,
         batch' \in Seq(ClaimType),
         \A i \in 1 .. Len(batch') :
            ClaimOK(batch'[i], LaneOf'[batch'[i].m], LaneOf', issued', row', mut'),
         pend' \in [Lanes -> EditType],
         \A l \in Lanes : pend'[l] = pend[l]
            \/ (pend'[l] = NoEdit /\ \A c \in ClaimType :
                  LaneOf[c.m] = l /\ c.lease # 0 /\ c.lease <= issued[c.m] => ~Good(c, row', mut')),
         job' \in [Lanes -> JobType \union {NoJob}],
         \A l \in Lanes : job'[l] = job[l]
            \/ (/\ job[l].pc # "none" /\ job'[l].pc # "none" /\ job'[l].claim = job[l].claim
                /\ JobOK(job'[l], pend'[l], row', mut', bubbles)),
         SeenInv', WaitInv'
  PROVE  WorkInv'
<1>1. queue' = queue /\ ready' = ready /\ bubbles' = bubbles
  OBVIOUS
<1>2. JournalType' /\ GatewayType
  BY DEF JournalInv, WorkInv
<1>3. ASSUME NEW l \in Lanes
      PROVE  /\ \A i \in 1 .. Len(queue'[l]) : ClaimOK(queue'[l][i], l, LaneOf', issued', row', mut')
             /\ job'[l].pc # "none" => /\ ClaimOK(job'[l].claim, l, LaneOf', issued', row', mut')
                                       /\ JobOK(job'[l], pend'[l], row', mut', bubbles')
             /\ PendOK(pend'[l], l, LaneOf', issued', row', mut', bubbles')
  <2>1. \A i \in 1 .. Len(queue'[l]) : ClaimOK(queue'[l][i], l, LaneOf', issued', row', mut')
    BY <1>1, <1>2, QueuesStay
  <2>2. ASSUME job[l].pc # "none"
        PROVE  /\ ClaimOK(job[l].claim, l, LaneOf', issued', row', mut')
               /\ JobOK(job[l], pend'[l], row', mut', bubbles)
    <3>1. /\ job[l] \in JobType /\ job[l].claim \in ClaimType /\ job[l].claim.m \in Msgs
          /\ ClaimOK(job[l].claim, l, LaneOf, issued, row, mut) /\ JobOK(job[l], pend[l], row, mut, bubbles)
      BY <1>2, <2>2, Working DEF WorkInv, ClaimsInv, JobsInv
    <3>2. ClaimOK(job[l].claim, l, LaneOf', issued', row', mut')
      BY <1>2, <3>1, ClaimCarries
    <3>3. pend'[l] = pend[l] \/ (pend'[l].claim # job[l].claim /\ ~Good(job[l].claim, row', mut'))
      <4>1. CASE pend'[l] = pend[l]
        BY <4>1
      <4>2. CASE pend'[l] = NoEdit /\ \A c \in ClaimType :
                   LaneOf[c.m] = l /\ c.lease # 0 /\ c.lease <= issued[c.m] => ~Good(c, row', mut')
        <5>1. pend'[l].claim.m = 0 /\ job[l].claim.m # 0
          BY <3>1, <4>2, Numbers DEF NoEdit, Msgs
        <5>2. ~Good(job[l].claim, row', mut')
          BY <3>1, <4>2 DEF ClaimOK
        <5>3. QED
          BY <5>1, <5>2
      <4>3. QED
        BY <4>1, <4>2
    <3>4. JobOK(job[l], pend'[l], row', mut', bubbles)
      BY <3>1, <3>3, JobCarries
    <3>5. QED
      BY <3>2, <3>4
  <2>3. PendOK(pend'[l], l, LaneOf', issued', row', mut', bubbles)
    <3>1. CASE pend'[l] = pend[l]
      <4>1. pend[l] \in EditType /\ PendOK(pend[l], l, LaneOf, issued, row, mut, bubbles)
        BY DEF WorkInv, GatewayType, PendInv
      <4>2. QED
        BY <1>2, <3>1, <4>1, PendCarries
    <3>2. CASE pend'[l] = NoEdit
      BY <3>2 DEF PendOK
    <3>3. QED
      BY <3>1, <3>2
  <2>4. job'[l].pc # "none" => /\ ClaimOK(job'[l].claim, l, LaneOf', issued', row', mut')
                               /\ JobOK(job'[l], pend'[l], row', mut', bubbles)
    BY <2>2
  <2>5. QED
    BY <1>1, <2>1, <2>3, <2>4
<1>4. ClaimsInv' /\ PendInv' /\ JobsInv'
  BY <1>3 DEF ClaimsInv, PendInv, JobsInv
<1>5. GatewayType'
  BY <1>1, <1>2 DEF GatewayType
<1>6. ReadyInv'
  <2>1. \A i \in 1 .. Len(ready) : ready[i] \in Lanes /\ job'[ready[i]] = job[ready[i]]
    BY <1>2 DEF GatewayType, WorkInv, ReadyInv, ReadyOK
  <2>2. QED
    BY <1>1, <2>1 DEF ReadyInv, ReadyOK, WorkInv
<1>7. QED
  BY <1>4, <1>5, <1>6 DEF WorkInv

LEMMA JournalMoves ==
  ASSUME JournalInv, WorkInv, JournalInv', Fading, UNCHANGED <<gateway, bubbles>>,
         \A m \in Msgs : row'[m].by = row[m].by,
         pend' \in [Lanes -> EditType],
         \A l \in Lanes : pend'[l] = pend[l]
            \/ (pend'[l] = NoEdit /\ \A c \in ClaimType :
                  LaneOf[c.m] = l /\ c.lease # 0 /\ c.lease <= issued[c.m] => ~Good(c, row', mut')),
         WaitInv'
  PROVE  WorkInv'
<1>1. /\ batch' = batch /\ queue' = queue /\ ready' = ready /\ job' = job /\ bubbles' = bubbles
  BY DEF gateway
<1>2. JournalType' /\ batch \in Seq(ClaimType) /\ job \in [Lanes -> JobType \union {NoJob}]
  BY DEF JournalInv, WorkInv, GatewayType
<1>3. \A i \in 1 .. Len(batch') :
         ClaimOK(batch'[i], LaneOf'[batch'[i].m], LaneOf', issued', row', mut')
  BY <1>1, <1>2, BatchStays
<1>4. SeenInv'
  BY <1>1 DEF SeenInv, WorkInv, Seen
<1>5. QED
  BY <1>1, <1>2, <1>3, <1>4, MutationMoves

(* Steps that leave the gateway and the pending frames alone.              *)
LEMMA AdmitsWork ==
  ASSUME JournalInv, WorkInv, JournalInv', Fading, UNCHANGED <<gateway, bubbles, pend>>,
         \A m \in Msgs : row'[m].by = row[m].by, WaitInv'
  PROVE  WorkInv'
<1>1. pend' \in [Lanes -> EditType]
  BY DEF WorkInv, GatewayType
<1>2. QED
  BY <1>1, JournalMoves

LEMMA ArrivesWorks ==
  ASSUME JournalInv, WorkInv, NEW m \in Msgs, Arrives(m)
  PROVE  WorkInv'
<1>1. /\ row' = [row EXCEPT ![m].in = "yes"] /\ UNCHANGED <<LaneOf, issued, pend, bubbles, gateway>>
      /\ mut'.op = "admit" /\ mut'.heard
  BY DEF Arrives, Begins
<1>2. row \in [Msgs -> RowType] /\ issued \in [Msgs -> Nat]
  BY DEF JournalInv, JournalType
<1>3. \A n \in Msgs : /\ row'[n].lease = row[n].lease /\ row'[n].rev = row[n].rev
                      /\ (row'[n].live => row[n].live) /\ row'[n].by = row[n].by
  BY <1>1, <1>2 DEF RowType
<1>4. Fading
  BY <1>1, <1>2, <1>3, RowsFade
<1>5. WaitInv'
  BY <1>1 DEF WaitInv
<1>6. QED
  BY <1>1, <1>3, <1>4, <1>5, ArrivesKeeps, AdmitsWork

LEMMA ReviseWorks ==
  ASSUME JournalInv, WorkInv, NEW m \in Msgs, Revise(m)
  PROVE  WorkInv'
<1>1. row \in [Msgs -> RowType] /\ issued \in [Msgs -> Nat] /\ row[m] \in RowType
  BY DEF JournalInv, JournalType
<1>2. PICK r \in RowType :
        /\ row' = [row EXCEPT ![m] = Freed(r)] /\ r.by = row[m].by
        /\ mut'.op = "revise" /\ mut'.heard
  <2> DEFINE a == [row[m] EXCEPT !.rev = @ + 1]
             b == [row[m] EXCEPT !.in = "gone"]
  <2>1. a \in RowType /\ a.by = row[m].by /\ b \in RowType /\ b.by = row[m].by
    BY <1>1 DEF RowType, States
  <2>2. /\ row' = [row EXCEPT ![m] = Freed(a)] \/ row' = [row EXCEPT ![m] = Freed(b)]
        /\ mut'.op = "revise" /\ mut'.heard
    BY DEF Revise, Begins
  <2> HIDE DEF a, b
  <2>3. QED
    BY <2>1, <2>2
<1>3. UNCHANGED <<LaneOf, issued, pend, bubbles, gateway>>
  BY DEF Revise, Begins
<1>4. \A n \in Msgs : row'[n].by = row[n].by /\ (row'[n] = row[n] \/ row'[n].lease = 0)
  BY <1>1, <1>2, FreedType
<1>5. Fading
  BY <1>1, <1>2, <1>3, <1>4, RowsFade
<1>6. WaitInv'
  BY <1>2 DEF WaitInv
<1>7. QED
  BY <1>3, <1>4, <1>5, <1>6, ReviseKeeps, AdmitsWork

LEMMA LapsesWorks ==
  ASSUME JournalInv, WorkInv, NEW m \in Msgs, Lapses(m)
  PROVE  WorkInv'
<1>1. /\ row' = [row EXCEPT ![m].live = FALSE]
      /\ UNCHANGED <<LaneOf, issued, mut, pend, bubbles, gateway>>
  BY DEF Lapses
<1>2. row \in [Msgs -> RowType] /\ issued \in [Msgs -> Nat] /\ mut.for \in SUBSET Msgs
  BY DEF JournalInv, JournalType, MutType
<1>3. \A n \in Msgs : /\ row'[n].lease = row[n].lease /\ row'[n].rev = row[n].rev /\ row'[n].in = row[n].in
                      /\ (row'[n].live => row[n].live) /\ row'[n].by = row[n].by
  BY <1>1, <1>2 DEF RowType
<1>4. Fading
  <2>1. SUFFICES ASSUME NEW c \in ClaimType, Good(c, row', mut')
                 PROVE  Good(c, row, mut) /\ row'[c.m].rev = row[c.m].rev
    <3>1. LaneOf' = LaneOf /\ \A n \in Msgs : issued[n] <= issued'[n]
      BY <1>1, <1>2
    <3>2. QED
      BY <3>1 DEF Fading
  <2>2. c.m \in Msgs
    BY DEF ClaimType
  <2>3. QED
    BY <1>1, <1>3, <2>1, <2>2 DEF Good
<1>5. WaitInv'
  <2>1. batch' = batch /\ ready' = ready /\ queue' = queue /\ job' = job
    BY <1>1 DEF gateway
  <2>2. QED
    BY <1>1, <1>2, <1>3, <2>1 DEF WorkInv, WaitInv, Gone
<1>6. QED
  BY <1>1, <1>3, <1>4, <1>5, LapsesKeeps, AdmitsWork

LEMMA RetryWorks ==
  ASSUME JournalInv, WorkInv, RetryWrite, JournalInv'
  PROVE  WorkInv'
<1>1. /\ row' = row /\ UNCHANGED <<LaneOf, issued, pend, bubbles, gateway>>
      /\ mut'.op = "retry" /\ mut'.heard
  BY DEF RetryWrite, Begins
<1>2. issued \in [Msgs -> Nat]
  BY DEF JournalInv, JournalType
<1>3. Fading
  BY <1>1, <1>2, RowsFade
<1>4. WaitInv'
  BY <1>1 DEF WaitInv
<1>5. QED
  BY <1>1, <1>3, <1>4, AdmitsWork

(* A lease voids the pending frame of a lane: no claim on it was good.     *)
LEMMA LeaseWorks ==
  ASSUME JournalInv, WorkInv, Lease, JournalInv'
  PROVE  WorkInv'
<1> DEFINE S == Leasable
<1>1. /\ issued' = [m \in Msgs |-> issued[m] + IF m \in S THEN 1 ELSE 0]
      /\ row' = [m \in Msgs |-> IF m \in S THEN [row[m] EXCEPT !.lease = issued'[m], !.live = TRUE]
                                ELSE row[m]]
      /\ UNCHANGED <<LaneOf, bubbles, gateway>> /\ batch = <<>>
      /\ mut.op = "none" /\ mut'.op = "lease" /\ mut'.for = S /\ mut'.heard
      /\ pend' = [l \in Lanes |-> IF \E m \in S : LaneOf[m] = l THEN NoEdit ELSE pend[l]]
  BY DEF Lease, Begins, Quiet
<1>2. row \in [Msgs -> RowType] /\ issued \in [Msgs -> Nat] /\ S \subseteq Msgs
  BY DEF JournalInv, JournalType, Leasable
<1>3. \A m \in S : LaneOf[m] \notin Occupied
  BY DEF Leasable
<1> HIDE DEF S
<1>4. \A m \in Msgs : issued[m] <= issued'[m] /\ (m \in S => issued'[m] # 0 /\ issued'[m] > issued[m])
  <2>1. SUFFICES ASSUME NEW m \in Msgs
                 PROVE  issued[m] <= issued'[m] /\ (m \in S => issued'[m] # 0 /\ issued'[m] > issued[m])
    OBVIOUS
  <2>2. issued[m] \in Nat /\ issued'[m] = issued[m] + IF m \in S THEN 1 ELSE 0
    BY <1>1, <1>2
  <2>3. QED
    BY <2>2
<1>5. \A m \in Msgs : /\ row'[m].by = row[m].by
                      /\ (m \in S => row'[m].lease = issued'[m]) /\ (m \notin S => row'[m] = row[m])
  BY <1>1, <1>2 DEF RowType
<1>6. Fading
  <2>1. \A m \in Msgs : \/ /\ row'[m].lease = row[m].lease /\ row'[m].rev = row[m].rev
                           /\ (row'[m].live => row[m].live)
                        \/ row'[m].lease = 0
                        \/ row'[m].lease > issued[m]
    BY <1>4, <1>5
  <2>2. QED
    BY <1>1, <1>4, <2>1, RowsFade
<1>7. pend' \in [Lanes -> EditType]
  <2>1. NoEdit \in EditType /\ pend \in [Lanes -> EditType]
    BY DEF NoEdit, EditType, WorkInv, GatewayType
  <2>2. QED
    BY <1>1, <2>1
<1>8. ASSUME NEW l \in Lanes
      PROVE  pend'[l] = pend[l]
               \/ (pend'[l] = NoEdit /\ \A c \in ClaimType : LaneOf[c.m] = l /\ c.lease # 0 /\ c.lease <= issued[c.m]
                                            => ~Good(c, row', mut'))
  <2>1. CASE \E m \in S : LaneOf[m] = l
    <3>1. ASSUME NEW c \in ClaimType, LaneOf[c.m] = l, c.lease # 0, c.lease <= issued[c.m], Good(c, row', mut')
          PROVE  FALSE
      <4>1. c.m \in Msgs /\ Good(c, row, mut)
        BY <1>6, <3>1 DEF Fading, ClaimType
      <4>2. row[c.m].in = "yes" /\ row[c.m].live
        BY <1>1, <4>1 DEF Good
      <4>3. l \in Occupied
        BY <3>1, <4>1, <4>2 DEF Occupied
      <4>4. QED
        BY <1>3, <2>1, <4>3
    <3>2. QED
      BY <1>1, <2>1, <3>1
  <2>2. CASE ~\E m \in S : LaneOf[m] = l
    BY <1>1, <2>2
  <2>3. QED
    BY <2>1, <2>2
<1>9. WaitInv'
  BY <1>1, <1>2, <1>4, <1>5 DEF WaitInv
<1>10. QED
  BY <1>1, <1>5, <1>6, <1>7, <1>8, <1>9, JournalMoves

-----------------------------------------------------------------------------
(* The turns of the gateway: the journal stands still.                     *)
LEMMA TurnMoves ==
  ASSUME JournalInv, WorkInv, NEW l \in Lanes, OnlyJob,
         job[l] # NoJob, job[l].pc \notin {"renewing", "acking"},
         NEW k \in JobType, k.claim = job[l].claim, job' = [job EXCEPT ![l] = k],
         pend' \in [Lanes -> EditType], \A q \in Lanes \ {l} : pend'[q] = pend[q],
         bubbles' \in [Msgs -> Seq(BubbleType)],
         \A m \in Msgs : bubbles'[m] = bubbles[m] \/ (LaneOf[m] = l /\ row[m].in = "yes"),
         PendOK(pend'[l], l, LaneOf, issued, row, mut, bubbles'),
         JobOK(k, pend'[l], row, mut, bubbles')
  PROVE  WorkInv'
<1>1. UNCHANGED <<LaneOf, row, disk, durable, mut, issued, batch, queue, ready>>
  BY DEF OnlyJob, bot
<1>2. JournalType' /\ GatewayType
  BY <1>1 DEF JournalInv, JournalType, WorkInv
<1>3. Fading
  BY <1>1, StandsFades
<1>4. job'[l] = k /\ \A q \in Lanes \ {l} : job'[q] = job[q]
  BY <1>2 DEF GatewayType
<1>5. job' \in [Lanes -> JobType \union {NoJob}]
  BY <1>2 DEF GatewayType
<1>6. GatewayType'
  BY <1>1, <1>2, <1>5 DEF GatewayType
<1>7. ClaimsInv' /\ PendInv' /\ JobsInv'
  <2> DEFINE K == {l}
  <2>1. K \in SUBSET Lanes
    OBVIOUS
  <2>2. \A q \in Lanes \ K : job'[q] = job[q] /\ queue'[q] = queue[q] /\ pend'[q] = pend[q]
    BY <1>1, <1>4
  <2>3. \A m \in Msgs : LaneOf[m] \notin K => bubbles'[m] = bubbles[m]
    OBVIOUS
  <2>4. \A i \in 1 .. Len(batch') : ClaimOK(batch'[i], LaneOf'[batch'[i].m], LaneOf', issued', row', mut')
    BY <1>1, <1>2, <1>3, BatchStays
  <2>5. /\ \A i \in 1 .. Len(queue'[l]) : ClaimOK(queue'[l][i], l, LaneOf', issued', row', mut')
        /\ job'[l].pc # "none" => /\ ClaimOK(job'[l].claim, l, LaneOf', issued', row', mut')
                                  /\ JobOK(job'[l], pend'[l], row', mut', bubbles')
        /\ PendOK(pend'[l], l, LaneOf', issued', row', mut', bubbles')
    <3>1. \A i \in 1 .. Len(queue'[l]) : ClaimOK(queue'[l][i], l, LaneOf', issued', row', mut')
      BY <1>1, <1>2, <1>3, QueuesStay
    <3>2. job[l].pc # "none" /\ ClaimOK(job[l].claim, l, LaneOf, issued, row, mut)
      BY <1>2, Working DEF WorkInv, ClaimsInv
    <3>3. QED
      BY <1>1, <1>4, <3>1, <3>2
  <2>6. \A q \in K :
          /\ \A i \in 1 .. Len(queue'[q]) : ClaimOK(queue'[q][i], q, LaneOf', issued', row', mut')
          /\ job'[q].pc # "none" => /\ ClaimOK(job'[q].claim, q, LaneOf', issued', row', mut')
                                    /\ JobOK(job'[q], pend'[q], row', mut', bubbles')
          /\ PendOK(pend'[q], q, LaneOf', issued', row', mut', bubbles')
    BY <2>5
  <2> HIDE DEF K
  <2>7. QED
    BY <1>2, <1>3, <2>1, <2>2, <2>3, <2>4, <2>6, LanesMove
<1>8. ReadyInv'
  <2>1. \A i \in 1 .. Len(ready) : ready[i] \in Lanes /\ ready[i] # l
    BY <1>2, Working DEF GatewayType, WorkInv, ReadyInv, ReadyOK
  <2>2. ready' = ready /\ queue' = queue
    BY <1>1
  <2>3. \A i \in 1 .. Len(ready) : job'[ready[i]] = job[ready[i]]
    BY <1>4, <2>1
  <2>4. ReadyOK(queue, ready, job)
    BY DEF WorkInv, ReadyInv
  <2>5. ReadyOK(queue, ready, job')
    BY <2>3, <2>4 DEF ReadyOK
  <2>6. QED
    BY <2>2, <2>5 DEF ReadyInv
<1>9. WaitInv'
  <2>1. job[l].pc # "none"
    BY <1>2, Working
  <2>2. \A op \in {"renew", "ack"} : Waiting(op) \in {"renewing", "acking"}
    BY DEF Waiting
  <2>3. ~Gone
    BY <2>1 DEF Gone
  <2>4. QED
    BY <1>1, <1>4, <2>2, <2>3 DEF WorkInv, WaitInv
<1>10. SeenInv'
  <2>1. ASSUME NEW m \in Msgs, row[m].by # 0
        PROVE  bubbles'[m] = bubbles[m]
    BY <2>1 DEF JournalInv, ByInv
  <2>2. QED
    BY <1>1, <2>1 DEF WorkInv, SeenInv, Seen
<1>11. QED
  BY <1>6, <1>7, <1>8, <1>9, <1>10 DEF WorkInv

LEMMA QuietTurn ==
  ASSUME JournalInv, WorkInv, NEW l \in Lanes, OnlyJob, UNCHANGED <<pend, bubbles>>,
         job[l] # NoJob, job[l].pc \notin {"renewing", "acking"},
         NEW k \in JobType, k.claim = job[l].claim, job' = [job EXCEPT ![l] = k],
         JobOK(k, pend[l], row, mut, bubbles)
  PROVE  WorkInv'
<1>1. /\ pend \in [Lanes -> EditType] /\ bubbles \in [Msgs -> Seq(BubbleType)]
      /\ PendOK(pend[l], l, LaneOf, issued, row, mut, bubbles)
  BY DEF WorkInv, GatewayType, PendInv
<1>2. QED
  BY <1>1, TurnMoves

(* A turn that goes on to another place.                                   *)
Onward(j, k) == /\ k \in JobType /\ k.claim = j.claim /\ k.live = j.live /\ k.final = j.final
LEMMA GoesOn ==
  ASSUME NEW j \in JobType, NEW x \in Pcs
  PROVE  /\ Onward(j, [j EXCEPT !.pc = x])
         /\ [j EXCEPT !.pc = x].pc = x /\ [j EXCEPT !.pc = x].failed = j.failed
BY DEF Onward, JobType

LEMMA FailedTurn ==
  ASSUME NEW j \in JobType
  PROVE  Onward(j, Failed(j)) /\ Failed(j).pc = "ended" /\ Failed(j).failed
BY DEF Failed, Onward, JobType, Pcs

LEMMA LostTurn ==
  ASSUME NEW j \in JobType
  PROVE  /\ Onward(j, Lost(j))
         /\ j.pc \in Streaming => Lost(j).pc = "agent" /\ Lost(j).failed = j.failed
         /\ j.pc \notin Streaming => Lost(j).pc = "ended" /\ Lost(j).failed
<1>1. CASE j.pc \in Streaming
  <2>1. Lost(j) = [j EXCEPT !.pc = "agent"] /\ "agent" \in Pcs
    BY <1>1 DEF Lost, Pcs
  <2>2. QED
    BY <1>1, <2>1, GoesOn
<1>2. CASE j.pc \notin Streaming
  <2>1. Lost(j) = Failed(j)
    BY <1>2 DEF Lost
  <2>2. QED
    BY <1>2, <2>1, FailedTurn
<1>3. QED
  BY <1>1, <1>2

LEMMA RefusedTurn ==
  ASSUME NEW j \in JobType
  PROVE  /\ Onward(j, Refused(j))
         /\ j.pc \in Streaming => Refused(j).pc = "agent"
         /\ j.pc = "finalEdit" => Refused(j).pc = "finalSend"
         /\ j.pc \notin Streaming \union {"finalEdit"} => Refused(j).pc = "ended" /\ Refused(j).failed
<1>1. CASE j.pc \in Streaming
  <2>1. Refused(j) = [j EXCEPT !.pc = "agent", !.unavailable = TRUE]
    BY <1>1 DEF Refused
  <2>2. QED
    BY <1>1, <2>1 DEF Onward, JobType, Pcs, Streaming
<1>2. CASE j.pc = "finalEdit"
  <2>1. Refused(j) = [j EXCEPT !.pc = "finalSend", !.unavailable = TRUE]
    BY <1>2 DEF Refused, Streaming
  <2>2. QED
    BY <1>2, <2>1 DEF Onward, JobType, Pcs, Streaming
<1>3. CASE j.pc \notin Streaming \union {"finalEdit"}
  <2>1. Refused(j) = Failed(j)
    BY <1>3 DEF Refused
  <2>2. QED
    BY <1>3, <2>1, FailedTurn
<1>4. QED
  BY <1>1, <1>2, <1>3

LEMMA AckedAgain ==
  ASSUME NEW j \in JobType
  PROVE  /\ Onward(j, AckAgain(j)) /\ AckAgain(j).pc \in {"ack", "over"}
         /\ AckAgain(j).failed = j.failed
<1>1. CASE j.tries < 2
  <2> DEFINE k == [j EXCEPT !.pc = "ack", !.tries = j.tries + 1]
  <2>1. AckAgain(j) = k
    BY <1>1 DEF AckAgain
  <2>2. k \in JobType
    <3>1. j.tries + 1 \in Nat /\ "ack" \in Pcs
      BY DEF JobType, Pcs
    <3>2. QED
      BY <3>1 DEF JobType
  <2>3. k.pc = "ack" /\ k.claim = j.claim /\ k.live = j.live /\ k.final = j.final /\ k.failed = j.failed
    BY DEF JobType
  <2>4. QED
    BY <2>1, <2>2, <2>3 DEF Onward
<1>2. CASE ~(j.tries < 2)
  <2>1. AckAgain(j) = [j EXCEPT !.pc = "over"] /\ "over" \in Pcs
    BY <1>2 DEF AckAgain, Pcs
  <2>2. QED
    BY <2>1, GoesOn
<1>3. QED
  BY <1>1, <1>2

LEMMA FreshTurn ==
  ASSUME NEW c \in ClaimType
  PROVE  /\ Fresh(c) \in JobType /\ [Fresh(c) EXCEPT !.retried = TRUE] \in JobType
         /\ \A k \in {Fresh(c), [Fresh(c) EXCEPT !.retried = TRUE]} :
              /\ k.claim = c /\ k.pc = "agent" /\ k.live = 0 /\ ~k.final /\ ~k.failed
<1> DEFINE k == Fresh(c)
           r == [k EXCEPT !.retried = TRUE]
<1>1. /\ k \in JobType /\ k.claim = c /\ k.pc = "agent" /\ k.live = 0 /\ k.final = FALSE
      /\ k.failed = FALSE
  BY DEF Fresh, JobType, Pcs
<1> HIDE DEF k
<1>2. /\ r \in JobType /\ r.claim = k.claim /\ r.pc = k.pc /\ r.live = k.live /\ r.final = k.final
      /\ r.failed = k.failed
  BY <1>1 DEF JobType
<1> HIDE DEF r
<1>3. \A x \in {k, r} : x.claim = c /\ x.pc = "agent" /\ x.live = 0 /\ ~x.final /\ ~x.failed
  BY <1>1, <1>2
<1>4. QED
  BY <1>1, <1>2, <1>3 DEF k, r

(* What is known of a turn at a place.                                     *)
LEMMA TurnIs ==
  ASSUME WorkInv, NEW l \in Lanes, job[l] # NoJob
  PROVE  /\ job[l] \in JobType /\ job[l].claim \in ClaimType
         /\ ClaimOK(job[l].claim, l, LaneOf, issued, row, mut)
         /\ JobOK(job[l], pend[l], row, mut, bubbles)
         /\ pend \in [Lanes -> EditType] /\ pend[l] \in EditType
         /\ PendOK(pend[l], l, LaneOf, issued, row, mut, bubbles)
         /\ bubbles \in [Msgs -> Seq(BubbleType)]
BY Working DEF WorkInv, GatewayType, ClaimsInv, JobsInv, PendInv

LEMMA NoEditIs ==
  /\ NoEdit \in EditType
  /\ \A c \in ClaimType : NoEdit.claim # c
  /\ \A l, b : PendOK(NoEdit, l, LaneOf, issued, row, mut, b)
<1>1. NoEdit \in EditType /\ NoEdit.claim.m = 0
  BY DEF NoEdit, EditType
<1>2. \A c \in ClaimType : c.m # 0
  BY Numbers DEF ClaimType, Msgs
<1>3. QED
  BY <1>1, <1>2 DEF PendOK

LEMMA FrameWorks ==
  ASSUME JournalInv, WorkInv, NEW l \in Lanes, Frame(l)
  PROVE  WorkInv'
<1> DEFINE j == job[l]
           x == IF j.live = 0 THEN "first" ELSE "edit"
           k == [j EXCEPT !.frames = j.frames + 1, !.pc = x]
<1>1. /\ j # NoJob /\ j.pc = "agent" /\ OnlyJob /\ UNCHANGED <<pend, bubbles>>
  BY DEF Frame, At
<1>2. j \in JobType /\ JobOK(j, pend[l], row, mut, bubbles) /\ job \in [Lanes -> JobType \union {NoJob}]
  BY <1>1, TurnIs DEF WorkInv, GatewayType
<1>3. job' = [job EXCEPT ![l] = k]
  BY <1>2 DEF Frame
<1>4. k \in JobType
  <2>1. j.frames + 1 \in Nat /\ x \in Pcs
    BY <1>2 DEF JobType, Pcs
  <2> HIDE DEF x
  <2>2. QED
    BY <1>2, <2>1 DEF JobType
<1>5. k.pc = x /\ k.claim = j.claim /\ k.live = j.live /\ k.final = j.final /\ k.failed = j.failed
  BY <1>2 DEF JobType
<1>6. x \in {"first", "edit"} /\ (x = "edit" => j.live # 0)
  OBVIOUS
<1> HIDE DEF k, x
<1>7. JobOK(k, pend[l], row, mut, bubbles)
  BY <1>1, <1>2, <1>5, <1>6 DEF JobOK, Edits, Unacked, Acked
<1>8. QED
  BY <1>1, <1>3, <1>4, <1>5, <1>7, QuietTurn

LEMMA FinalWorks ==
  ASSUME JournalInv, WorkInv, NEW l \in Lanes, Final(l)
  PROVE  WorkInv'
<1> DEFINE j == job[l]
           x == IF j.live # 0 /\ ~j.unavailable THEN "finalEdit" ELSE "finalSend"
           k == [j EXCEPT !.final = TRUE, !.pc = x]
<1>1. /\ j # NoJob /\ j.pc = "agent" /\ OnlyJob /\ UNCHANGED <<pend, bubbles>>
  BY DEF Final, At
<1>2. j \in JobType /\ JobOK(j, pend[l], row, mut, bubbles) /\ job \in [Lanes -> JobType \union {NoJob}]
  BY <1>1, TurnIs DEF WorkInv, GatewayType
<1>3. job' = [job EXCEPT ![l] = k]
  BY <1>2 DEF Final
<1>4. k \in JobType
  <2>1. x \in Pcs
    BY DEF Pcs
  <2> HIDE DEF x
  <2>2. QED
    BY <1>2, <2>1 DEF JobType
<1>5. k.pc = x /\ k.claim = j.claim /\ k.live = j.live
  BY <1>2 DEF JobType
<1>6. x \in {"finalSend", "finalEdit"} /\ (x = "finalEdit" => j.live # 0)
  OBVIOUS
<1> HIDE DEF k, x
<1>7. JobOK(k, pend[l], row, mut, bubbles)
  BY <1>1, <1>2, <1>5, <1>6 DEF JobOK, Edits, Unacked, Acked
<1>8. QED
  BY <1>1, <1>3, <1>4, <1>5, <1>7, QuietTurn

(* A turn that ends, fails, is thrown away or asks for its acknowledgement.*)
LEMMA GoesWorks ==
  ASSUME JournalInv, WorkInv, NEW l \in Lanes, job[l] # NoJob, NEW x \in Pcs, Goes(l, x),
         OnlyJob, UNCHANGED <<pend, bubbles>>, job[l].pc \notin {"renewing", "acking"},
         \/ x = "over"
         \/ x = "ended" /\ job[l].pc = "agent"
         \/ x = "renew" /\ job[l].pc = "ended" /\ ~job[l].failed
  PROVE  WorkInv'
<1> DEFINE j == job[l]
           k == [j EXCEPT !.pc = x]
<1>1. j \in JobType /\ JobOK(j, pend[l], row, mut, bubbles) /\ job \in [Lanes -> JobType \union {NoJob}]
  BY TurnIs DEF WorkInv, GatewayType
<1>2. job' = [job EXCEPT ![l] = k]
  BY <1>1 DEF Goes
<1>3. Onward(j, k) /\ k.pc = x /\ k.failed = j.failed
  BY <1>1, GoesOn
<1> HIDE DEF k
<1>4. JobOK(k, pend[l], row, mut, bubbles)
  BY <1>1, <1>3 DEF JobOK, Edits, Unacked, Acked, Onward
<1>5. QED
  BY <1>2, <1>3, <1>4, QuietTurn DEF Onward

LEMMA SilentWorks ==
  ASSUME JournalInv, WorkInv, NEW l \in Lanes, Silent(l)
  PROVE  WorkInv'
BY GoesWorks DEF Silent, At, Pcs

LEMMA ReturnsWorks ==
  ASSUME JournalInv, WorkInv, NEW l \in Lanes, Returns(l)
  PROVE  WorkInv'
<1> DEFINE x == IF job[l].failed THEN "over" ELSE "renew"
<1>1. job[l] # NoJob /\ job[l].pc = "ended" /\ Goes(l, x) /\ OnlyJob /\ UNCHANGED <<pend, bubbles>>
  BY DEF Returns, At
<1>2. x \in Pcs /\ (x = "over" \/ (x = "renew" /\ ~job[l].failed))
  <2>1. CASE job[l].failed
    BY <2>1 DEF Pcs
  <2>2. CASE ~job[l].failed
    BY <2>2 DEF Pcs
  <2>3. QED
    BY <2>1, <2>2
<1> HIDE DEF x
<1>3. QED
  BY <1>1, <1>2, GoesWorks

LEMMA ThrowsWorks ==
  ASSUME JournalInv, WorkInv, NEW l \in Lanes, Throws(l)
  PROVE  WorkInv'
BY GoesWorks DEF Throws, Pcs

LEMMA ConflictWorks ==
  ASSUME JournalInv, WorkInv, NEW l \in Lanes, Conflict(l)
  PROVE  WorkInv'
<1> DEFINE c == job[l].claim
           k == [Fresh(c) EXCEPT !.retried = TRUE]
<1>1. /\ job[l] # NoJob /\ job[l].pc = "ended" /\ job' = [job EXCEPT ![l] = k]
      /\ OnlyJob /\ UNCHANGED <<pend, bubbles>>
  BY DEF Conflict, At
<1>2. c \in ClaimType
  BY <1>1, TurnIs
<1>3. k \in JobType /\ k.claim = c /\ k.pc = "agent" /\ k.live = 0 /\ ~k.final /\ ~k.failed
  BY <1>2, FreshTurn
<1> HIDE DEF k
<1>4. JobOK(k, pend[l], row, mut, bubbles)
  BY <1>3 DEF JobOK, Edits, Unacked, Acked
<1>5. QED
  BY <1>1, <1>3, <1>4, QuietTurn

LEMMA RefusalWorks ==
  ASSUME JournalInv, WorkInv, NEW l \in Lanes, job[l] # NoJob,
         job[l].pc \in Sends \union Edits \union Publishing, job' = [job EXCEPT ![l] = Refused(job[l])],
         OnlyJob, UNCHANGED <<pend, bubbles>>
  PROVE  WorkInv'
<1> DEFINE j == job[l]
           k == Refused(j)
<1>1. j \in JobType /\ JobOK(j, pend[l], row, mut, bubbles)
  BY TurnIs
<1>2. /\ Onward(j, k)
      /\ j.pc \in Streaming => k.pc = "agent"
      /\ j.pc = "finalEdit" => k.pc = "finalSend"
      /\ j.pc \notin Streaming \union {"finalEdit"} => k.pc = "ended" /\ k.failed
  BY <1>1, RefusedTurn
<1> HIDE DEF k
<1>3. JobOK(k, pend[l], row, mut, bubbles)
  <2>1. k.pc \in {"agent", "finalSend", "ended"} /\ (k.pc = "agent" => ~j.final) /\ (k.pc = "ended" => k.failed)
    BY <1>1, <1>2 DEF JobOK, Streaming, Edits
  <2>2. k.live = j.live /\ k.claim = j.claim /\ k.final = j.final
    BY <1>2 DEF Onward
  <2>3. QED
    BY <1>1, <2>1, <2>2 DEF JobOK, Edits, Unacked, Acked
<1>4. j.pc \notin {"renewing", "acking"}
  BY DEF Sends, Edits, Publishing
<1>5. QED
  BY <1>2, <1>3, <1>4, QuietTurn DEF Onward, k

LEMMA AckAgainWorks ==
  ASSUME JournalInv, WorkInv, NEW l \in Lanes, job[l] # NoJob, job[l].pc \in {"ack", "flushed"},
         job' = [job EXCEPT ![l] = AckAgain(job[l])], OnlyJob, UNCHANGED <<pend, bubbles>>
  PROVE  WorkInv'
<1> DEFINE j == job[l]
           k == AckAgain(j)
<1>1. j \in JobType /\ JobOK(j, pend[l], row, mut, bubbles)
  BY TurnIs
<1>2. Onward(j, k) /\ k.pc \in {"ack", "over"} /\ k.failed = j.failed
  BY <1>1, AckedAgain
<1> HIDE DEF k
<1>3. JobOK(k, pend[l], row, mut, bubbles)
  BY <1>1, <1>2 DEF JobOK, Edits, Unacked, Acked, Onward
<1>4. QED
  BY <1>2, <1>3, QuietTurn DEF Onward, k

(* An ordinary message drops the pending frame: for the answer of another  *)
(* claim, or for a frame this message supersedes.                          *)
LEMMA SendWorks ==
  ASSUME JournalInv, WorkInv, NEW l \in Lanes, SendAccepted(l)
  PROVE  WorkInv'
<1> DEFINE j == job[l]
           x == IF j.pc = "first" THEN "publishFirst" ELSE "publishFinal"
           k == [j EXCEPT !.pc = x]
<1>1. /\ j # NoJob /\ j.pc \in Sends /\ pend' = [pend EXCEPT ![l] = NoEdit] /\ Goes(l, x)
      /\ OnlyJob /\ bubbles' = bubbles
  BY DEF SendAccepted
<1>2. /\ j \in JobType /\ j.claim \in ClaimType /\ JobOK(j, pend[l], row, mut, bubbles)
      /\ pend \in [Lanes -> EditType] /\ bubbles \in [Msgs -> Seq(BubbleType)]
      /\ job \in [Lanes -> JobType \union {NoJob}]
  BY <1>1, TurnIs DEF WorkInv, GatewayType
<1>3. /\ x \in {"publishFirst", "publishFinal"} /\ x \in Pcs
      /\ (x = "publishFirst" <=> j.pc = "first")
  BY DEF Pcs
<1> HIDE DEF x
<1>4. job' = [job EXCEPT ![l] = k]
  BY <1>1, <1>2 DEF Goes
<1>5. Onward(j, k) /\ k.pc = x
  BY <1>2, <1>3, GoesOn
<1> HIDE DEF k
<1>6. /\ pend' \in [Lanes -> EditType] /\ pend'[l] = NoEdit /\ \A q \in Lanes \ {l} : pend'[q] = pend[q]
  BY <1>1, <1>2, NoEditIs
<1>7. JobOK(k, NoEdit, row, mut, bubbles)
  <2>1. NoEdit.claim # j.claim
    BY <1>2, NoEditIs
  <2>2. (k.pc = "publishFirst" => ~k.final) /\ k.claim = j.claim /\ k.live = j.live
    BY <1>2, <1>3, <1>5 DEF JobOK, Onward
  <2>3. k.live # 0 => Own(k.claim, k.live, bubbles)
    BY <1>2, <2>2 DEF JobOK
  <2>4. QED
    BY <1>3, <1>5, <2>1, <2>2, <2>3 DEF JobOK, Edits, Unacked, Acked
<1>8. PendOK(NoEdit, l, LaneOf, issued, row, mut, bubbles)
  BY NoEditIs
<1>9. j.pc \notin {"renewing", "acking"} /\ k \in JobType /\ k.claim = j.claim
  BY <1>1, <1>5 DEF Sends, Onward
<1>10. QED
  BY <1>1, <1>2, <1>4, <1>6, <1>7, <1>8, <1>9, TurnMoves

(* An edit is held for its throttle, under the claim of its turn.          *)
LEMMA EditWorks ==
  ASSUME JournalInv, WorkInv, NEW l \in Lanes, NEW lost \in BOOLEAN, EditAccepted(l, lost)
  PROVE  WorkInv'
<1> DEFINE j == job[l]
           t == IF j.pc = "edit" THEN "progress" ELSE "final"
           e == [claim |-> j.claim, bubble |-> j.live, text |-> t]
           x == IF j.pc = "edit" THEN "agent" ELSE "ended"
           k == IF lost THEN Lost(j) ELSE [j EXCEPT !.pc = x]
<1>1. /\ j # NoJob /\ j.pc \in Edits /\ pend' = [pend EXCEPT ![l] = e]
      /\ OnlyJob /\ bubbles' = bubbles
  BY DEF EditAccepted
<1>2. /\ j \in JobType /\ j.claim \in ClaimType /\ JobOK(j, pend[l], row, mut, bubbles)
      /\ ClaimOK(j.claim, l, LaneOf, issued, row, mut)
      /\ pend \in [Lanes -> EditType] /\ bubbles \in [Msgs -> Seq(BubbleType)]
      /\ job \in [Lanes -> JobType \union {NoJob}]
  BY <1>1, TurnIs DEF WorkInv, GatewayType
<1>3. job' = [job EXCEPT ![l] = k]
  BY <1>2 DEF EditAccepted
<1>4. /\ Onward(j, k)
      /\ (k.pc = "agent" /\ j.pc = "edit") \/ (k.pc = "ended" /\ j.pc = "finalEdit")
  <2>1. CASE lost
    BY <1>1, <1>2, <2>1, LostTurn DEF Streaming, Edits
  <2>2. CASE ~lost
    <3>1. x \in Pcs
      BY DEF Pcs
    <3> HIDE DEF x
    <3>2. Onward(j, k) /\ k.pc = x
      BY <1>2, <2>2, <3>1, GoesOn
    <3> HIDE DEF k
    <3>3. QED
      BY <1>1, <3>2 DEF x, Edits
  <2>3. QED
    BY <2>1, <2>2
<1> HIDE DEF k
<1>5. /\ t \in {"none", "progress", "final"} /\ t # "none" /\ (j.pc = "finalEdit" => t = "final")
      /\ j.live # 0 /\ j.live \in Nat /\ Own(j.claim, j.live, bubbles) /\ ~(j.pc = "edit" /\ j.final)
  BY <1>1, <1>2 DEF JobOK, JobType
<1> HIDE DEF t
<1>6. e.claim = j.claim /\ e.text = t /\ e.bubble = j.live /\ e \in EditType
  BY <1>2, <1>5, Numbers DEF EditType, ClaimType
<1> HIDE DEF e
<1>7. pend' \in [Lanes -> EditType] /\ pend'[l] = e /\ \A q \in Lanes \ {l} : pend'[q] = pend[q]
  BY <1>1, <1>2, <1>6
<1>8. JobOK(k, e, row, mut, bubbles)
  BY <1>1, <1>4, <1>5, <1>6 DEF JobOK, Edits, Unacked, Acked, Onward
<1>9. PendOK(e, l, LaneOf, issued, row, mut, bubbles)
  BY <1>2, <1>5, <1>6 DEF PendOK
<1>10. j.pc \notin {"renewing", "acking"} /\ k \in JobType /\ k.claim = j.claim
  BY <1>1, <1>4 DEF Edits, Onward
<1>11. QED
  BY <1>1, <1>2, <1>3, <1>7, <1>8, <1>9, <1>10, TurnMoves

(* A message is published under a claim that is looked at again.           *)
LEMMA PublishedWorks ==
  ASSUME JournalInv, WorkInv, NEW l \in Lanes, NEW lost \in BOOLEAN, Published(l, lost)
  PROVE  WorkInv'
<1> DEFINE j == job[l]
           c == j.claim
           t == IF j.pc = "publishFirst" THEN "progress" ELSE "final"
           b == [lease |-> c.lease, rev |-> c.rev, text |-> t]
           w == bubbles[c.m]
           v == Append(w, b)
           kf == [j EXCEPT !.pc = "agent", !.live = Len(v)]
           ke == [j EXCEPT !.pc = "ended"]
           k == IF lost THEN Lost(j) ELSE IF j.pc = "publishFirst" THEN kf ELSE ke
<1>1. /\ j # NoJob /\ j.pc \in Publishing /\ Active(c)
      /\ bubbles' = [bubbles EXCEPT ![c.m] = v] /\ OnlyJob /\ pend' = pend
  BY DEF Published, Fenced
<1>2. /\ j \in JobType /\ c \in ClaimType /\ JobOK(j, pend[l], row, mut, bubbles)
      /\ ClaimOK(c, l, LaneOf, issued, row, mut) /\ PendOK(pend[l], l, LaneOf, issued, row, mut, bubbles)
      /\ pend \in [Lanes -> EditType] /\ bubbles \in [Msgs -> Seq(BubbleType)]
      /\ job \in [Lanes -> JobType \union {NoJob}]
  BY <1>1, TurnIs DEF WorkInv, GatewayType
<1>3. job' = [job EXCEPT ![l] = k]
  BY <1>2 DEF Published
<1>4. c.m \in Msgs /\ w \in Seq(BubbleType) /\ b \in BubbleType /\ t \in {"progress", "final"}
      /\ (j.pc = "publishFinal" => t = "final") /\ b.lease = c.lease /\ b.rev = c.rev /\ b.text = t
  BY <1>2 DEF ClaimType, BubbleType
<1> HIDE DEF b, t
<1>5. /\ v \in Seq(BubbleType) /\ Len(w) \in Nat /\ Len(v) = Len(w) + 1 /\ v[Len(v)] = b
      /\ \A i \in 1 .. Len(w) : v[i] = w[i]
  <2> HIDE DEF w
  <2>1. QED
    BY <1>4
<1> HIDE DEF v
<1>6. /\ bubbles' \in [Msgs -> Seq(BubbleType)] /\ bubbles'[c.m] = v
      /\ \A m \in Msgs \ {c.m} : bubbles'[m] = bubbles[m]
  BY <1>1, <1>2, <1>4, <1>5
<1> HIDE DEF w
<1>7. w = bubbles[c.m]
  BY DEF w
<1>8. \A d \in ClaimType, i \in Nat : Own(d, i, bubbles) => Own(d, i, bubbles')
  <2>1. SUFFICES ASSUME NEW d \in ClaimType, NEW i \in Nat, Own(d, i, bubbles) PROVE Own(d, i, bubbles')
    OBVIOUS
  <2>2. d.m \in Msgs
    BY DEF ClaimType
  <2>3. CASE d.m = c.m
    <3>1. i \in 1 .. Len(w) /\ w[i].lease = d.lease /\ w[i].rev = d.rev
      BY <1>7, <2>1, <2>3 DEF Own
    <3>2. i \in 1 .. Len(v) /\ v[i] = w[i]
      BY <1>5, <3>1
    <3>3. QED
      BY <1>6, <2>3, <3>1, <3>2 DEF Own
  <2>4. CASE d.m # c.m
    BY <1>6, <2>1, <2>2, <2>4 DEF Own
  <2>5. QED
    BY <2>3, <2>4
<1>9. /\ Own(c, Len(v), bubbles') /\ Len(v) \in Nat /\ Len(v) # 0 /\ (t = "final" => Seen(c.m, c.lease, bubbles'))
  BY <1>4, <1>5, <1>6 DEF Own, Seen
<1>10. /\ k \in JobType /\ k.claim = c /\ k.final = j.final /\ (k.live = j.live \/ k.live = Len(v))
       /\ \/ j.pc = "publishFirst" /\ k.pc = "agent"
          \/ j.pc = "publishFinal" /\ k.pc = "ended"
  <2>1. CASE lost
    BY <1>1, <1>2, <2>1, LostTurn DEF Streaming, Publishing, Onward
  <2>2. CASE ~lost /\ j.pc = "publishFirst"
    <3>1. kf \in JobType /\ kf.claim = c /\ kf.final = j.final /\ kf.live = Len(v) /\ kf.pc = "agent"
      BY <1>2, <1>9 DEF JobType, Pcs
    <3> HIDE DEF kf
    <3>2. QED
      BY <2>2, <3>1
  <2>3. CASE ~lost /\ j.pc # "publishFirst"
    <3>1. j.pc = "publishFinal" /\ "ended" \in Pcs
      BY <1>1, <2>3 DEF Publishing, Pcs
    <3>2. k = ke
      BY <2>3
    <3>3. Onward(j, ke) /\ ke.pc = "ended"
      BY <1>2, <3>1, GoesOn
    <3> HIDE DEF ke, k
    <3>4. QED
      BY <3>1, <3>2, <3>3 DEF Onward
  <2>4. QED
    BY <2>1, <2>2, <2>3
<1> HIDE DEF k
<1>11. JobOK(k, pend[l], row, mut, bubbles')
  <2>1. k.live # 0 => Own(k.claim, k.live, bubbles')
    <3>1. j.live # 0 => Own(c, j.live, bubbles)
      BY <1>2 DEF JobOK
    <3>2. j.live \in Nat
      BY <1>2 DEF JobType
    <3>3. QED
      BY <1>2, <1>8, <1>9, <1>10, <3>1, <3>2
  <2>2. k.pc = "agent" => ~k.final
    BY <1>2, <1>10 DEF JobOK
  <2>3. k.pc = "ended" => pend[l].claim # c /\ Seen(c.m, c.lease, bubbles')
    BY <1>2, <1>4, <1>9, <1>10 DEF JobOK
  <2>4. k.pc \in {"agent", "ended"}
    BY <1>10
  <2>5. QED
    BY <1>10, <2>1, <2>2, <2>3, <2>4 DEF JobOK, Edits, Unacked, Acked
<1>12. PendOK(pend[l], l, LaneOf, issued, row, mut, bubbles')
  <2>1. SUFFICES ASSUME pend[l] # NoEdit PROVE PendOK(pend[l], l, LaneOf, issued, row, mut, bubbles')
    BY DEF PendOK
  <2>2. pend[l].bubble \in Nat
    BY <1>2 DEF EditType
  <2>3. QED
    BY <1>2, <1>8, <2>1, <2>2 DEF PendOK
<1>13. \A m \in Msgs : bubbles'[m] = bubbles[m] \/ (LaneOf[m] = l /\ row[m].in = "yes")
  BY <1>1, <1>2, <1>6 DEF ClaimOK, Active
<1>14. j.pc \notin {"renewing", "acking"}
  BY <1>1 DEF Publishing
<1>15. QED
  BY <1>1, <1>2, <1>3, <1>6, <1>10, <1>11, <1>12, <1>13, <1>14, TurnMoves

-----------------------------------------------------------------------------
(* The pending frame is shown: one bubble of one message gets its text.    *)
LEMMA ShowIs ==
  ASSUME WorkInv, NEW l \in Lanes, Show(pend[l]), Active(pend[l].claim), pend[l] # NoEdit
  PROVE  LET e == pend[l]
             c == e.claim
         IN /\ bubbles' \in [Msgs -> Seq(BubbleType)] /\ c \in ClaimType
            /\ \A d \in ClaimType, i \in Nat : Own(d, i, bubbles) => Own(d, i, bubbles')
            /\ \A m \in Msgs : bubbles'[m] = bubbles[m] \/ (LaneOf[m] = l /\ row[m].in = "yes")
            /\ e.text = "final" => Seen(c.m, c.lease, bubbles')
            /\ ClaimOK(c, l, LaneOf, issued, row, mut)
            /\ PendOK(e, l, LaneOf, issued, row, mut, bubbles')
<1> DEFINE e == pend[l]
           c == e.claim
           i == e.bubble
           w == bubbles[c.m]
           x == [w[i] EXCEPT !.text = e.text]
           v == [w EXCEPT ![i] = x]
<1>1. /\ bubbles \in [Msgs -> Seq(BubbleType)] /\ e \in EditType
      /\ PendOK(e, l, LaneOf, issued, row, mut, bubbles)
  BY DEF WorkInv, GatewayType, PendInv
<1>2. /\ c \in ClaimType /\ c.m \in Msgs /\ ClaimOK(c, l, LaneOf, issued, row, mut) /\ e.text \in {"progress", "final"}
      /\ w \in Seq(BubbleType) /\ i \in 1 .. Len(w) /\ w[i].lease = c.lease /\ w[i].rev = c.rev
  <2>1. c \in ClaimType /\ ClaimOK(c, l, LaneOf, issued, row, mut) /\ e.text # "none" /\ Own(c, i, bubbles)
    BY <1>1 DEF PendOK
  <2>2. c.m \in Msgs /\ e.text \in {"progress", "final"}
    BY <1>1, <2>1 DEF ClaimType, EditType
  <2>3. QED
    BY <1>1, <2>1, <2>2 DEF Own
<1>3. bubbles' = [bubbles EXCEPT ![c.m] = v]
  BY <1>1, <1>2 DEF Show
<1> HIDE DEF w
<1>4. w[i] \in BubbleType
  BY <1>2
<1>5. x \in BubbleType /\ x.lease = c.lease /\ x.rev = c.rev /\ x.text = e.text
  BY <1>2, <1>4 DEF BubbleType
<1> HIDE DEF x
<1>6. v \in Seq(BubbleType) /\ Len(v) = Len(w) /\ v[i] = x /\ \A n \in 1 .. Len(w) : n # i => v[n] = w[n]
  BY <1>2, <1>5
<1> HIDE DEF v
<1>7. bubbles' \in [Msgs -> Seq(BubbleType)] /\ bubbles'[c.m] = v /\ \A m \in Msgs \ {c.m} : bubbles'[m] = bubbles[m]
  BY <1>1, <1>2, <1>3, <1>6
<1>8. ASSUME NEW d \in ClaimType, NEW n \in Nat, Own(d, n, bubbles)
      PROVE  Own(d, n, bubbles')
  <2>1. d.m \in Msgs
    BY DEF ClaimType
  <2>2. CASE d.m = c.m
    <3>1. n \in 1 .. Len(w) /\ w[n].lease = d.lease /\ w[n].rev = d.rev
      BY <1>8, <2>2 DEF Own, w
    <3>2. CASE n = i
      BY <1>2, <1>5, <1>6, <1>7, <2>2, <3>1, <3>2 DEF Own
    <3>3. CASE n # i
      BY <1>6, <1>7, <2>2, <3>1, <3>3 DEF Own
    <3>4. QED
      BY <3>2, <3>3
  <2>3. CASE d.m # c.m
    BY <1>7, <1>8, <2>1, <2>3 DEF Own
  <2>4. QED
    BY <2>2, <2>3
<1>9. \A m \in Msgs : bubbles'[m] = bubbles[m] \/ (LaneOf[m] = l /\ row[m].in = "yes")
  BY <1>2, <1>7 DEF ClaimOK, Active
<1>10. e.text = "final" => Seen(c.m, c.lease, bubbles')
  BY <1>2, <1>5, <1>6, <1>7 DEF Seen
<1>11. PendOK(e, l, LaneOf, issued, row, mut, bubbles')
  <2>1. i \in Nat /\ Own(c, i, bubbles) /\ e.text # "none"
    BY <1>1 DEF EditType, PendOK
  <2>2. Own(c, i, bubbles')
    BY <1>2, <1>8, <2>1
  <2>3. QED
    BY <1>2, <2>1, <2>2 DEF PendOK
<1>12. QED
  BY <1>2, <1>7, <1>8, <1>9, <1>10, <1>11

LEMMA FrameDueWorks ==
  ASSUME JournalInv, WorkInv, NEW l \in Lanes, FrameDue(l)
  PROVE  WorkInv'
<1> DEFINE e == pend[l]
           c == e.claim
           j == job[l]
<1>1. /\ e # NoEdit /\ Active(c) /\ Show(e)
      /\ UNCHANGED <<LaneOf, row, disk, durable, mut, issued, pend, batch, queue, ready, job>>
  BY DEF FrameDue, bot, gateway
<1>2. JournalType' /\ GatewayType
  BY <1>1 DEF JournalInv, JournalType, WorkInv
<1>3. Fading
  BY <1>1, StandsFades
<1>4. /\ bubbles' \in [Msgs -> Seq(BubbleType)] /\ c \in ClaimType
      /\ \A d \in ClaimType, i \in Nat : Own(d, i, bubbles) => Own(d, i, bubbles')
      /\ \A m \in Msgs : bubbles'[m] = bubbles[m] \/ (LaneOf[m] = l /\ row[m].in = "yes")
      /\ ClaimOK(c, l, LaneOf, issued, row, mut) /\ PendOK(e, l, LaneOf, issued, row, mut, bubbles')
  BY <1>1, ShowIs
<1>5. ASSUME j.pc # "none"
      PROVE  ClaimOK(j.claim, l, LaneOf, issued, row, mut) /\ JobOK(j, e, row, mut, bubbles')
  <2>1. /\ j \in JobType /\ j.claim \in ClaimType /\ JobOK(j, e, row, mut, bubbles)
        /\ ClaimOK(j.claim, l, LaneOf, issued, row, mut)
    BY <1>2, <1>5, Working, TurnIs
  <2>2. Good(j.claim, row, mut) => c = j.claim
    BY <1>1, <1>4, <2>1, OneGood
  <2>3. j.live # 0 => Own(j.claim, j.live, bubbles')
    BY <1>4, <2>1 DEF JobOK, JobType
  <2>4. QED
    BY <2>1, <2>2, <2>3 DEF JobOK
<1>6. ClaimsInv' /\ PendInv' /\ JobsInv'
  <2> DEFINE K == {l}
  <2>1. K \in SUBSET Lanes
    OBVIOUS
  <2>2. \A q \in Lanes \ K : job'[q] = job[q] /\ queue'[q] = queue[q] /\ pend'[q] = pend[q]
    BY <1>1
  <2>3. \A m \in Msgs : LaneOf[m] \notin K => bubbles'[m] = bubbles[m]
    BY <1>4
  <2>4. \A i \in 1 .. Len(batch') : ClaimOK(batch'[i], LaneOf'[batch'[i].m], LaneOf', issued', row', mut')
    BY <1>1, <1>2, <1>3, BatchStays
  <2>5. \A i \in 1 .. Len(queue'[l]) : ClaimOK(queue'[l][i], l, LaneOf', issued', row', mut')
    BY <1>1, <1>2, <1>3, QueuesStay
  <2>6. \A q \in K :
          /\ \A i \in 1 .. Len(queue'[q]) : ClaimOK(queue'[q][i], q, LaneOf', issued', row', mut')
          /\ job'[q].pc # "none" => /\ ClaimOK(job'[q].claim, q, LaneOf', issued', row', mut')
                                    /\ JobOK(job'[q], pend'[q], row', mut', bubbles')
          /\ PendOK(pend'[q], q, LaneOf', issued', row', mut', bubbles')
    BY <1>1, <1>4, <1>5, <2>5
  <2> HIDE DEF K
  <2>7. QED
    BY <1>2, <1>3, <2>1, <2>2, <2>3, <2>4, <2>6, LanesMove
<1>7. GatewayType' /\ ReadyInv' /\ WaitInv'
  <2>1. GatewayType'
    BY <1>1, <1>2, <1>4 DEF GatewayType
  <2>2. ReadyInv' /\ WaitInv'
    BY <1>1 DEF WorkInv, ReadyInv, ReadyOK, WaitInv, Gone
  <2>3. QED
    BY <2>1, <2>2
<1>8. SeenInv'
  <2>1. ASSUME NEW m \in Msgs, row[m].by # 0
        PROVE  bubbles'[m] = bubbles[m]
    BY <1>4, <2>1 DEF JournalInv, ByInv
  <2>2. QED
    BY <1>1, <2>1 DEF WorkInv, SeenInv, Seen
<1>9. QED
  BY <1>6, <1>7, <1>8 DEF WorkInv

(* The acknowledgement flushes the pending frame before the row goes: from *)
(* here on a final answer under a good claim is on the screen.             *)
LEMMA AckArrivesWorks ==
  ASSUME JournalInv, WorkInv, NEW l \in Lanes, AckArrives(l)
  PROVE  WorkInv'
<1> DEFINE j == job[l]
           c == j.claim
           k == [j EXCEPT !.pc = "flushed"]
<1>1. j # NoJob /\ j.pc = "ack" /\ Flushed(l) /\ Goes(l, "flushed") /\ OnlyJob
  BY DEF AckArrives, At
<1>2. /\ j \in JobType /\ c \in ClaimType /\ JobOK(j, pend[l], row, mut, bubbles)
      /\ ClaimOK(c, l, LaneOf, issued, row, mut) /\ PendOK(pend[l], l, LaneOf, issued, row, mut, bubbles)
      /\ pend \in [Lanes -> EditType] /\ bubbles \in [Msgs -> Seq(BubbleType)]
      /\ job \in [Lanes -> JobType \union {NoJob}]
  BY <1>1, TurnIs DEF WorkInv, GatewayType
<1>3. job' = [job EXCEPT ![l] = k]
  BY <1>1, <1>2 DEF Goes
<1>4. Onward(j, k) /\ k.pc = "flushed" /\ k.failed = j.failed
  BY <1>2, GoesOn DEF Pcs
<1> HIDE DEF k
<1>5. CASE Active(c) /\ pend[l].claim = c
  <2>1. Show(pend[l]) /\ pend' = [pend EXCEPT ![l] = NoEdit]
    BY <1>1, <1>5 DEF Flushed
  <2>2. pend[l] # NoEdit
    BY <1>2, <1>5, NoEditIs
  <2>3. /\ bubbles' \in [Msgs -> Seq(BubbleType)]
        /\ \A d \in ClaimType, i \in Nat : Own(d, i, bubbles) => Own(d, i, bubbles')
        /\ \A m \in Msgs : bubbles'[m] = bubbles[m] \/ (LaneOf[m] = l /\ row[m].in = "yes")
        /\ pend[l].text = "final" => Seen(c.m, c.lease, bubbles')
    BY <1>5, <2>1, <2>2, ShowIs
  <2>4. /\ pend' \in [Lanes -> EditType] /\ pend'[l] = NoEdit /\ \A q \in Lanes \ {l} : pend'[q] = pend[q]
    BY <1>2, <2>1, NoEditIs
  <2>5. JobOK(k, NoEdit, row, mut, bubbles')
    <3>1. k.live # 0 => Own(k.claim, k.live, bubbles')
      BY <1>2, <1>4, <2>3 DEF JobOK, JobType, Onward
    <3>2. ~k.failed
      BY <1>1, <1>2, <1>4 DEF JobOK, Unacked
    <3>3. k.final /\ Good(k.claim, row, mut) => Seen(c.m, c.lease, bubbles')
      BY <1>1, <1>2, <1>4, <1>5, <2>3 DEF JobOK, Unacked, Onward
    <3>4. NoEdit.claim # k.claim /\ k.claim = c
      BY <1>2, <1>4, NoEditIs DEF Onward
    <3>5. QED
      BY <1>4, <3>1, <3>2, <3>3, <3>4 DEF JobOK, Edits, Unacked, Acked
  <2>6. PendOK(NoEdit, l, LaneOf, issued, row, mut, bubbles')
    BY NoEditIs
  <2>7. QED
    BY <1>1, <1>3, <1>4, <2>3, <2>4, <2>5, <2>6, TurnMoves DEF Onward
<1>6. CASE ~(Active(c) /\ pend[l].claim = c)
  <2>1. UNCHANGED <<pend, bubbles>>
    BY <1>1, <1>6 DEF Flushed
  <2>2. Good(c, row, mut) => pend[l].claim # c
    <3>1. SUFFICES ASSUME Good(c, row, mut), pend[l].claim = c PROVE FALSE
      OBVIOUS
    <3>2. mut.op = "ack" /\ c.m \in mut.for
      BY <1>6, <3>1 DEF Good, Active
    <3>3. mut.lane = l
      BY <1>2, <3>2 DEF WorkInv, WaitInv, ClaimOK
    <3>4. mut.heard
      BY <1>1, <3>2, Working DEF WorkInv, WaitInv, Gone
    <3>5. QED
      BY <1>1, <3>2, <3>3, <3>4 DEF WorkInv, WaitInv, Waiting
  <2>3. JobOK(k, pend[l], row, mut, bubbles)
    BY <1>1, <1>2, <1>4, <2>2 DEF JobOK, Edits, Unacked, Acked, Onward
  <2>4. QED
    BY <1>1, <1>3, <1>4, <2>1, <2>3, QuietTurn DEF Onward
<1>7. QED
  BY <1>5, <1>6

-----------------------------------------------------------------------------
(* The dispatcher.                                                         *)
LEMMA StartingIs ==
  ASSUME NEW n \in Nat, NEW j
  PROVE  Starting(n, j) \in 0 .. n
<1> DEFINE running == Cardinality({l \in Lanes : j[l] # NoJob})
<1>1. IsFiniteSet(Lanes)
  BY FS_Interval, Numbers DEF Lanes, Msgs
<1>2. IsFiniteSet({l \in Lanes : j[l] # NoJob})
  BY <1>1, FS_Subset
<1>3. running \in Nat /\ MaxConcurrent \in Nat
  BY <1>2, FS_CardinalityType, ConstantsAssumption DEF ConstantsAssumption
<1>4. Starting(n, j) = IF MaxConcurrent <= running THEN 0
                       ELSE IF MaxConcurrent - running < n THEN MaxConcurrent - running ELSE n
  BY DEF Starting
<1> HIDE DEF running
<1>5. QED
  BY <1>3, <1>4

(* pump gives workers to the first ready lanes, whose next delivery starts.*)
LEMMA PumpedIs ==
  ASSUME NEW q \in [Lanes -> Seq(ClaimType)], NEW r \in Seq(Lanes),
         NEW j \in [Lanes -> JobType \union {NoJob}], ReadyOK(q, r, j), Pumped(q, r, j)
  PROVE  /\ queue' \in [Lanes -> Seq(ClaimType)] /\ ready' \in Seq(Lanes)
         /\ job' \in [Lanes -> JobType \union {NoJob}] /\ ReadyOK(queue', ready', job')
         /\ \A l \in Lanes :
              \/ job'[l] = j[l] /\ queue'[l] = q[l]
              \/ /\ j[l].pc = "none" /\ q[l] # <<>> /\ job'[l] = Fresh(q[l][1])
                 /\ queue'[l] = Tail(q[l])
<1> DEFINE k == Starting(Len(r), j)
           S == Range(SubSeq(r, 1, k))
<1>1. Len(r) \in Nat /\ k \in 0 .. Len(r)
  BY StartingIs
<1>2. /\ queue' = [l \in Lanes |-> IF l \in S THEN Tail(q[l]) ELSE q[l]]
      /\ ready' = SubSeq(r, k + 1, Len(r))
      /\ job' = [l \in Lanes |-> IF l \in S THEN Fresh(Head(q[l])) ELSE j[l]]
  BY DEF Pumped
<1> HIDE DEF k
<1>3. S = {r[i] : i \in 1 .. k}
  <2>1. SubSeq(r, 1, k) = [i \in 1 .. k |-> r[i]]
    BY <1>1
  <2>2. QED
    BY <2>1 DEF Range
<1> HIDE DEF S
<1>4. \A l \in S : l \in Lanes /\ q[l] # <<>> /\ j[l].pc = "none"
  BY <1>1, <1>3 DEF ReadyOK
<1>5. ASSUME NEW l \in S
      PROVE  q[l][1] \in ClaimType /\ Head(q[l]) = q[l][1] /\ Tail(q[l]) \in Seq(ClaimType)
  <2>1. q[l] \in Seq(ClaimType) /\ q[l] # <<>>
    BY <1>4
  <2>2. QED
    BY <2>1
<1>6. queue' \in [Lanes -> Seq(ClaimType)]
  BY <1>2, <1>5
<1>7. job' \in [Lanes -> JobType \union {NoJob}]
  <2>1. \A l \in S : Fresh(Head(q[l])) \in JobType
    BY <1>5, FreshTurn
  <2>2. QED
    BY <1>2, <2>1
<1>8. /\ ready' \in Seq(Lanes) /\ Len(ready') = Len(r) - k
      /\ \A i \in 1 .. Len(ready') : ready'[i] = r[i + k]
  BY <1>1, <1>2
<1>9. ReadyOK(queue', ready', job')
  <2>1. ASSUME NEW i \in 1 .. Len(ready')
        PROVE  ready'[i] \in Lanes /\ ready'[i] \notin S /\ i + k \in 1 .. Len(r) /\ ready'[i] = r[i + k]
    <3>1. i + k \in 1 .. Len(r) /\ ready'[i] = r[i + k] /\ i + k > k
      BY <1>1, <1>8
    <3>2. \A n \in 1 .. k : r[n] # r[i + k]
      BY <1>1, <3>1 DEF ReadyOK
    <3>3. QED
      BY <1>3, <3>1, <3>2
  <2>2. ASSUME NEW i \in 1 .. Len(ready')
        PROVE  queue'[ready'[i]] # <<>> /\ job'[ready'[i]].pc = "none"
    <3> DEFINE x == r[i + k]
    <3>1. i + k \in 1 .. Len(r) /\ ready'[i] = x /\ x \in Lanes /\ x \notin S
      BY <2>1
    <3>2. q[x] # <<>> /\ j[x].pc = "none"
      BY <3>1 DEF ReadyOK
    <3> HIDE DEF x
    <3>3. queue'[x] = q[x] /\ job'[x] = j[x]
      BY <1>2, <3>1
    <3>4. QED
      BY <3>1, <3>2, <3>3
  <2>3. ASSUME NEW i \in 1 .. Len(ready'), NEW n \in 1 .. Len(ready'), ready'[i] = ready'[n]
        PROVE  i = n
    <3>1. i + k = n + k
      BY <2>1, <2>3 DEF ReadyOK
    <3>2. QED
      BY <1>1, <3>1
  <2>4. QED
    BY <2>2, <2>3 DEF ReadyOK
<1>10. \A l \in Lanes :
          \/ job'[l] = j[l] /\ queue'[l] = q[l]
          \/ /\ j[l].pc = "none" /\ q[l] # <<>> /\ job'[l] = Fresh(q[l][1])
             /\ queue'[l] = Tail(q[l])
  BY <1>2, <1>4, <1>5
<1>11. QED
  BY <1>6, <1>7, <1>8, <1>9, <1>10

LEMMA ReadyIs ==
  ASSUME NEW q, NEW r \in Seq(Lanes), NEW j \in [Lanes -> JobType \union {NoJob}], NEW l \in Lanes,
         ReadyOK(q, r, j)
  PROVE  Ready(q, r, j, l) \in Seq(Lanes) /\ ReadyOK(q, Ready(q, r, j, l), j)
<1>1. CASE q[l] # <<>> /\ j[l] = NoJob /\ l \notin Range(r)
  <2> DEFINE s == Append(r, l)
  <2>1. Ready(q, r, j, l) = s /\ j[l].pc = "none"
    BY <1>1 DEF Ready, NoJob
  <2>2. /\ s \in Seq(Lanes) /\ Len(r) \in Nat /\ Len(s) = Len(r) + 1 /\ s[Len(r) + 1] = l
        /\ \A i \in 1 .. Len(r) : s[i] = r[i] /\ r[i] # l
    BY <1>1 DEF Range
  <2> HIDE DEF s
  <2>3. \A i \in 1 .. Len(s) : i \in 1 .. Len(r) \/ i = Len(r) + 1
    BY <2>2
  <2>4. ReadyOK(q, s, j)
    <3>1. \A i \in 1 .. Len(s) : q[s[i]] # <<>> /\ j[s[i]].pc = "none"
      BY <1>1, <2>1, <2>2, <2>3 DEF ReadyOK
    <3>2. \A i, k \in 1 .. Len(s) : s[i] = s[k] => i = k
      BY <2>2, <2>3 DEF ReadyOK
    <3>3. QED
      BY <3>1, <3>2 DEF ReadyOK
  <2>5. QED
    BY <2>1, <2>2, <2>4
<1>2. CASE ~(q[l] # <<>> /\ j[l] = NoJob /\ l \notin Range(r))
  BY <1>2 DEF Ready
<1>3. QED
  BY <1>1, <1>2

(* A step of the dispatcher: the turns that run go on, and those that      *)
(* start have said nothing yet.                                            *)
LEMMA PumpWorks ==
  ASSUME JournalInv, WorkInv, UNCHANGED <<bot, pend, bubbles>>, ~Gone,
         NEW q \in [Lanes -> Seq(ClaimType)], NEW r \in Seq(Lanes),
         NEW j \in [Lanes -> JobType \union {NoJob}], ReadyOK(q, r, j), Pumped(q, r, j),
         \A l \in Lanes : \A i \in 1 .. Len(q[l]) : ClaimOK(q[l][i], l, LaneOf, issued, row, mut),
         \A l \in Lanes : j[l] = job[l] \/ (j[l] = NoJob /\ job[l].pc \notin {"renewing", "acking"}),
         batch' \in Seq(ClaimType),
         \A i \in 1 .. Len(batch') : ClaimOK(batch'[i], LaneOf[batch'[i].m], LaneOf, issued, row, mut)
  PROVE  WorkInv'
<1>1. UNCHANGED <<LaneOf, row, disk, durable, mut, issued, pend, bubbles>>
  BY DEF bot
<1>2. JournalType' /\ GatewayType
  BY <1>1 DEF JournalInv, JournalType, WorkInv
<1>3. Fading
  BY <1>1, StandsFades
<1>4. /\ queue' \in [Lanes -> Seq(ClaimType)] /\ ready' \in Seq(Lanes)
      /\ job' \in [Lanes -> JobType \union {NoJob}] /\ ReadyOK(queue', ready', job')
      /\ \A l \in Lanes :
           \/ job'[l] = j[l] /\ queue'[l] = q[l]
           \/ /\ j[l].pc = "none" /\ q[l] # <<>> /\ job'[l] = Fresh(q[l][1])
              /\ queue'[l] = Tail(q[l])
  BY PumpedIs
<1>5. ASSUME NEW l \in Lanes, NEW i \in 1 .. Len(queue'[l])
      PROVE  ClaimOK(queue'[l][i], l, LaneOf, issued, row, mut)
  <2>1. CASE queue'[l] = q[l]
    BY <1>5, <2>1
  <2>2. CASE q[l] # <<>> /\ queue'[l] = Tail(q[l])
    <3>1. q[l] \in Seq(ClaimType)
      OBVIOUS
    <3>2. i + 1 \in 1 .. Len(q[l]) /\ queue'[l][i] = q[l][i + 1]
      BY <1>5, <2>2, <3>1
    <3>3. QED
      BY <3>2
  <2>3. QED
    BY <1>4, <2>1, <2>2
<1>6. ASSUME NEW l \in Lanes, job'[l].pc # "none"
      PROVE  /\ ClaimOK(job'[l].claim, l, LaneOf, issued, row, mut)
             /\ JobOK(job'[l], pend[l], row, mut, bubbles)
  <2>1. CASE job'[l] = j[l]
    <3>1. j[l] = job[l] /\ job[l].pc # "none"
      BY <1>6, <2>1 DEF NoJob
    <3>2. QED
      BY <2>1, <3>1 DEF WorkInv, ClaimsInv, JobsInv
  <2>2. CASE q[l] # <<>> /\ job'[l] = Fresh(q[l][1])
    <3> DEFINE c == q[l][1]
    <3>1. q[l] \in Seq(ClaimType) /\ q[l] # <<>>
      BY <2>2
    <3>2. 1 \in 1 .. Len(q[l]) /\ c \in ClaimType
      BY <3>1
    <3>3. ClaimOK(c, l, LaneOf, issued, row, mut)
      BY <3>2
    <3> HIDE DEF c
    <3>4. /\ job'[l].claim = c /\ job'[l].pc = "agent" /\ job'[l].live = 0 /\ ~job'[l].final
      <4>1. \A k \in {Fresh(c), [Fresh(c) EXCEPT !.retried = TRUE]} :
               k.claim = c /\ k.pc = "agent" /\ k.live = 0 /\ ~k.final
        BY <3>2, FreshTurn
      <4>2. job'[l] = Fresh(c)
        BY <2>2 DEF c
      <4>3. QED
        BY <4>1, <4>2
    <3>5. QED
      BY <3>3, <3>4 DEF JobOK, Edits, Unacked, Acked
  <2>3. QED
    BY <1>4, <2>1, <2>2
<1>7. GatewayType'
  BY <1>1, <1>2, <1>4 DEF GatewayType
<1>8. ClaimsInv' /\ PendInv' /\ JobsInv' /\ ReadyInv' /\ SeenInv'
  BY <1>1, <1>4, <1>5, <1>6 DEF WorkInv, ClaimsInv, PendInv, JobsInv, ReadyInv, SeenInv
<1>9. WaitInv'
  <2>1. ASSUME mut.op \in {"renew", "ack"}, mut.heard
        PROVE  mut.lane \in Lanes /\ job'[mut.lane].pc = Waiting(mut.op)
    <3>1. mut.lane \in Lanes /\ job[mut.lane].pc = Waiting(mut.op)
      BY <2>1 DEF WorkInv, WaitInv
    <3>2. Waiting(mut.op) \in {"renewing", "acking"}
      BY DEF Waiting
    <3>3. j[mut.lane] = job[mut.lane]
      BY <3>1, <3>2
    <3>4. job'[mut.lane] = j[mut.lane]
      BY <1>4, <3>1, <3>2, <3>3
    <3>5. QED
      BY <3>1, <3>3, <3>4
  <2>2. QED
    BY <1>1, <2>1 DEF WorkInv, WaitInv
<1>10. QED
  BY <1>7, <1>8, <1>9 DEF WorkInv

LEMMA SubmitWorks ==
  ASSUME JournalInv, WorkInv, Submit
  PROVE  WorkInv'
<1> DEFINE c == batch[1]
           l == LaneOf[c.m]
           q == [queue EXCEPT ![l] = Append(@, c)]
           r == Ready(q, ready, job, l)
<1>1. batch # <<>> /\ batch \in Seq(ClaimType) /\ GatewayType
  BY DEF Submit, WorkInv, GatewayType
<1>2. /\ 1 \in 1 .. Len(batch) /\ c \in ClaimType /\ Head(batch) = c
      /\ Tail(batch) \in Seq(ClaimType)
      /\ \A i \in 1 .. Len(Tail(batch)) : i + 1 \in 1 .. Len(batch) /\ Tail(batch)[i] = batch[i + 1]
  BY <1>1
<1> HIDE DEF c
<1>3. Pumped(q, r, job) /\ batch' = Tail(batch) /\ UNCHANGED <<bot, pend, bubbles>>
  BY <1>2 DEF Submit
<1>4. l \in Lanes /\ ClaimOK(c, l, LaneOf, issued, row, mut)
  BY <1>2 DEF c, WorkInv, ClaimsInv, ClaimType, JournalInv, JournalType
<1> HIDE DEF l
<1>5. /\ queue \in [Lanes -> Seq(ClaimType)] /\ ready \in Seq(Lanes) /\ job \in [Lanes -> JobType \union {NoJob}]
  BY <1>1 DEF GatewayType
<1>6. /\ q \in [Lanes -> Seq(ClaimType)] /\ q[l] = Append(queue[l], c)
      /\ \A k \in Lanes \ {l} : q[k] = queue[k]
  BY <1>2, <1>4, <1>5
<1>7. /\ queue[l] \in Seq(ClaimType) /\ q[l] # <<>> /\ Len(q[l]) = Len(queue[l]) + 1 /\ q[l][Len(q[l])] = c
      /\ \A i \in 1 .. Len(queue[l]) : q[l][i] = queue[l][i]
  <2>1. queue[l] \in Seq(ClaimType)
    BY <1>4, <1>5
  <2>2. QED
    BY <1>2, <1>6, <2>1
<1> HIDE DEF q
<1>8. ReadyOK(q, ready, job)
  BY <1>5, <1>6, <1>7 DEF WorkInv, ReadyInv, ReadyOK
<1>9. r \in Seq(Lanes) /\ ReadyOK(q, r, job)
  BY <1>4, <1>5, <1>8, ReadyIs
<1> HIDE DEF r
<1>10. ASSUME NEW k \in Lanes, NEW i \in 1 .. Len(q[k])
       PROVE  ClaimOK(q[k][i], k, LaneOf, issued, row, mut)
  <2>1. CASE k = l /\ i = Len(q[l])
    BY <1>4, <1>7, <2>1
  <2>2. CASE k = l /\ i # Len(q[l])
    <3>1. i \in 1 .. Len(queue[l])
      BY <1>7, <1>10, <2>2
    <3>2. QED
      BY <1>4, <1>7, <2>2, <3>1 DEF WorkInv, ClaimsInv
  <2>3. CASE k # l
    BY <1>6, <1>10, <2>3 DEF WorkInv, ClaimsInv
  <2>4. QED
    BY <2>1, <2>2, <2>3
<1>11. ~Gone
  BY <1>1 DEF Gone
<1>12. \A i \in 1 .. Len(batch') : ClaimOK(batch'[i], LaneOf[batch'[i].m], LaneOf, issued, row, mut)
  BY <1>2, <1>3 DEF WorkInv, ClaimsInv
<1>13. QED
  BY <1>2, <1>3, <1>5, <1>6, <1>9, <1>10, <1>11, <1>12, PumpWorks

LEMMA JobEndsWorks ==
  ASSUME JournalInv, WorkInv, NEW l \in Lanes, JobEnds(l)
  PROVE  WorkInv'
<1> DEFINE j == [job EXCEPT ![l] = NoJob]
           r == Ready(queue, ready, j, l)
<1>1. /\ job[l] # NoJob /\ job[l].pc = "over" /\ Pumped(queue, r, j) /\ batch' = batch
      /\ UNCHANGED <<bot, pend, bubbles>>
  BY DEF JobEnds
<1>2. /\ queue \in [Lanes -> Seq(ClaimType)] /\ ready \in Seq(Lanes) /\ job \in [Lanes -> JobType \union {NoJob}]
      /\ batch \in Seq(ClaimType)
  BY DEF WorkInv, GatewayType
<1>3. j \in [Lanes -> JobType \union {NoJob}] /\ j[l] = NoJob /\ \A k \in Lanes \ {l} : j[k] = job[k]
  BY <1>2
<1> HIDE DEF j
<1>4. ReadyOK(queue, ready, j)
  <2>1. NoJob.pc = "none" /\ ReadyOK(queue, ready, job)
    BY DEF NoJob, WorkInv, ReadyInv
  <2>2. \A k \in Lanes : job[k].pc = "none" => j[k].pc = "none"
    BY <1>3, <2>1
  <2>3. \A i \in 1 .. Len(ready) : ready[i] \in Lanes
    BY <1>2
  <2>4. QED
    BY <2>1, <2>2, <2>3 DEF ReadyOK
<1>5. r \in Seq(Lanes) /\ ReadyOK(queue, r, j)
  BY <1>2, <1>3, <1>4, ReadyIs
<1> HIDE DEF r
<1>6. ~Gone
  BY <1>1 DEF Gone
<1>7. \A k \in Lanes : \A i \in 1 .. Len(queue[k]) : ClaimOK(queue[k][i], k, LaneOf, issued, row, mut)
  BY DEF WorkInv, ClaimsInv
<1>8. \A i \in 1 .. Len(batch') : ClaimOK(batch'[i], LaneOf[batch'[i].m], LaneOf, issued, row, mut)
  BY <1>1 DEF WorkInv, ClaimsInv
<1>9. \A k \in Lanes : j[k] = job[k] \/ (j[k] = NoJob /\ job[k].pc \notin {"renewing", "acking"})
  BY <1>1, <1>3
<1>10. QED
  BY <1>1, <1>2, <1>3, <1>5, <1>6, <1>7, <1>8, <1>9, PumpWorks

-----------------------------------------------------------------------------
(* Renewals, acknowledgements and the ends of the writes.                  *)
LEMMA RenewWorks ==
  ASSUME JournalInv, WorkInv, JournalInv', NEW l \in Lanes, Renew(l)
  PROVE  WorkInv'
<1> DEFINE j == job[l]
           k == [j EXCEPT !.pc = "renewing"]
<1>1. j # NoJob /\ j.pc = "renew" /\ UNCHANGED <<issued, batch, queue, ready, pend, bubbles>>
  BY DEF Renew, At
<1>2. /\ j \in JobType /\ JobOK(j, pend[l], row, mut, bubbles)
      /\ job \in [Lanes -> JobType \union {NoJob}] /\ pend \in [Lanes -> EditType] /\ batch \in Seq(ClaimType)
      /\ issued \in [Msgs -> Nat] /\ j.pc # "none"
  BY <1>1, TurnIs DEF WorkInv, GatewayType, JournalInv, JournalType
<1>3. CASE Active(j.claim)
  <2>1. /\ row' = row /\ LaneOf' = LaneOf /\ job' = [job EXCEPT ![l] = k]
        /\ mut'.op = "renew" /\ mut'.lane = l /\ mut'.heard = TRUE
    BY <1>2, <1>3 DEF Renew, Begins, Goes
  <2>2. Fading
    BY <1>1, <1>2, <2>1, RowsFade
  <2>3. Onward(j, k) /\ k.pc = "renewing" /\ k.failed = j.failed
    BY <1>2, GoesOn DEF Pcs
  <2> HIDE DEF k
  <2>4. job' \in [Lanes -> JobType \union {NoJob}] /\ job'[l] = k /\ \A q \in Lanes \ {l} : job'[q] = job[q]
    BY <1>2, <2>1, <2>3 DEF Onward
  <2>5. JobOK(k, pend[l], row', mut', bubbles)
    <3>1. Good(j.claim, row', mut') => Good(j.claim, row, mut)
      BY <2>1 DEF Good
    <3>2. QED
      BY <1>1, <1>2, <2>3, <3>1 DEF JobOK, Edits, Unacked, Acked, Onward
  <2>6. WaitInv'
    BY <2>1, <2>3, <2>4 DEF WaitInv, Waiting
  <2>7. SeenInv'
    BY <1>1, <2>1 DEF WorkInv, SeenInv
  <2>8. JournalType'
    BY DEF JournalInv
  <2>9. \A i \in 1 .. Len(batch') :
           ClaimOK(batch'[i], LaneOf'[batch'[i].m], LaneOf', issued', row', mut')
    BY <1>1, <2>2, <2>8, BatchStays
  <2>10. \A q \in Lanes : job'[q] = job[q]
            \/ (/\ job[q].pc # "none" /\ job'[q].pc # "none" /\ job'[q].claim = job[q].claim
                /\ JobOK(job'[q], pend'[q], row', mut', bubbles'))
    BY <1>1, <1>2, <2>3, <2>4, <2>5 DEF Onward
  <2>11. QED
    BY <1>1, <1>2, <2>2, <2>4, <2>6, <2>7, <2>9, <2>10, MutationMoves
<1>4. CASE ~Active(j.claim)
  <2>1. Goes(l, "over") /\ OnlyJob
    BY <1>4 DEF Renew, OnlyJob, bot
  <2>2. QED
    BY <1>1, <2>1, GoesWorks DEF Pcs
<1>5. QED
  BY <1>3, <1>4

LEMMA AckWorks ==
  ASSUME JournalInv, WorkInv, NEW l \in Lanes, Ack(l)
  PROVE  JournalInv' /\ WorkInv'
<1> DEFINE j == job[l]
           c == j.claim
           m == c.m
           k == [j EXCEPT !.pc = "acking"]
           by == IF j.final THEN c.lease ELSE 0
           a == [row[m] EXCEPT !.in = "gone", !.by = by]
           rows == [row EXCEPT ![m] = Freed(a)]
<1>1. j # NoJob /\ j.pc = "flushed" /\ UNCHANGED <<issued, batch, queue, ready, pend, bubbles>>
  BY DEF Ack, At
<1>2. /\ j \in JobType /\ JobOK(j, pend[l], row, mut, bubbles) /\ c \in ClaimType
      /\ ClaimOK(c, l, LaneOf, issued, row, mut)
      /\ job \in [Lanes -> JobType \union {NoJob}] /\ pend \in [Lanes -> EditType] /\ batch \in Seq(ClaimType)
      /\ issued \in [Msgs -> Nat] /\ j.pc # "none" /\ row \in [Msgs -> RowType] /\ m \in Msgs
      /\ c.lease \in Nat
  BY <1>1, TurnIs DEF WorkInv, GatewayType, JournalInv, JournalType, ClaimType
<1>3. CASE Active(c)
  <2>1. by \in Nat
    BY <1>2
  <2>2. Begins("ack", {m}, l, rows) /\ job' = [job EXCEPT ![l] = k]
    BY <1>2, <1>3 DEF Ack, Goes
  <2> HIDE DEF by
  <2>3. JournalInv'
    BY <1>1, <1>2, <1>3, <2>1, <2>2, AckKeeps
  <2>4. Fading
    BY <1>1, <1>2, <1>3, <2>1, <2>2, AckFades
  <2>5. Onward(j, k) /\ k.pc = "acking" /\ k.failed = j.failed
    BY <1>2, GoesOn DEF Pcs
  <2> HIDE DEF k
  <2>6. job' \in [Lanes -> JobType \union {NoJob}] /\ job'[l] = k /\ \A q \in Lanes \ {l} : job'[q] = job[q]
    BY <1>2, <2>2, <2>5 DEF Onward
  <2>7. Good(c, row', mut') => Good(c, row, mut)
    BY <1>2, <2>4 DEF Fading, ClaimOK
  <2>8. JobOK(k, pend[l], row', mut', bubbles)
    BY <1>1, <1>2, <2>5, <2>7 DEF JobOK, Edits, Unacked, Acked, Onward
  <2>9. /\ mut'.op = "ack" /\ mut'.for = {m} /\ mut'.lane = l /\ mut'.heard = TRUE /\ LaneOf' = LaneOf
        /\ row' = rows
    BY <2>2 DEF Begins
  <2>10. WaitInv'
    BY <1>2, <2>5, <2>6, <2>9 DEF WaitInv, Waiting, ClaimOK
  <2>11. a \in RowType /\ a.by = by
    <3>1. row[m] \in RowType
      BY <1>2
    <3>2. QED
      BY <2>1, <3>1 DEF RowType, States
  <2> HIDE DEF a
  <2>12. row'[m].by = by /\ \A n \in Msgs \ {m} : row'[n] = row[n]
    BY <1>2, <2>9, <2>11, FreedType
  <2>13. SeenInv'
    <3>1. by # 0 => Seen(m, by, bubbles)
      <4>1. Good(c, row, mut)
        BY <1>3 DEF Active, Good
      <4>2. QED
        BY <1>1, <1>2, <4>1 DEF by, JobOK, Acked
    <3>2. QED
      BY <1>1, <2>12, <3>1 DEF WorkInv, SeenInv
  <2>14. JournalType'
    BY <2>3 DEF JournalInv
  <2>15. \A i \in 1 .. Len(batch') :
            ClaimOK(batch'[i], LaneOf'[batch'[i].m], LaneOf', issued', row', mut')
    BY <1>1, <2>4, <2>14, BatchStays
  <2>16. \A q \in Lanes : job'[q] = job[q]
            \/ (/\ job[q].pc # "none" /\ job'[q].pc # "none" /\ job'[q].claim = job[q].claim
                /\ JobOK(job'[q], pend'[q], row', mut', bubbles'))
    BY <1>1, <1>2, <2>5, <2>6, <2>8 DEF Onward
  <2>17. QED
    BY <1>1, <1>2, <2>3, <2>4, <2>6, <2>10, <2>13, <2>15, <2>16, MutationMoves
<1>4. CASE ~Active(c)
  <2>1. job' = [job EXCEPT ![l] = AckAgain(j)] /\ OnlyJob
    BY <1>2, <1>4 DEF Ack, OnlyJob, bot
  <2>2. JournalInv'
    BY <2>1 DEF OnlyJob, bot, JournalInv, JournalType, InLine, Arrived, MutInv, Unmoved, ByInv
  <2>3. QED
    BY <1>1, <2>1, <2>2, AckAgainWorks
<1>5. QED
  BY <1>3, <1>4

(* Whoever waits for a mutation hears how it ended.                        *)
LEMMA AnsweredIs ==
  ASSUME JournalInv, WorkInv, NEW ok \in BOOLEAN, Answered(ok), mut.op # "none", NEW r, NEW u,
         r = row \/ ~ok, u.op = "none",
         \A c \in ClaimType : c.lease # 0 /\ c.lease <= issued[c.m] /\ Good(c, r, u) => Good(c, row, mut)
  PROVE  /\ batch' \in Seq(ClaimType) /\ job' \in [Lanes -> JobType \union {NoJob}]
         /\ batch' = batch \/ (\A i \in 1 .. Len(batch') :
                ClaimOK(batch'[i], LaneOf[batch'[i].m], LaneOf, issued, r, u))
         /\ \A l \in Lanes : job'[l] = job[l]
              \/ (/\ job[l].pc # "none" /\ job'[l].pc # "none" /\ job'[l].claim = job[l].claim
                  /\ JobOK(job'[l], pend[l], r, u, bubbles) /\ mut.op # "revise")
<1> DEFINE l == mut.lane
           j == job[l]
<1>1. batch \in Seq(ClaimType) /\ job \in [Lanes -> JobType \union {NoJob}]
  BY DEF WorkInv, GatewayType
<1>2. CASE mut.op = "lease" /\ mut.heard
  <2>1. job' = job
    BY <1>2 DEF Answered
  <2>2. CASE ~ok
    <3>1. batch' = <<>>
      BY <1>2, <2>2 DEF Answered
    <3>2. QED
      BY <1>1, <2>1, <3>1
  <2>3. CASE ok
    <3>1. PICK s \in Oldest(mut.for) : batch' = [i \in DOMAIN s |-> ClaimOf(s[i])]
      BY <1>2, <2>3 DEF Answered
    <3>2. /\ row \in [Msgs -> RowType] /\ mut.for \in SUBSET Msgs /\ LaneOf \in [Msgs -> Lanes]
          /\ InLine(row, LaneOf, issued)
      BY DEF JournalInv, JournalType, MutType
    <3>3. Cardinality(mut.for) \in Nat
      <4>1. IsFiniteSet(Msgs)
        BY FS_Interval, Numbers DEF Msgs
      <4>2. QED
        BY <3>2, <4>1, FS_Subset, FS_CardinalityType
    <3> DEFINE n == Cardinality(mut.for)
    <3>4. s \in [1 .. n -> mut.for]
      BY DEF Oldest
    <3> HIDE DEF n
    <3>5. n \in Nat
      BY <3>3 DEF n
    <3>6. ASSUME NEW m \in mut.for
          PROVE  ClaimOf(m) \in ClaimType /\ ClaimOK(ClaimOf(m), LaneOf[m], LaneOf, issued, r, u) /\ ClaimOf(m).m = m
      <4>1. m \in Msgs /\ row[m] \in RowType /\ row[m].lease # 0
        BY <1>2, <3>2 DEF WorkInv, WaitInv
      <4>2. ClaimOf(m) \in ClaimType /\ ClaimOf(m).m = m /\ ClaimOf(m).lease = row[m].lease /\ ClaimOf(m).rev = row[m].rev
        BY <4>1 DEF ClaimOf, ClaimType, RowType
      <4>3. r = row
        BY <2>3
      <4>4. QED
        BY <3>2, <4>1, <4>2, <4>3 DEF ClaimOK, InLine
    <3>7. batch' = [i \in 1 .. n |-> ClaimOf(s[i])]
      BY <3>1, <3>4
    <3>8. batch' \in Seq(ClaimType) /\ Len(batch') = n
      BY <3>4, <3>5, <3>6, <3>7
    <3>9. \A i \in 1 .. n : ClaimOK(batch'[i], LaneOf[batch'[i].m], LaneOf, issued, r, u)
      BY <3>4, <3>6, <3>7
    <3>10. QED
      BY <1>1, <2>1, <3>8, <3>9
  <2>4. QED
    BY <2>2, <2>3
<1>3. CASE mut.op \in {"renew", "ack"} /\ mut.heard
  <2>1. l \in Lanes /\ j.pc \in {"renewing", "acking"} /\ j # NoJob /\ batch' = batch
    BY <1>3 DEF WorkInv, WaitInv, Waiting, Answered, NoJob
  <2>2. /\ j \in JobType /\ j.claim \in ClaimType /\ JobOK(j, pend[l], row, mut, bubbles)
        /\ ClaimOK(j.claim, l, LaneOf, issued, row, mut)
    BY <2>1, TurnIs
  <2>3. PICK k : /\ job' = [job EXCEPT ![l] = k] /\ Onward(j, k) /\ k.pc \in {"ack", "over"} /\ k.failed = j.failed
    <3>1. CASE mut.op = "renew"
      <4> DEFINE x == IF ok THEN "ack" ELSE "over"
                 k == [j EXCEPT !.pc = x]
      <4>1. job' = [job EXCEPT ![l] = k]
        BY <1>1, <1>3, <2>1, <3>1 DEF Answered, Goes
      <4>2. x \in Pcs /\ x \in {"ack", "over"}
        BY DEF Pcs
      <4> HIDE DEF x
      <4>3. Onward(j, k) /\ k.pc = x /\ k.failed = j.failed
        BY <2>2, <4>2, GoesOn
      <4> HIDE DEF k
      <4>4. QED
        BY <4>1, <4>2, <4>3
    <3>2. CASE mut.op = "ack" /\ ok
      <4> DEFINE k == [j EXCEPT !.pc = "over"]
      <4>1. job' = [job EXCEPT ![l] = k]
        BY <1>1, <1>3, <2>1, <3>2 DEF Answered
      <4>2. Onward(j, k) /\ k.pc = "over" /\ k.failed = j.failed
        BY <2>2, GoesOn DEF Pcs
      <4> HIDE DEF k
      <4>3. QED
        BY <4>1, <4>2
    <3>3. CASE mut.op = "ack" /\ ~ok
      <4>1. job' = [job EXCEPT ![l] = AckAgain(j)]
        BY <1>1, <1>3, <2>1, <3>3 DEF Answered
      <4>2. QED
        BY <2>2, <4>1, AckedAgain
    <3>4. QED
      BY <1>3, <3>1, <3>2, <3>3
  <2>4. k \in JobType /\ k.claim = j.claim /\ k.pc # "none"
    BY <2>3 DEF Onward
  <2>5. Good(j.claim, r, u) => Good(j.claim, row, mut)
    BY <2>2 DEF ClaimOK
  <2>6. JobOK(k, pend[l], r, u, bubbles)
    BY <2>1, <2>2, <2>3, <2>5 DEF JobOK, Edits, Unacked, Acked, Onward
  <2>7. job' \in [Lanes -> JobType \union {NoJob}] /\ job'[l] = k /\ \A q \in Lanes \ {l} : job'[q] = job[q]
    BY <1>1, <2>1, <2>3, <2>4
  <2>8. j.pc # "none"
    BY <2>1
  <2>9. QED
    BY <1>1, <1>3, <2>1, <2>4, <2>6, <2>7, <2>8
<1>4. CASE ~(mut.heard /\ mut.op \in {"lease", "renew", "ack"})
  <2>1. batch' = batch /\ job' = job
    BY <1>4 DEF Answered
  <2>2. QED
    BY <1>1, <2>1
<1>5. QED
  BY <1>2, <1>3, <1>4

LEMMA SavedWorks ==
  ASSUME JournalInv, WorkInv, JournalInv', NEW lost \in BOOLEAN, MutationSaved(lost)
  PROVE  WorkInv'
<1>1. /\ mut.op # "none" /\ mut' = NoMut /\ UNCHANGED <<LaneOf, row, issued, queue, ready, bubbles>>
      /\ pend' = [l \in Lanes |-> IF Revoked(l) THEN NoEdit ELSE pend[l]] /\ Answered(~lost)
  BY DEF MutationSaved, Quiet
<1>2. /\ mut'.op = "none" /\ issued \in [Msgs -> Nat] /\ pend \in [Lanes -> EditType]
      /\ row \in [Msgs -> RowType] /\ JournalType' /\ LaneOf \in [Msgs -> Lanes]
  BY <1>1 DEF NoMut, JournalInv, JournalType, WorkInv, GatewayType
<1>3. Fading
  BY <1>1, <1>2, RowsFade
<1>4. /\ batch' \in Seq(ClaimType) /\ job' \in [Lanes -> JobType \union {NoJob}]
      /\ batch' = batch \/ (\A i \in 1 .. Len(batch') :
            ClaimOK(batch'[i], LaneOf[batch'[i].m], LaneOf, issued, row', mut'))
      /\ \A l \in Lanes : job'[l] = job[l]
           \/ (/\ job[l].pc # "none" /\ job'[l].pc # "none" /\ job'[l].claim = job[l].claim
               /\ JobOK(job'[l], pend[l], row', mut', bubbles) /\ mut.op # "revise")
  <2>1. \A c \in ClaimType : c.lease # 0 /\ c.lease <= issued[c.m] /\ Good(c, row', mut') => Good(c, row, mut)
    BY <1>3 DEF Fading
  <2>2. row' = row /\ (~lost) \in BOOLEAN
    BY <1>1
  <2>3. QED
    BY <1>1, <1>2, <2>1, <2>2, AnsweredIs
<1>5. \A i \in 1 .. Len(batch') :
         ClaimOK(batch'[i], LaneOf'[batch'[i].m], LaneOf', issued', row', mut')
  <2>1. CASE batch' = batch
    BY <1>2, <1>3, <2>1, BatchStays
  <2>2. CASE batch' # batch
    BY <1>1, <1>4, <2>2
  <2>3. QED
    BY <2>1, <2>2
<1>6. pend' \in [Lanes -> EditType] /\ \A l \in Lanes : pend'[l] = IF Revoked(l) THEN NoEdit ELSE pend[l]
  BY <1>1, <1>2, NoEditIs
<1>7. ASSUME NEW l \in Lanes, Revoked(l), NEW c \in ClaimType, LaneOf[c.m] = l, c.lease # 0, c.lease <= issued[c.m],
             Good(c, row', mut')
      PROVE  FALSE
  <2>1. c.m \in Msgs /\ row[c.m].in = "yes" /\ row[c.m].live
    BY <1>1, <1>2, <1>7 DEF ClaimType, Good
  <2>2. PICK m \in mut.for : LaneOf[m] = l /\ mut.before[m].lease # 0
    BY <1>7 DEF Revoked
  <2>3. /\ mut.op = "revise" /\ mut.for \in SUBSET Msgs /\ m \in Msgs
    BY <1>7 DEF Revoked, JournalInv, JournalType, MutType
  <2>4. /\ InLine(mut.before, LaneOf, issued) /\ mut.before[m].in = "yes"
        /\ ~row[m].live
    BY <2>3 DEF JournalInv, MutInv
  <2>5. c.m \notin mut.for
    BY <2>1, <2>3 DEF JournalInv, MutInv
  <2>6. row[c.m].lease # 0
    BY <2>1 DEF JournalInv, InLine
  <2>7. mut.before[c.m].in = "yes" /\ mut.before[c.m].lease # 0
    <3>1. Unmoved(c.m)
      BY <2>1, <2>3, <2>5 DEF JournalInv, MutInv
    <3>2. QED
      BY <2>1, <2>6, <3>1 DEF Unmoved
  <2>8. ~(c.m < m) /\ ~(m < c.m)
    BY <1>7, <2>1, <2>2, <2>3, <2>4, <2>7 DEF InLine
  <2>9. c.m \in Nat /\ m \in Nat
    BY <2>1, <2>3, Numbers
  <2>10. QED
    BY <2>1, <2>4, <2>8, <2>9
<1>8. \A l \in Lanes : pend'[l] = pend[l]
         \/ (pend'[l] = NoEdit /\ \A c \in ClaimType :
               LaneOf[c.m] = l /\ c.lease # 0 /\ c.lease <= issued[c.m] => ~Good(c, row', mut'))
  BY <1>6, <1>7
<1>9. \A l \in Lanes : job'[l] = job[l]
         \/ (/\ job[l].pc # "none" /\ job'[l].pc # "none" /\ job'[l].claim = job[l].claim
             /\ JobOK(job'[l], pend'[l], row', mut', bubbles))
  <2>1. \A l \in Lanes : mut.op # "revise" => pend'[l] = pend[l]
    BY <1>6 DEF Revoked
  <2>2. QED
    BY <1>4, <2>1
<1>10. WaitInv'
  BY <1>2 DEF WaitInv
<1>11. SeenInv'
  BY <1>1 DEF WorkInv, SeenInv
<1>12. QED
  BY <1>1, <1>3, <1>4, <1>5, <1>6, <1>8, <1>9, <1>10, <1>11, MutationMoves

LEMMA FailsWorks ==
  ASSUME JournalInv, WorkInv, JournalInv', MutationFails
  PROVE  WorkInv'
<1>1. /\ mut.op # "none" /\ mut' = NoMut /\ row' = RolledBack /\ Answered(FALSE)
      /\ UNCHANGED <<LaneOf, disk, issued, queue, ready, bubbles, pend>>
  BY DEF MutationFails, Quiet
<1>2. /\ mut'.op = "none" /\ pend \in [Lanes -> EditType] /\ row \in [Msgs -> RowType] /\ JournalType'
      /\ LaneOf \in [Msgs -> Lanes]
  BY <1>1 DEF NoMut, JournalInv, JournalType, WorkInv, GatewayType
<1>3. Fading
  BY FailFades
<1>4. /\ batch' \in Seq(ClaimType) /\ job' \in [Lanes -> JobType \union {NoJob}]
      /\ batch' = batch \/ (\A i \in 1 .. Len(batch') :
            ClaimOK(batch'[i], LaneOf[batch'[i].m], LaneOf, issued, row', mut'))
      /\ \A l \in Lanes : job'[l] = job[l]
           \/ (/\ job[l].pc # "none" /\ job'[l].pc # "none" /\ job'[l].claim = job[l].claim
               /\ JobOK(job'[l], pend[l], row', mut', bubbles) /\ mut.op # "revise")
  <2>1. \A c \in ClaimType : c.lease # 0 /\ c.lease <= issued[c.m] /\ Good(c, row', mut') => Good(c, row, mut)
    BY <1>3 DEF Fading
  <2>2. QED
    BY <1>1, <1>2, <2>1, AnsweredIs
<1>5. \A i \in 1 .. Len(batch') :
         ClaimOK(batch'[i], LaneOf'[batch'[i].m], LaneOf', issued', row', mut')
  <2>1. CASE batch' = batch
    BY <1>2, <1>3, <2>1, BatchStays
  <2>2. CASE batch' # batch
    BY <1>1, <1>4, <2>2
  <2>3. QED
    BY <2>1, <2>2
<1>6. WaitInv'
  BY <1>2 DEF WaitInv
<1>7. SeenInv'
  <2>1. SUFFICES ASSUME NEW m \in Msgs, row'[m].by # 0 PROVE row'[m].by = row[m].by
    BY <1>1 DEF WorkInv, SeenInv
  <2>2. row[m] \in RowType
    BY <1>2
  <2>3. CASE m \in mut.for /\ mut.op = "lease"
    <3>1. row'[m] = Freed(row[m])
      BY <1>1, <2>3 DEF RolledBack
    <3>2. QED
      BY <2>2, <3>1, FreedType
  <2>4. CASE m \in mut.for /\ mut.op = "ack"
    <3>1. row'[m] = mut.before[m] /\ mut.before[m].by = 0
      BY <1>1, <2>4 DEF RolledBack, JournalInv, MutInv
    <3>2. QED
      BY <2>1, <3>1
  <2>5. CASE m \notin mut.for \/ mut.op \notin {"lease", "ack"}
    BY <1>1, <2>5 DEF RolledBack
  <2>6. QED
    BY <2>3, <2>4, <2>5
<1>8. QED
  BY <1>1, <1>2, <1>3, <1>4, <1>5, <1>6, <1>7, MutationMoves

LEMMA GatewayDiesWorks ==
  ASSUME JournalInv, WorkInv, GatewayDies
  PROVE  JournalInv' /\ WorkInv'
<1>1. /\ batch' = <<>> /\ ready' = <<>> /\ queue' = [l \in Lanes |-> <<>>] /\ job' = [l \in Lanes |-> NoJob]
      /\ mut' = [mut EXCEPT !.heard = FALSE] /\ UNCHANGED <<LaneOf, row, disk, durable, issued, pend, bubbles>>
  BY DEF GatewayDies
<1>2. /\ mut' \in MutType /\ mut'.op = mut.op /\ mut'.for = mut.for /\ mut'.lane = mut.lane
      /\ mut'.before = mut.before /\ mut'.heard = FALSE
  BY <1>1 DEF JournalInv, JournalType, MutType
<1>3. JournalInv'
  <2>1. JournalType' /\ InLine(row', LaneOf', issued') /\ Arrived(disk') /\ ByInv'
    BY <1>1, <1>2 DEF JournalInv, JournalType, ByInv
  <2>2. MutInv'
    BY <1>1, <1>2 DEF JournalInv, MutInv, Unmoved
  <2>3. QED
    BY <2>1, <2>2 DEF JournalInv
<1>4. \A c : Good(c, row', mut') <=> Good(c, row, mut)
  BY <1>1, <1>2 DEF Good
<1>5. NoJob.pc = "none" /\ \A l \in Lanes : job'[l] = NoJob /\ queue'[l] = <<>>
  BY <1>1 DEF NoJob
<1>6. GatewayType'
  BY <1>1 DEF WorkInv, GatewayType
<1>7. PendInv' /\ SeenInv'
  BY <1>1, <1>4 DEF WorkInv, PendInv, PendOK, ClaimOK, SeenInv
<1>8. ClaimsInv' /\ JobsInv' /\ ReadyInv'
  BY <1>1, <1>5 DEF ClaimsInv, JobsInv, ReadyInv, ReadyOK
<1>9. WaitInv'
  BY <1>1, <1>2, <1>5 DEF WorkInv, WaitInv, Gone
<1>10. QED
  BY <1>3, <1>6, <1>7, <1>8, <1>9 DEF WorkInv

(* Nothing is good after a restart: no lease survives it.                  *)
LEMMA BotDiesWorks ==
  ASSUME JournalInv, WorkInv, BotDies
  PROVE  WorkInv'
<1>1. /\ row' = Restored /\ mut' = NoMut /\ pend' = [l \in Lanes |-> NoEdit]
      /\ job' = [l \in Lanes |-> Orphaned(job[l])]
      /\ UNCHANGED <<LaneOf, disk, issued, bubbles, batch, queue, ready>>
  BY DEF BotDies
<1>2. /\ disk \in [Msgs -> DiskType] /\ issued \in [Msgs -> Nat] /\ JournalInv' /\ batch \in Seq(ClaimType)
  BY DiesKeeps DEF JournalInv, JournalType, WorkInv, GatewayType
<1>3. \A m \in Msgs : row'[m].lease = 0 /\ ~row'[m].live /\ row'[m].by = disk[m].by
  BY <1>1 DEF Restored
<1>4. mut'.op = "none"
  BY <1>1 DEF NoMut
<1>5. Fading
  BY <1>1, <1>2, <1>3, <1>4, RowsFade
<1>6. \A c \in ClaimType : ~Good(c, row', mut')
  BY <1>3, <1>4 DEF Good, ClaimType
<1>7. pend' \in [Lanes -> EditType] /\ \A l \in Lanes : pend'[l] = NoEdit
  BY <1>1, NoEditIs
<1>8. ASSUME NEW l \in Lanes
      PROVE  \/ job'[l] = job[l]
             \/ /\ job[l].pc # "none" /\ job'[l].pc # "none" /\ job'[l].claim = job[l].claim /\ job'[l] \in JobType
                /\ JobOK(job'[l], pend'[l], row', mut', bubbles)
  <2> DEFINE j == job[l]
             k == Orphaned(j)
  <2>1. CASE j = NoJob
    BY <1>1, <2>1 DEF Orphaned
  <2>2. CASE j # NoJob
    <3>1. /\ j \in JobType /\ JobOK(j, pend[l], row, mut, bubbles) /\ j.pc # "none" /\ j.claim \in ClaimType
      BY <2>2, TurnIs DEF JobType, Pcs
    <3>2. \/ k = j
          \/ /\ Onward(j, k) /\ k.pc \in {"agent", "ended", "ack", "over"}
             /\ (k.pc = "agent" => j.pc = "publishFirst") /\ (k.pc = "ack" => ~j.failed /\ ~k.failed)
      <4>1. CASE j.pc \in Publishing
        <5>1. k = Lost(j)
          BY <2>2, <4>1 DEF Orphaned
        <5> HIDE DEF k
        <5>2. QED
          BY <3>1, <4>1, <5>1, LostTurn DEF Publishing, Streaming
      <4>2. CASE j.pc = "renewing"
        <5>1. k = [j EXCEPT !.pc = "over"] /\ "over" \in Pcs
          BY <2>2, <4>2 DEF Orphaned, Publishing, Pcs
        <5> HIDE DEF k
        <5>2. Onward(j, k) /\ k.pc = "over"
          BY <3>1, <5>1, GoesOn
        <5>3. QED
          BY <5>2
      <4>3. CASE j.pc = "acking"
        <5>1. k = AckAgain(j)
          BY <2>2, <4>3 DEF Orphaned, Publishing
        <5>2. ~j.failed
          BY <3>1, <4>3 DEF JobOK, Acked
        <5> HIDE DEF k
        <5>3. QED
          BY <3>1, <5>1, <5>2, AckedAgain
      <4>4. CASE j.pc \notin Publishing \union {"renewing", "acking"}
        BY <2>2, <4>4 DEF Orphaned
      <4>5. QED
        BY <4>1, <4>2, <4>3, <4>4
    <3>3. job'[l] = k
      BY <1>1
    <3> HIDE DEF k
    <3>4. CASE k = j
      BY <3>3, <3>4
    <3>5. CASE /\ Onward(j, k) /\ k.pc \in {"agent", "ended", "ack", "over"}
               /\ (k.pc = "agent" => j.pc = "publishFirst") /\ (k.pc = "ack" => ~j.failed /\ ~k.failed)
      <4>1. /\ k \in JobType /\ k.claim = j.claim /\ k.live = j.live /\ k.final = j.final
            /\ ~Good(k.claim, row', mut')
        BY <1>6, <3>1, <3>5 DEF Onward
      <4>2. JobOK(k, pend'[l], row', mut', bubbles)
        BY <3>1, <3>5, <4>1 DEF JobOK, Edits, Unacked, Acked
      <4>3. k.pc # "none"
        BY <3>5
      <4>4. QED
        BY <3>1, <3>3, <4>1, <4>2, <4>3
    <3>6. QED
      BY <3>2, <3>4, <3>5
  <2>3. QED
    BY <2>1, <2>2
<1>9. job' \in [Lanes -> JobType \union {NoJob}]
  <2>1. \A l \in Lanes : job'[l] \in JobType \union {NoJob}
    BY <1>8 DEF WorkInv, GatewayType
  <2>2. QED
    BY <1>1, <2>1
<1>10. SeenInv'
  <2>1. ASSUME NEW m \in Msgs, row'[m].by # 0 PROVE row'[m].by = row[m].by
    BY <1>3, <2>1 DEF JournalInv, ByInv
  <2>2. QED
    BY <1>1, <2>1 DEF WorkInv, SeenInv
<1>11. WaitInv'
  BY <1>4 DEF WaitInv
<1>12. \A i \in 1 .. Len(batch') :
          ClaimOK(batch'[i], LaneOf'[batch'[i].m], LaneOf', issued', row', mut')
  <2>1. JournalType'
    BY <1>2 DEF JournalInv
  <2>2. QED
    BY <1>1, <1>5, <2>1, BatchStays
<1>13. QED
  BY <1>1, <1>2, <1>5, <1>6, <1>7, <1>8, <1>9, <1>10, <1>11, <1>12, MutationMoves

-----------------------------------------------------------------------------
(* Init and the steps together.                                            *)
LEMMA JournalStays ==
  ASSUME JournalInv, UNCHANGED <<LaneOf, row, disk, durable, mut, issued>>
  PROVE  JournalInv'
BY DEF JournalInv, JournalType, InLine, Arrived, MutInv, Unmoved, ByInv

LEMMA FailuresWork ==
  ASSUME JournalInv, WorkInv, NEW l \in Lanes, Fails(l)
  PROVE  JournalInv' /\ WorkInv'
<1>1. UNCHANGED <<LaneOf, row, disk, durable, mut, issued>>
  BY DEF Fails, EditAccepted, Published, SubmitFails, Throws, AckFlushFails, OnlyJob, bot
<1>2. JournalInv'
  BY <1>1, JournalStays
<1>3. CASE EditAccepted(l, TRUE)
  BY <1>2, <1>3, EditWorks
<1>4. CASE Published(l, TRUE)
  BY <1>2, <1>4, PublishedWorks
<1>5. CASE SubmitFails(l)
  <2>1. job \in [Lanes -> JobType \union {NoJob}]
    BY DEF WorkInv, GatewayType
  <2>2. /\ job[l] # NoJob /\ job[l].pc \in Sends \union Edits \union Publishing
        /\ job' = [job EXCEPT ![l] = Refused(job[l])] /\ OnlyJob /\ UNCHANGED <<pend, bubbles>>
    BY <1>5, <2>1 DEF SubmitFails
  <2>3. QED
    BY <1>2, <2>2, RefusalWorks
<1>6. CASE Throws(l)
  BY <1>2, <1>6, ThrowsWorks
<1>7. CASE AckFlushFails(l)
  <2>1. job \in [Lanes -> JobType \union {NoJob}]
    BY DEF WorkInv, GatewayType
  <2>2. /\ job[l] # NoJob /\ job[l].pc = "ack" /\ job' = [job EXCEPT ![l] = AckAgain(job[l])]
        /\ OnlyJob /\ UNCHANGED <<pend, bubbles>>
    BY <1>7, <2>1 DEF AckFlushFails, At
  <2>3. QED
    BY <1>2, <2>2, AckAgainWorks
<1>8. QED
  BY <1>3, <1>4, <1>5, <1>6, <1>7 DEF Fails

LEMMA TurnsWork ==
  ASSUME JournalInv, WorkInv, NEW l \in Lanes, Turn(l) \/ Frame(l) \/ FrameDue(l) \/ Conflict(l)
  PROVE  JournalInv' /\ WorkInv'
<1>1. UNCHANGED <<LaneOf, row, disk, durable, mut, issued>>
  BY DEF Turn, Final, Silent, SendAccepted, EditAccepted, SendRefused, Published, Returns, AckArrives,
         JobEnds, Frame, FrameDue, Conflict, OnlyJob, bot
<1>2. JournalInv'
  BY <1>1, JournalStays
<1>3. CASE SendRefused(l)
  <2>1. job \in [Lanes -> JobType \union {NoJob}]
    BY DEF WorkInv, GatewayType
  <2>2. /\ job[l] # NoJob /\ job[l].pc \in Sends \union Edits \union Publishing
        /\ job' = [job EXCEPT ![l] = Refused(job[l])] /\ OnlyJob /\ UNCHANGED <<pend, bubbles>>
    BY <1>3, <2>1 DEF SendRefused
  <2>3. QED
    BY <1>2, <2>2, RefusalWorks
<1>4. CASE EditAccepted(l, FALSE) \/ Published(l, FALSE)
  BY <1>2, <1>4, EditWorks, PublishedWorks
<1>5. CASE Final(l) \/ Silent(l) \/ SendAccepted(l)
  BY <1>2, <1>5, FinalWorks, SilentWorks, SendWorks
<1>6. CASE Returns(l) \/ AckArrives(l) \/ JobEnds(l)
  BY <1>2, <1>6, ReturnsWorks, AckArrivesWorks, JobEndsWorks
<1>7. CASE Frame(l) \/ FrameDue(l) \/ Conflict(l)
  BY <1>2, <1>7, FrameWorks, FrameDueWorks, ConflictWorks
<1>8. QED
  BY <1>3, <1>4, <1>5, <1>6, <1>7 DEF Turn

LEMMA RequestsWork ==
  ASSUME JournalInv, WorkInv, NEW l \in Lanes, Requests(l)
  PROVE  JournalInv' /\ WorkInv'
<1>1. CASE Ack(l)
  BY <1>1, AckWorks
<1>2. CASE Renew(l)
  <2>1. JournalInv'
    <3>1. CASE Active(job[l].claim)
      <4>1. /\ Begins("renew", {job[l].claim.m}, l, row) /\ issued' = issued
        BY <1>2, <3>1 DEF Renew
      <4>2. {job[l].claim.m} \in SUBSET Msgs
        BY <1>2, TurnIs DEF Renew, At, ClaimType
      <4>3. QED
        BY <4>1, <4>2, RewriteKeeps
    <3>2. CASE ~Active(job[l].claim)
      BY <1>2, <3>2, JournalStays DEF Renew
    <3>3. QED
      BY <3>1, <3>2
  <2>2. QED
    BY <1>2, <2>1, RenewWorks
<1>3. QED
  BY <1>1, <1>2 DEF Requests

LEMMA BridgeStarts == Init => JournalInv /\ WorkInv
<1>1. SUFFICES ASSUME Init PROVE JournalInv /\ WorkInv
  OBVIOUS
<1> USE Numbers
<1>2. /\ row = [m \in Msgs |-> [in |-> "no", rev |-> 0, lease |-> 0, live |-> FALSE, by |-> 0]]
      /\ mut = NoMut /\ issued = [m \in Msgs |-> 0] /\ pend = [l \in Lanes |-> NoEdit]
      /\ bubbles = [m \in Msgs |-> <<>>] /\ batch = <<>> /\ ready = <<>>
      /\ queue = [l \in Lanes |-> <<>>] /\ job = [l \in Lanes |-> NoJob]
      /\ disk = OnDisk(row) /\ durable = TRUE /\ LaneOf \in [Msgs -> Lanes]
  BY <1>1 DEF Init
<1>3. row \in [Msgs -> RowType] /\ \A m \in Msgs : row[m].in = "no" /\ row[m].lease = 0 /\ ~row[m].live /\ row[m].by = 0
  BY <1>2 DEF RowType, States
<1>4. disk \in [Msgs -> DiskType] /\ \A m \in Msgs : disk[m].in = "no" /\ disk[m].by = 0
  BY <1>2, <1>3 DEF OnDisk, DiskType, RowType
<1>5. mut.op = "none" /\ NoJob.pc = "none"
  BY <1>2 DEF NoMut, NoJob
<1>6. JournalType
  <2>1. issued \in [Msgs -> Nat] /\ durable \in BOOLEAN
    BY <1>2
  <2>2. QED
    BY <1>2, <1>3, <1>4, <2>1, NoMutType DEF JournalType
<1>7. InLine(row, LaneOf, issued) /\ Arrived(disk)
  <2>1. \A m \in Msgs : row[m].lease <= issued[m]
    BY <1>2, <1>3
  <2>2. QED
    BY <1>3, <1>4, <2>1 DEF InLine, Arrived
<1>8. MutInv /\ ByInv /\ WaitInv
  BY <1>3, <1>4, <1>5 DEF MutInv, ByInv, WaitInv
<1>9. GatewayType
  <2>1. pend \in [Lanes -> EditType] /\ bubbles \in [Msgs -> Seq(BubbleType)]
    BY <1>2, NoEditIs
  <2>2. QED
    BY <1>2, <2>1 DEF GatewayType
<1>10. ClaimsInv /\ ReadyInv /\ JobsInv
  BY <1>2, <1>5 DEF ClaimsInv, ReadyInv, ReadyOK, JobsInv
<1>11. PendInv /\ SeenInv
  BY <1>2, <1>3 DEF PendInv, PendOK, SeenInv
<1>12. QED
  BY <1>6, <1>7, <1>8, <1>9, <1>10, <1>11 DEF JournalInv, WorkInv

LEMMA BridgeSteps ==
  ASSUME JournalInv, WorkInv, [Next]_vars
  PROVE  JournalInv' /\ WorkInv'
<1>1. ASSUME NEW m \in Msgs, Arrives(m) PROVE JournalInv' /\ WorkInv'
  BY <1>1, ArrivesKeeps, ArrivesWorks
<1>2. ASSUME NEW m \in Msgs, Revise(m) PROVE JournalInv' /\ WorkInv'
  BY <1>2, ReviseKeeps, ReviseWorks
<1>3. ASSUME NEW m \in Msgs, OrphanLapses(m) \/ HeldLapses(m) PROVE JournalInv' /\ WorkInv'
  BY <1>3, LapsesKeeps, LapsesWorks DEF OrphanLapses, HeldLapses
<1>4. CASE RetryWrite
  <2>1. Begins("retry", {}, 0, row) /\ issued' = issued
    BY <1>4 DEF RetryWrite
  <2>2. JournalInv'
    BY <2>1, RewriteKeeps
  <2>3. QED
    BY <1>4, <2>2, RetryWorks
<1>5. CASE Lease
  BY <1>5, LeaseKeeps, LeaseWorks
<1>6. CASE Saved \/ SavedUnheard
  <2>1. PICK lost \in BOOLEAN : MutationSaved(lost)
    BY <1>6 DEF Saved, SavedUnheard
  <2>2. JournalInv'
    BY <2>1, SavedKeeps
  <2>3. QED
    BY <2>1, <2>2, SavedWorks
<1>7. CASE MutationFails
  BY <1>7, FailsKeeps, FailsWorks
<1>8. CASE Submit
  BY <1>8, SubmitWorks, JournalStays DEF Submit, bot
<1>9. ASSUME NEW l \in Lanes, Turn(l) \/ Frame(l) \/ FrameDue(l) \/ Conflict(l) PROVE JournalInv' /\ WorkInv'
  BY <1>9, TurnsWork
<1>10. ASSUME NEW l \in Lanes, Requests(l) PROVE JournalInv' /\ WorkInv'
  BY <1>10, RequestsWork
<1>11. ASSUME NEW l \in Lanes, Fails(l) PROVE JournalInv' /\ WorkInv'
  BY <1>11, FailuresWork
<1>12. CASE GatewayDies
  BY <1>12, GatewayDiesWorks
<1>13. CASE BotDies
  BY <1>13, DiesKeeps, BotDiesWorks
<1>14. CASE UNCHANGED vars
  <2>1. UNCHANGED <<LaneOf, row, disk, durable, mut, issued, pend, bubbles, batch, queue, ready, job>>
    BY <1>14 DEF vars, bot, gateway
  <2>2. JournalInv'
    BY <2>1, JournalStays
  <2>3. WorkInv'
    BY <2>1 DEF WorkInv, GatewayType, ClaimsInv, ReadyInv, WaitInv, Gone, PendInv, JobsInv, SeenInv
  <2>4. QED
    BY <2>2, <2>3
<1>15. QED
  BY <1>1, <1>2, <1>3, <1>4, <1>5, <1>6, <1>7, <1>8, <1>9, <1>10, <1>11, <1>12, <1>13, <1>14 DEF Next

LEMMA BridgeHolds == Spec => [](JournalInv /\ WorkInv)
<1>1. Init => JournalInv /\ WorkInv
  BY BridgeStarts
<1>2. JournalInv /\ WorkInv /\ [Next]_vars => (JournalInv /\ WorkInv)'
  BY BridgeSteps
<1>3. QED
  BY <1>1, <1>2, PTL DEF Spec

-----------------------------------------------------------------------------
(* A lane's messages are worked on one at a time and in order, through     *)
(* failed writes that take leases back or restore acknowledged rows,       *)
(* restarts, edits and stale workers (index.mjs:3585-3594).                *)
THEOREM LanesStayInOrder == Spec => []LaneInOrder
<1>1. JournalInv => LaneInOrder
  BY DEF JournalInv, InLine, LaneInOrder
<1>2. QED
  BY <1>1, BridgeHolds, PTL

(* A row that was acknowledged as answered has its whole answer on the     *)
(* screen: what the throttle held back was flushed first, and nothing      *)
(* overwrites it (index.mjs:3672-3701, 4039-4042).                         *)
THEOREM TheAnsweredIsSeen == Spec => []AnsweredIsSeen
<1>1. WorkInv => AnsweredIsSeen
  <2>1. SUFFICES ASSUME WorkInv, NEW m \in Msgs, row[m].by # 0
                 PROVE  \E i \in DOMAIN bubbles[m] : bubbles[m][i].lease = row[m].by /\ bubbles[m][i].text = "final"
    BY DEF AnsweredIsSeen
  <2>2. Seen(m, row[m].by, bubbles) /\ bubbles[m] \in Seq(BubbleType)
    BY <2>1 DEF WorkInv, SeenInv, GatewayType
  <2>3. QED
    BY <2>2 DEF Seen
<1>2. QED
  BY <1>1, BridgeHolds, PTL

Fresher(m) ==
  /\ row[m].in = "yes"
  /\ \E i \in DOMAIN bubbles'[m] : bubbles'[m][i].rev = row[m].rev
        /\ (i \in DOMAIN bubbles[m] => bubbles'[m][i] # bubbles[m][i])

LEMMA ShownIsFresh ==
  ASSUME JournalInv, WorkInv, NEW l \in Lanes, Show(pend[l]), Active(pend[l].claim), pend[l] # NoEdit,
         NEW m \in Msgs, bubbles'[m] # bubbles[m]
  PROVE  Fresher(m)
<1> DEFINE e == pend[l]
           c == e.claim
           i == e.bubble
           w == bubbles[c.m]
           x == [w[i] EXCEPT !.text = e.text]
           v == [w EXCEPT ![i] = x]
<1>1. /\ bubbles \in [Msgs -> Seq(BubbleType)] /\ e \in EditType
      /\ PendOK(e, l, LaneOf, issued, row, mut, bubbles)
  BY DEF WorkInv, GatewayType, PendInv
<1>2. /\ c.m \in Msgs /\ ClaimOK(c, l, LaneOf, issued, row, mut)
      /\ i \in 1 .. Len(w) /\ w[i].rev = c.rev
  BY <1>1 DEF PendOK, Own, ClaimType
<1>3. bubbles' = [bubbles EXCEPT ![c.m] = v] /\ w \in Seq(BubbleType)
  BY <1>1, <1>2 DEF Show
<1>4. m = c.m /\ bubbles'[m] = v
  BY <1>1, <1>2, <1>3
<1>5. row[m].in = "yes" /\ c.rev = row[m].rev
  BY <1>2, <1>4 DEF Active, ClaimOK, Good
<1> HIDE DEF w
<1>6. w[i] \in BubbleType
  BY <1>2, <1>3
<1>7. x.rev = c.rev
  BY <1>2, <1>6 DEF BubbleType
<1> HIDE DEF x
<1>8. DOMAIN v = DOMAIN w /\ i \in DOMAIN v /\ v[i] = x /\ w = [n \in DOMAIN w |-> w[n]]
  BY <1>2, <1>3
<1>9. v[i] # w[i]
  <2>1. SUFFICES ASSUME x = w[i] PROVE FALSE
    BY <1>8
  <2>2. v = w
    BY <1>8, <2>1
  <2>3. QED
    BY <1>4, <2>2 DEF w
<1>10. QED
  BY <1>4, <1>5, <1>7, <1>8, <1>9 DEF Fresher, w

LEMMA PublishedIsFresh ==
  ASSUME JournalInv, WorkInv, NEW l \in Lanes, NEW lost \in BOOLEAN, Published(l, lost),
         NEW m \in Msgs, bubbles'[m] # bubbles[m]
  PROVE  Fresher(m)
<1> DEFINE j == job[l]
           c == j.claim
           b == [lease |-> c.lease, rev |-> c.rev,
                 text |-> IF j.pc = "publishFirst" THEN "progress" ELSE "final"]
           w == bubbles[c.m]
<1>1. /\ j # NoJob /\ Active(c) /\ bubbles' = [bubbles EXCEPT ![c.m] = Append(w, b)]
  BY DEF Published, Fenced
<1>2. c.m \in Msgs /\ ClaimOK(c, l, LaneOf, issued, row, mut) /\ bubbles \in [Msgs -> Seq(BubbleType)]
  BY <1>1, TurnIs DEF ClaimType
<1>3. m = c.m /\ bubbles'[m] = Append(w, b) /\ w \in Seq(BubbleType) /\ b.rev = c.rev
  BY <1>1, <1>2
<1>4. row[m].in = "yes" /\ c.rev = row[m].rev
  BY <1>1, <1>2, <1>3 DEF Active, ClaimOK, Good
<1> HIDE DEF b, w
<1>5. /\ Len(w) + 1 \in DOMAIN Append(w, b) /\ Append(w, b)[Len(w) + 1] = b
      /\ Len(w) + 1 \notin DOMAIN w
  BY <1>3
<1>6. QED
  BY <1>3, <1>4, <1>5 DEF Fresher, w

(* Whatever appears on the screen answers the message as it stands: not an *)
(* older text of it, nor one whose row is gone (bridge.md:151-154).        *)
THEOREM NothingStaleIsShown == Spec => NoStaleAnswer
<1>1. ASSUME JournalInv, WorkInv, [Next]_vars, NEW m \in Msgs, bubbles'[m] # bubbles[m]
      PROVE  Fresher(m)
  <2>1. bubbles' # bubbles
    BY <1>1
  <2>2. PICK l \in Lanes : \/ Published(l, FALSE) \/ Published(l, TRUE)
                           \/ FrameDue(l) \/ AckArrives(l)
    BY <1>1, <2>1 DEF Next, vars, bot, gateway, Turn, Fails, Requests, Arrives, Revise, OrphanLapses, HeldLapses,
       Lapses, RetryWrite, Lease, Saved, SavedUnheard, MutationSaved, MutationFails, Submit, Final, Silent,
       SendAccepted, EditAccepted, SendRefused, Returns, JobEnds, Renew, Ack, Frame, Conflict, SubmitFails,
       Throws, AckFlushFails, GatewayDies, BotDies
  <2>3. CASE Published(l, FALSE) \/ Published(l, TRUE)
    BY <1>1, <2>3, PublishedIsFresh
  <2>4. CASE FrameDue(l)
    BY <1>1, <2>4, ShownIsFresh DEF FrameDue
  <2>5. CASE AckArrives(l)
    <3>1. At(l, "ack") /\ Flushed(l)
      BY <2>5 DEF AckArrives
    <3>2. Active(job[l].claim) /\ pend[l].claim = job[l].claim /\ Show(pend[l])
      BY <2>1, <3>1 DEF Flushed
    <3>3. pend[l] # NoEdit
      <4>1. job[l].claim \in ClaimType
        BY <1>1, <3>1, TurnIs DEF At
      <4>2. QED
        BY <3>2, <4>1, NoEditIs
    <3>4. QED
      BY <1>1, <3>2, <3>3, ShownIsFresh
  <2>6. QED
    BY <2>2, <2>3, <2>4, <2>5
<1>2. JournalInv /\ WorkInv /\ [Next]_vars =>
        [\A m \in Msgs : bubbles'[m] # bubbles[m] =>
            /\ row[m].in = "yes"
            /\ \E i \in DOMAIN bubbles'[m] : bubbles'[m][i].rev = row[m].rev
                  /\ (i \in DOMAIN bubbles[m] => bubbles'[m][i] # bubbles[m][i])]_vars
  BY <1>1 DEF Fresher
<1>3. QED
  BY <1>2, BridgeHolds, PTL DEF Spec, NoStaleAnswer

-----------------------------------------------------------------------------
(* The context of a T3ams channel. An entry says what its record says: a   *)
(* record changes only together with the entry, a record that is new finds *)
(* no entry or comes with the operation that makes it, and who has an      *)
(* entry was committed, so that no message is routed again beside its own  *)
(* entry.                                                                  *)

Sayings    == [msg : Remarks, text : Wording]
Operations == [kind : {"delete", "edit"}, msg : Remarks, text : Wording]
Records    == [at : Nat, edit : Wording \cup {None}, deleted : BOOLEAN]

ContextType ==
  /\ rest \in [first : [Remarks -> {"empty", "fits", "large", "prompt", None}], ops : Nat,
               crashes : Nat, expiries : Nat, clock : Nat \ {0}]
  /\ posted \in [Remarks -> Wording \cup {None}]
  /\ ops \in [Context!Authors -> Operations \cup {None}]
  /\ rec \in [Remarks -> Records \cup {None}]
  /\ ctxDisk.rec \in [Remarks -> Records \cup {None}]

NotedWerePosted(log) == \A m \in log : m \in Remarks /\ posted[m] # None

Entered(c, log) == c \in Seq(Sayings) /\ \A i \in 1 .. Len(c) : c[i].msg \in log

(* What an entry may say beside a record.                                  *)
Follows(e, r, first) ==
  r # None => /\ ~r.deleted
              /\ LET t == IF r.edit # None /\ r.edit.at > r.at THEN r.edit ELSE first[e.msg]
                 IN  e.text = t \/ t.size = "large"

ContextInv ==
  /\ ContextType
  /\ NotedWerePosted(noted) /\ NotedWerePosted(ctxDisk.seen)
  /\ Entered(ctx, noted)
  /\ \A i \in 1 .. Len(ctx) : Follows(ctx[i], rec[ctx[i].msg], posted)

-----------------------------------------------------------------------------
(* What a sequence has at some of its places is in the sequence.           *)
LEMMA Ranked ==
  ASSUME NEW len \in Nat, NEW places \in SUBSET (1 .. len)
  PROVE  /\ IsFiniteSet(places) /\ Cardinality(places) \in Nat
         /\ \A n \in 1 .. Cardinality(places) :
              \E i \in places : Cardinality({j \in places : j <= i}) = n
  <1> DEFINE upTo(i) == {j \in places : j <= i}
             rank == [i \in places |-> Cardinality(upTo(i))]
             top == Cardinality(places)
  <1>1. IsFiniteSet(places) /\ top \in Nat
    <2>1. IsFiniteSet(1 .. len) BY FS_Interval
    <2> QED BY <2>1, FS_Subset, FS_CardinalityType
  <1>2. ASSUME NEW i \in places
        PROVE  IsFiniteSet(upTo(i)) /\ Cardinality(upTo(i)) \in 1 .. top
    <2>1. upTo(i) \in SUBSET places /\ i \in upTo(i) BY <1>2
    <2>2. IsFiniteSet(upTo(i)) /\ Cardinality(upTo(i)) <= top BY <1>1, <2>1, FS_Subset
    <2>3. Cardinality(upTo(i)) \in Nat BY <2>2, FS_CardinalityType
    <2>4. Cardinality(upTo(i)) # 0 BY <2>1, <2>2, FS_EmptySet
    <2> QED BY <1>1, <2>2, <2>3, <2>4
  <1>3. ASSUME NEW i \in places, NEW k \in places, i < k
        PROVE  Cardinality(upTo(i)) # Cardinality(upTo(k))
    <2>0. \A j \in places : j \in Int OBVIOUS
    <2>1. k \in upTo(k) /\ k \notin upTo(i) BY <1>3, <2>0
    <2>3. \A j \in places : j <= i => j <= k BY <1>3, <2>0
    <2>4. upTo(i) \in SUBSET upTo(k) BY <2>3
    <2>2. IsFiniteSet(upTo(k)) BY <1>2
    <2> QED BY <2>1, <2>2, <2>4, FS_Subset
  <1>4. rank \in [places -> 1 .. top] BY <1>2
  <1>5. ASSUME NEW i \in places, NEW k \in places, rank[i] = rank[k] PROVE i = k
    <2>1. i \in Int /\ k \in Int BY <1>5
    <2>2. ~(i < k) /\ ~(k < i) BY <1>3, <1>5
    <2> QED BY <2>1, <2>2
  <1>6. rank \in Injection(places, 1 .. top) BY <1>4, <1>5 DEF Injection, IsInjective
  <1>7. IsFiniteSet(1 .. top) /\ Cardinality(1 .. top) = top BY <1>1, FS_Interval
  <1>8. rank \in Surjection(places, 1 .. top) BY <1>6, <1>7, FS_Injection
  <1>9. \A n \in 1 .. top : \E i \in places : rank[i] = n BY <1>8 DEF Surjection
  <1> QED BY <1>1, <1>9

LEMMA SameCardinality == \A S : Context!Cardinality(S) = Cardinality(S)
  BY DEF Context!Cardinality, Cardinality

LEMMA PickedAt ==
  ASSUME NEW S, NEW c \in Seq(S), NEW places \in SUBSET (1 .. Len(c))
  PROVE  /\ Context!At(c, places) \in Seq(S)
         /\ \A n \in 1 .. Len(Context!At(c, places)) : \E i \in places : Context!At(c, places)[n] = c[i]
  <1> DEFINE upTo(i) == {j \in places : j <= i}
             chosen(n) == CHOOSE i \in places : Context!Cardinality(upTo(i)) = n
             top == Context!Cardinality(places)
             at == Context!At(c, places)
  <1>1. Len(c) \in Nat OBVIOUS
  <1>2. top \in Nat BY <1>1, Ranked, SameCardinality
  <1>3. ASSUME NEW n \in 1 .. top PROVE chosen(n) \in places
    <2>1. \E i \in places : Cardinality(upTo(i)) = n BY <1>1, <1>3, Ranked, SameCardinality
    <2>2. \E i \in places : Context!Cardinality(upTo(i)) = n BY <2>1, SameCardinality
    <2> QED BY <2>2
  <1>4. at = [n \in 1 .. top |-> c[chosen(n)]] BY DEF Context!At
  <1> HIDE DEF upTo, chosen, at, top
  <1>5. \A n \in 1 .. top : c[chosen(n)] \in S
    <2>1. \A i \in places : c[i] \in S OBVIOUS
    <2> QED BY <1>3, <2>1
  <1>6. at \in Seq(S) /\ Len(at) = top BY <1>2, <1>4, <1>5, IsASeq
  <1>7. \A n \in 1 .. top : at[n] = c[chosen(n)] BY <1>4
  <1> QED BY <1>3, <1>6, <1>7 DEF at

-----------------------------------------------------------------------------
(* The lifecycle.                                                          *)
LEMMA BlankType == Context!Blank \in Records /\ Context!Blank.edit = None /\ Context!Blank.at = 0
                   /\ Context!Blank.deleted = FALSE
  BY DEF Context!Blank, Records

LEMMA InForceIs ==
  ASSUME NEW r \in Records, NEW m \in Remarks, posted \in [Remarks -> Wording \cup {None}], posted[m] # None
  PROVE  Context!InForce(r, m) \in Wording
  <1>1. r.edit \in Wording \cup {None} /\ posted[m] \in Wording BY DEF Records
  <1> QED BY <1>1 DEF Context!InForce

(* applyOperation: what it changes, and what then counts.                  *)
LEMMA OperationType ==
  ASSUME NEW r \in Records, NEW o \in Operations
  PROVE  Context!WithOperation(r, o) \in Records
  <1>1. o.text \in Wording BY DEF Operations
  <1>2. [r EXCEPT !.deleted = TRUE] \in Records BY DEF Records
  <1>3. [r EXCEPT !.edit = o.text] \in Records BY <1>1 DEF Records
  <1> QED BY <1>2, <1>3 DEF Context!WithOperation

LEMMA OperationCounts ==
  ASSUME NEW r \in Records, NEW o \in Operations, NEW after, after = Context!WithOperation(r, o),
         after # r, ~after.deleted
  PROVE  after.edit = o.text /\ after.edit # None /\ after.edit.at > after.at
  <1>1. o.text \in Wording /\ r.at \in Nat /\ r.edit \in Wording \cup {None} BY DEF Operations, Records
  <1>2. [r EXCEPT !.deleted = TRUE].deleted BY DEF Records
  <1>3. o.kind # "delete" /\ ~r.deleted /\ o.text.at > Context!Version(r) /\ after = [r EXCEPT !.edit = o.text]
        BY <1>2 DEF Context!WithOperation
  <1>4. after.edit = o.text /\ after.at = r.at BY <1>3 DEF Records
  <1>5. o.text # None BY <1>1, ContextAssumption
  <1>6. o.text.at \in Nat /\ Context!Version(r) >= r.at /\ Context!Version(r) \in Nat
    <2>1. o.text.at \in Nat BY <1>1 DEF Wording
    <2>2. r.edit # None => r.edit.at \in Nat BY <1>1 DEF Wording
    <2> QED BY <1>1, <2>1, <2>2 DEF Context!Version
  <1> QED BY <1>1, <1>3, <1>4, <1>5, <1>6

(* A message no operation is known of is changed by every one.             *)
LEMMA BlankChanges ==
  ASSUME NEW o \in Operations
  PROVE  Context!WithOperation(Context!Blank, o) # Context!Blank
  <1>1. o.text \in Wording BY DEF Operations
  <1>2. o.text # None /\ o.text.at \in Nat \ {0} BY <1>1, ContextAssumption DEF Wording
  <1>3. [Context!Blank EXCEPT !.deleted = TRUE].deleted BY DEF Context!Blank
  <1>4. [Context!Blank EXCEPT !.edit = o.text].edit = o.text BY DEF Context!Blank
  <1>5. Context!Version(Context!Blank) = 0 BY BlankType DEF Context!Version
  <1>6. o.text.at > Context!Version(Context!Blank) BY <1>2, <1>5
  <1> QED BY <1>2, <1>3, <1>4, <1>6, BlankType DEF Context!WithOperation

-----------------------------------------------------------------------------
(* The context.                                                            *)

(* An append says what is in force of a message that was not there.        *)
LEMMA AppendedIs ==
  ASSUME NEW log, Entered(ctx, log), NEW m \in Remarks, NEW t \in Wording
  PROVE  /\ Context!Appended(m, t) \in Seq(Sayings)
         /\ \A n \in 1 .. Len(Context!Appended(m, t)) :
              \/ Context!Appended(m, t)[n] = [msg |-> m, text |-> t]
              \/ \E i \in 1 .. Len(ctx) : Context!Appended(m, t)[n] = ctx[i]
  <1> DEFINE e == [msg |-> m, text |-> t]
             c == Append(ctx, e)
             done == Context!Appended(m, t)
  <1>1. e \in Sayings /\ ctx \in Seq(Sayings) BY DEF Sayings, Entered
  <1>2. /\ c \in Seq(Sayings) /\ Len(c) = Len(ctx) + 1 /\ c[Len(c)] = e
        /\ \A i \in 1 .. Len(ctx) : c[i] = ctx[i]
        BY <1>1, AppendProperties
  <1>3. \A i \in 1 .. Len(c) : i \in 1 .. Len(ctx) \/ i = Len(c) BY <1>1, <1>2
  <1>4. CASE done = ctx BY <1>1, <1>4
  <1>5. CASE done = Context!Trimmed(c)
    <2> HIDE DEF c
    <2>1. DOMAIN c = 1 .. Len(c) BY <1>2
    <2>2. PICK places \in SUBSET (1 .. Len(c)) : Context!Trimmed(c) = Context!At(c, places)
          BY <2>1 DEF Context!Trimmed
    <2>3. /\ Context!At(c, places) \in Seq(Sayings)
          /\ \A n \in 1 .. Len(Context!At(c, places)) : \E i \in places : Context!At(c, places)[n] = c[i]
          BY <1>2, PickedAt
    <2>4. ASSUME NEW n \in 1 .. Len(done) PROVE done[n] = e \/ \E i \in 1 .. Len(ctx) : done[n] = ctx[i]
      <3>1. PICK i \in places : done[n] = c[i] BY <1>5, <2>2, <2>3
      <3>2. i \in 1 .. Len(ctx) \/ i = Len(c) BY <1>3
      <3> QED BY <1>2, <3>1, <3>2
    <2> QED BY <1>5, <2>2, <2>3, <2>4
  <1> QED BY <1>4, <1>5 DEF Context!Appended

LEMMA WithoutIs ==
  ASSUME NEW log, Entered(ctx, log), NEW m
  PROVE  /\ Context!Without(m) \in Seq(Sayings)
         /\ \A n \in 1 .. Len(Context!Without(m)) :
              \E i \in 1 .. Len(ctx) : Context!Without(m)[n] = ctx[i] /\ ctx[i].msg # m
  <1> DEFINE places == {i \in DOMAIN ctx : ctx[i].msg # m}
  <1>1. ctx \in Seq(Sayings) /\ DOMAIN ctx = 1 .. Len(ctx) BY DEF Entered
  <1>2. places \in SUBSET (1 .. Len(ctx)) /\ \A i \in places : ctx[i].msg # m BY <1>1
  <1>3. Context!Without(m) = Context!At(ctx, places) BY DEF Context!Without
  <1> HIDE DEF places
  <1>4. /\ Context!At(ctx, places) \in Seq(Sayings)
        /\ \A n \in 1 .. Len(Context!At(ctx, places)) : \E i \in places : Context!At(ctx, places)[n] = ctx[i]
        BY <1>1, <1>2, PickedAt
  <1> QED BY <1>2, <1>3, <1>4

LEMMA ReplacedIs ==
  ASSUME NEW log, Entered(ctx, log), NEW m \in Remarks, NEW t \in Wording
  PROVE  /\ Context!Replaced(m, t) \in Seq(Sayings) /\ Len(Context!Replaced(m, t)) = Len(ctx)
         /\ t.size = "fits" => \A i \in 1 .. Len(ctx) :
              Context!Replaced(m, t)[i] = IF ctx[i].msg = m THEN [msg |-> m, text |-> t] ELSE ctx[i]
         /\ t.size # "fits" => Context!Replaced(m, t) = ctx
  <1> DEFINE new == [i \in 1 .. Len(ctx) |-> IF ctx[i].msg = m THEN [msg |-> m, text |-> t] ELSE ctx[i]]
  <1>1. ctx \in Seq(Sayings) /\ DOMAIN ctx = 1 .. Len(ctx) /\ Len(ctx) \in Nat BY DEF Entered
  <1>2. [msg |-> m, text |-> t] \in Sayings BY DEF Sayings
  <1>3. \A i \in 1 .. Len(ctx) : (IF ctx[i].msg = m THEN [msg |-> m, text |-> t] ELSE ctx[i]) \in Sayings
        BY <1>1, <1>2
  <1>4. new \in Seq(Sayings) /\ Len(new) = Len(ctx) BY <1>1, <1>3, IsASeq
  <1>5. Context!Replaced(m, t) = IF t.size # "fits" THEN ctx ELSE new BY <1>1 DEF Context!Replaced
  <1> QED BY <1>1, <1>4, <1>5
-----------------------------------------------------------------------------
(* Steps of the context.                                                   *)
LEMMA TextType ==
  ASSUME NEW at \in Nat \ {0}, NEW kind \in {"empty", "fits", "large", "prompt"}
  PROVE  Context!Text(at, kind) \in Wording
  BY DEF Context!Text, Wording

LEMMA KeptIs ==
  ASSUME NEW f \in [Remarks -> Records \cup {None}], NEW order
  PROVE  /\ Context!Kept(f, order) \in [Remarks -> Records \cup {None}]
         /\ \A m \in Remarks : Context!Kept(f, order)[m] \in {f[m], None}
  BY DEF Context!Kept

LEMMA FollowsBoth ==
  ASSUME NEW e, NEW r, NEW r2, NEW first, NEW first2, Follows(e, r, first),
         r2 \in {r, None}, first2[e.msg] = first[e.msg]
  PROVE  Follows(e, r2, first2)
  BY DEF Follows

LEMMA ContextPosts ==
  ASSUME ContextInv, NEW m \in Remarks, Context!Posts(m)
  PROVE  ContextInv'
  <1> DEFINE t == Context!Text(rest.clock, rest.first[m])
  <1>1. /\ posted[m] = None /\ rest.first[m] # None
        /\ posted' = [posted EXCEPT ![m] = t] /\ rest' = [rest EXCEPT !.clock = @ + 1]
        /\ UNCHANGED <<ops, rec, lru, noted, ctx, prompts, ctxDisk>>
        BY DEF Context!Posts
  <1>2. ContextType BY DEF ContextInv
  <1>3. t \in Wording
    <2>1. rest.clock \in Nat \ {0} /\ rest.first[m] \in {"empty", "fits", "large", "prompt"} BY <1>1, <1>2 DEF ContextType
    <2> QED BY <2>1, TextType
  <1> HIDE DEF t
  <1>4. t # None BY <1>3, ContextAssumption
  <1>5. posted' \in [Remarks -> Wording \cup {None}] BY <1>1, <1>2, <1>3 DEF ContextType
  <1>6. \A n \in Remarks : posted[n] # None => posted'[n] = posted[n] BY <1>1, <1>2 DEF ContextType
  <1>7. NotedWerePosted(noted)' /\ NotedWerePosted(ctxDisk.seen)'
        BY <1>1, <1>6 DEF ContextInv, NotedWerePosted
  <1>8. rest' \in [first : [Remarks -> {"empty", "fits", "large", "prompt", None}], ops : Nat,
                   crashes : Nat, expiries : Nat, clock : Nat \ {0}]
        BY <1>1, <1>2 DEF ContextType
  <1>9. ContextType' BY <1>1, <1>2, <1>5, <1>8 DEF ContextType
  <1>10. Entered(ctx, noted)' BY <1>1 DEF ContextInv
  <1>11. ASSUME NEW i \in 1 .. Len(ctx) PROVE Follows(ctx[i], rec[ctx[i].msg], posted')
    <2>1. ctx[i].msg \in noted /\ Follows(ctx[i], rec[ctx[i].msg], posted) BY DEF ContextInv, Entered
    <2>2. ctx[i].msg \in Remarks /\ posted[ctx[i].msg] # None BY <2>1 DEF ContextInv, NotedWerePosted
    <2> QED BY <1>6, <2>1, <2>2, FollowsBoth
  <1> QED BY <1>1, <1>7, <1>9, <1>10, <1>11 DEF ContextInv

LEMMA ContextOperates ==
  ASSUME ContextInv, NEW m \in Remarks, Context!Operates(m)
  PROVE  ContextInv'
  <1>1. ContextType BY DEF ContextInv
  <1>2. PICK o \in {[kind |-> "delete", msg |-> m, text |-> Context!Text(rest.clock, "empty")]}
                   \cup {[kind |-> "edit", msg |-> m, text |-> t] : t \in Context!Edits(rest.clock)} :
          ops' = [ops EXCEPT ![AuthorOf[m]] = o]
        BY DEF Context!Operates
  <1>3. /\ rest' = [rest EXCEPT !.clock = @ + 1, !.ops = @ - 1] /\ rest.ops > 0
        /\ UNCHANGED <<posted, rec, lru, noted, ctx, prompts, ctxDisk>>
        BY DEF Context!Operates
  <1>4. rest.clock \in Nat \ {0} BY <1>1 DEF ContextType
  <1>5. o \in Operations
    <2>1. Context!Text(rest.clock, "empty") \in Wording BY <1>4, TextType
    <2>2. \A t \in Context!Edits(rest.clock) : t \in Wording BY <1>4, TextType DEF Context!Edits
    <2>3. CASE o = [kind |-> "delete", msg |-> m, text |-> Context!Text(rest.clock, "empty")]
          BY <2>1, <2>3 DEF Operations
    <2>4. CASE o \in {[kind |-> "edit", msg |-> m, text |-> t] : t \in Context!Edits(rest.clock)}
          BY <2>2, <2>4 DEF Operations
    <2> QED BY <1>2, <2>3, <2>4
  <1>6. ops' \in [Context!Authors -> Operations \cup {None}] BY <1>1, <1>2, <1>5 DEF ContextType
  <1>7. rest' \in [first : [Remarks -> {"empty", "fits", "large", "prompt", None}], ops : Nat,
                   crashes : Nat, expiries : Nat, clock : Nat \ {0}]
    <2>1. rest \in [first : [Remarks -> {"empty", "fits", "large", "prompt", None}], ops : Nat,
                    crashes : Nat, expiries : Nat, clock : Nat \ {0}]
          BY <1>1 DEF ContextType
    <2>2. rest.clock + 1 \in Nat \ {0} /\ rest.ops - 1 \in Nat BY <1>3, <2>1
    <2> QED BY <1>3, <2>1, <2>2
  <1>8. ContextType' BY <1>1, <1>3, <1>6, <1>7 DEF ContextType
  <1>9. /\ NotedWerePosted(noted)' /\ NotedWerePosted(ctxDisk.seen)' /\ Entered(ctx, noted)'
        /\ (\A i \in 1 .. Len(ctx) : Follows(ctx[i], rec[ctx[i].msg], posted))'
        BY <1>3 DEF ContextInv, NotedWerePosted
  <1> QED BY <1>8, <1>9 DEF ContextInv

LEMMA ContextReceivesMessage ==
  ASSUME ContextInv, NEW m \in Remarks, Context!ReceiveMessage(m)
  PROVE  ContextInv'
  <1> DEFINE r == Context!WithMessage(m)
             t == Context!InForce(r, m)
             given == [rec EXCEPT ![m] = r]
  <1>1. /\ posted[m] # None /\ m \notin noted /\ noted' = noted \cup {m}
        /\ rec' = Context!Kept(given, lru')
        /\ UNCHANGED <<posted, ops, ctxDisk, rest>>
        BY DEF Context!ReceiveMessage, Context!node
  <1>2. UNCHANGED ctx \/ (~r.deleted /\ ctx' = Context!Appended(m, t)) BY DEF Context!ReceiveMessage
  <1>3. ContextType BY DEF ContextInv
  <1>4. r \in Records
    <2> DEFINE old == IF rec[m] = None THEN Context!Blank ELSE rec[m]
    <2>1. old \in Records BY <1>3, BlankType DEF ContextType
    <2>2. posted[m].at \in Nat
      <3>1. posted[m] \in Wording BY <1>1, <1>3 DEF ContextType
      <3> QED BY <3>1 DEF Wording
    <2>3. r = [old EXCEPT !.at = posted[m].at] BY DEF Context!WithMessage
    <2> HIDE DEF old
    <2>4. [old EXCEPT !.at = posted[m].at] \in Records BY <2>1, <2>2 DEF Records
    <2> QED BY <2>3, <2>4
  <1>5. t \in Wording BY <1>1, <1>3, <1>4, InForceIs DEF ContextType
  <1> HIDE DEF r
  <1>6. given \in [Remarks -> Records \cup {None}] /\ given[m] = r /\ \A n \in Remarks \ {m} : given[n] = rec[n]
        BY <1>3, <1>4 DEF ContextType
  <1> HIDE DEF given
  <1>7. /\ rec' \in [Remarks -> Records \cup {None}] /\ rec'[m] \in {r, None}
        /\ \A n \in Remarks \ {m} : rec'[n] \in {rec[n], None}
        BY <1>1, <1>6, KeptIs
  <1>8. ContextType' BY <1>1, <1>3, <1>7 DEF ContextType
  <1>9. NotedWerePosted(noted)' /\ NotedWerePosted(ctxDisk.seen)' BY <1>1 DEF ContextInv, NotedWerePosted
  <1>10. ASSUME NEW i \in 1 .. Len(ctx)
         PROVE  ctx[i].msg \in noted' /\ Follows(ctx[i], rec'[ctx[i].msg], posted')
    <2>1. ctx[i].msg \in noted /\ Follows(ctx[i], rec[ctx[i].msg], posted) BY DEF ContextInv, Entered
    <2>2. ctx[i].msg \in Remarks \ {m} BY <1>1, <2>1 DEF ContextInv, NotedWerePosted
    <2> QED BY <1>1, <1>7, <2>1, <2>2, FollowsBoth
  <1>11. CASE UNCHANGED ctx
    <2>1. Entered(ctx, noted)' BY <1>10, <1>11 DEF ContextInv, Entered
    <2>2. (\A i \in 1 .. Len(ctx) : Follows(ctx[i], rec[ctx[i].msg], posted))' BY <1>10, <1>11
    <2> QED BY <1>8, <1>9, <2>1, <2>2 DEF ContextInv
  <1>12. CASE ~r.deleted /\ ctx' = Context!Appended(m, t)
    <2> DEFINE e == [msg |-> m, text |-> t]
    <2>1. /\ ctx' \in Seq(Sayings)
          /\ \A n \in 1 .. Len(ctx') : ctx'[n] = e \/ \E i \in 1 .. Len(ctx) : ctx'[n] = ctx[i]
          BY <1>5, <1>12, AppendedIs DEF ContextInv
    <2>2. Follows(e, rec'[m], posted')
      <3>1. Follows(e, r, posted) BY <1>12 DEF Follows, Context!InForce
      <3>2. e.msg = m OBVIOUS
      <3> QED BY <1>1, <1>7, <3>1, <3>2, FollowsBoth
    <2>3. \A n \in 1 .. Len(ctx') : ctx'[n].msg \in noted' /\ Follows(ctx'[n], rec'[ctx'[n].msg], posted')
      <3>1. e.msg = m /\ m \in noted' BY <1>1
      <3> HIDE DEF e
      <3> QED BY <1>10, <2>1, <2>2, <3>1
    <2>4. Entered(ctx, noted)' BY <2>1, <2>3 DEF Entered
    <2> QED BY <1>8, <1>9, <2>3, <2>4 DEF ContextInv
  <1> QED BY <1>2, <1>11, <1>12
(* An operation, with the record that it makes, and the context after it.  *)
LEMMA ContextAfterFollows ==
  ASSUME ContextInv, NEW o \in Operations, NEW before \in Records, NEW after,
         after = Context!WithOperation(before, o), after # before,
         NEW c, c = Context!ContextAfter(after, o)
  PROVE  /\ c \in Seq(Sayings)
         /\ \A n \in 1 .. Len(c) :
              \/ \E i \in 1 .. Len(ctx) : c[n] = ctx[i] /\ ctx[i].msg # o.msg
              \/ /\ \E i \in 1 .. Len(ctx) : c[n].msg = ctx[i].msg
                 /\ c[n].msg = o.msg /\ Follows(c[n], after, posted)
  <1>1. o.msg \in Remarks /\ o.text \in Wording BY DEF Operations
  <1>2. Entered(ctx, noted) BY DEF ContextInv
  <1>3. CASE after.deleted \/ o.text.size = "empty"
    <2>1. c = Context!Without(o.msg) BY <1>3 DEF Context!ContextAfter
    <2> QED BY <1>2, <2>1, WithoutIs
  <1>4. CASE ~after.deleted /\ o.text.size # "empty"
    <2>1. c = Context!Replaced(o.msg, o.text) BY <1>4 DEF Context!ContextAfter
    <2>2. after.edit = o.text /\ after.edit # None /\ after.edit.at > after.at BY <1>4, OperationCounts
    <2>3. CASE o.text.size = "fits"
      <3> DEFINE e == [msg |-> o.msg, text |-> o.text]
      <3>1. /\ c \in Seq(Sayings) /\ Len(c) = Len(ctx)
            /\ \A i \in 1 .. Len(ctx) : c[i] = IF ctx[i].msg = o.msg THEN e ELSE ctx[i]
            BY <1>1, <1>2, <2>1, <2>3, ReplacedIs
      <3>2. e.msg = o.msg /\ Follows(e, after, posted) BY <1>4, <2>2 DEF Follows
      <3> HIDE DEF e
      <3> QED BY <3>1, <3>2
    <2>4. CASE o.text.size # "fits"
      <3>1. c = ctx /\ c \in Seq(Sayings) BY <1>1, <1>2, <2>1, <2>4, ReplacedIs DEF Entered
      <3>2. o.text.size = "large" BY <1>1, <1>4, <2>4 DEF Wording
      <3>3. \A n \in 1 .. Len(ctx) : Follows(ctx[n], after, posted) BY <1>4, <2>2, <3>2 DEF Follows
      <3> QED BY <3>1, <3>3
    <2> QED BY <2>3, <2>4
  <1> QED BY <1>3, <1>4

LEMMA ContextReceivesOperation ==
  ASSUME ContextInv, NEW a \in Context!Authors, Context!ReceiveOperation(a)
  PROVE  ContextInv'
  <1> DEFINE o == ops[a]
             before == IF rec[o.msg] = None THEN Context!Blank ELSE rec[o.msg]
             after == Context!WithOperation(before, o)
             given == [rec EXCEPT ![o.msg] = after]
  <1>1. /\ o # None /\ rec' = Context!Kept(given, lru')
        /\ IF Context!Changed(before, o) THEN ctx' = Context!ContextAfter(after, o) ELSE UNCHANGED ctx
        /\ UNCHANGED <<posted, ops, noted, ctxDisk, rest>>
        BY DEF Context!ReceiveOperation, Context!node
  <1>2. ContextType BY DEF ContextInv
  <1>3. o \in Operations BY <1>1, <1>2 DEF ContextType
  <1>4. o.msg \in Remarks BY <1>3 DEF Operations
  <1>5. before \in Records BY <1>2, <1>4, BlankType DEF ContextType
  <1>6. after \in Records BY <1>3, <1>5, OperationType
  <1>7. (after # before /\ ctx' = Context!ContextAfter(after, o)) \/ (after = before /\ UNCHANGED ctx)
        BY <1>1 DEF Context!Changed
  <1>8. after = before => rec[o.msg] = after BY <1>3, BlankChanges
  <1>9. given \in [Remarks -> Records \cup {None}] /\ given[o.msg] = after
        /\ \A n \in Remarks \ {o.msg} : given[n] = rec[n]
        BY <1>2, <1>4, <1>6 DEF ContextType
  <1> HIDE DEF given
  <1>10. /\ rec' \in [Remarks -> Records \cup {None}] /\ rec'[o.msg] \in {after, None}
         /\ \A n \in Remarks \ {o.msg} : rec'[n] \in {rec[n], None}
         BY <1>1, <1>4, <1>9, KeptIs
  <1>11. ContextType' BY <1>1, <1>2, <1>10 DEF ContextType
  <1>12. NotedWerePosted(noted)' /\ NotedWerePosted(ctxDisk.seen)' BY <1>1 DEF ContextInv, NotedWerePosted
  <1>13. \A i \in 1 .. Len(ctx) : ctx[i].msg \in noted /\ ctx[i].msg \in Remarks
         BY DEF ContextInv, Entered, NotedWerePosted
  <1>14. ASSUME NEW i \in 1 .. Len(ctx), ctx[i].msg # o.msg PROVE Follows(ctx[i], rec'[ctx[i].msg], posted)
    <2>1. Follows(ctx[i], rec[ctx[i].msg], posted) BY DEF ContextInv
    <2> QED BY <1>10, <1>13, <1>14, <2>1, FollowsBoth
  <1>15. CASE after # before /\ ctx' = Context!ContextAfter(after, o)
    <2> HIDE DEF o, before
    <2>1. /\ ctx' \in Seq(Sayings)
          /\ \A n \in 1 .. Len(ctx') :
               \/ \E i \in 1 .. Len(ctx) : ctx'[n] = ctx[i] /\ ctx[i].msg # o.msg
               \/ /\ \E i \in 1 .. Len(ctx) : ctx'[n].msg = ctx[i].msg
                  /\ ctx'[n].msg = o.msg /\ Follows(ctx'[n], after, posted)
          BY <1>3, <1>5, <1>15, ContextAfterFollows
    <2> HIDE DEF after
    <2>2. ASSUME NEW n \in 1 .. Len(ctx') PROVE ctx'[n].msg \in noted /\ Follows(ctx'[n], rec'[ctx'[n].msg], posted)
      <3>1. CASE \E i \in 1 .. Len(ctx) : ctx'[n] = ctx[i] /\ ctx[i].msg # o.msg BY <1>13, <1>14, <3>1
      <3>2. CASE /\ \E i \in 1 .. Len(ctx) : ctx'[n].msg = ctx[i].msg
                 /\ ctx'[n].msg = o.msg /\ Follows(ctx'[n], after, posted)
        <4>1. ctx'[n].msg \in noted BY <1>13, <3>2
        <4>2. Follows(ctx'[n], rec'[o.msg], posted) BY <1>10, <3>2, FollowsBoth
        <4> QED BY <3>2, <4>1, <4>2
      <3> QED BY <2>1, <3>1, <3>2
    <2>3. Entered(ctx, noted)' BY <1>1, <2>1, <2>2 DEF Entered
    <2>4. (\A i \in 1 .. Len(ctx) : Follows(ctx[i], rec[ctx[i].msg], posted))' BY <1>1, <2>2
    <2> QED BY <1>11, <1>12, <2>3, <2>4 DEF ContextInv
  <1>16. CASE after = before /\ UNCHANGED ctx
    <2>1. rec[o.msg] = after BY <1>8, <1>16
    <2> HIDE DEF o, before, after
    <2>2. ASSUME NEW i \in 1 .. Len(ctx) PROVE Follows(ctx[i], rec'[ctx[i].msg], posted)
      <3>1. Follows(ctx[i], rec[ctx[i].msg], posted) BY DEF ContextInv
      <3>2. ctx[i].msg = o.msg => rec'[ctx[i].msg] \in {rec[ctx[i].msg], None} BY <1>10, <2>1
      <3> QED BY <1>14, <3>1, <3>2, FollowsBoth
    <2>3. Entered(ctx, noted)' BY <1>1, <1>16 DEF ContextInv
    <2>4. (\A i \in 1 .. Len(ctx) : Follows(ctx[i], rec[ctx[i].msg], posted))' BY <1>1, <1>16, <2>2
    <2> QED BY <1>11, <1>12, <2>3, <2>4 DEF ContextInv
  <1> QED BY <1>7, <1>15, <1>16

LEMMA ContextExpiresRecord ==
  ASSUME ContextInv, Context!ExpireRecord
  PROVE  ContextInv'
  <1>1. /\ rec' = Context!Kept(rec, lru') /\ rest.expiries > 0 /\ rest' = [rest EXCEPT !.expiries = @ - 1]
        /\ UNCHANGED <<posted, ops, noted, ctx, ctxDisk>>
        BY DEF Context!ExpireRecord, Context!node
  <1>2. ContextType BY DEF ContextInv
  <1>3. rec' \in [Remarks -> Records \cup {None}] /\ \A m \in Remarks : rec'[m] \in {rec[m], None}
        BY <1>1, <1>2, KeptIs DEF ContextType
  <1>4. ContextType' BY <1>1, <1>2, <1>3 DEF ContextType
  <1>5. NotedWerePosted(noted)' /\ NotedWerePosted(ctxDisk.seen)' /\ Entered(ctx, noted)'
        BY <1>1 DEF ContextInv, NotedWerePosted
  <1>6. ASSUME NEW i \in 1 .. Len(ctx) PROVE Follows(ctx[i], rec'[ctx[i].msg], posted)
    <2>1. Follows(ctx[i], rec[ctx[i].msg], posted) /\ ctx[i].msg \in Remarks
          BY DEF ContextInv, Entered, NotedWerePosted
    <2> QED BY <1>3, <2>1, FollowsBoth
  <1> QED BY <1>1, <1>4, <1>5, <1>6 DEF ContextInv

LEMMA ContextExpiresEntry ==
  ASSUME ContextInv, Context!ExpireContext
  PROVE  ContextInv'
  <1>1. /\ ctx # <<>> /\ ctx' = Tail(ctx) /\ rest.expiries > 0 /\ rest' = [rest EXCEPT !.expiries = @ - 1]
        /\ UNCHANGED <<posted, ops, noted, rec, ctxDisk>>
        BY DEF Context!ExpireContext, Context!node
  <1>2. ContextType' BY <1>1 DEF ContextInv, ContextType
  <1>3. NotedWerePosted(noted)' /\ NotedWerePosted(ctxDisk.seen)' BY <1>1 DEF ContextInv, NotedWerePosted
  <1>4. ctx \in Seq(Sayings) BY DEF ContextInv, Entered
  <1>5. /\ ctx' \in Seq(Sayings) /\ \A n \in 1 .. Len(ctx') : n + 1 \in 1 .. Len(ctx) /\ ctx'[n] = ctx[n + 1]
        BY <1>1, <1>4
  <1>6. \A n \in 1 .. Len(ctx') : ctx'[n].msg \in noted /\ Follows(ctx'[n], rec[ctx'[n].msg], posted)
        BY <1>5 DEF ContextInv, Entered
  <1>7. Entered(ctx, noted)' BY <1>1, <1>5, <1>6 DEF Entered
  <1> QED BY <1>1, <1>2, <1>3, <1>6, <1>7 DEF ContextInv

LEMMA ContextCrashes ==
  ASSUME ContextInv, Context!Crash
  PROVE  ContextInv'
  <1>1. /\ rest.crashes > 0 /\ rest' = [rest EXCEPT !.crashes = @ - 1]
        /\ rec' = ctxDisk.rec /\ noted' = ctxDisk.seen /\ ctx' = <<>>
        /\ UNCHANGED <<posted, ops, ctxDisk>>
        BY DEF Context!Crash, Context!node
  <1>2. ContextType' BY <1>1 DEF ContextInv, ContextType
  <1>3. NotedWerePosted(noted)' /\ NotedWerePosted(ctxDisk.seen)' BY <1>1 DEF ContextInv, NotedWerePosted
  <1>4. ctx' \in Seq(Sayings) /\ Len(ctx') = 0 BY <1>1
  <1> QED BY <1>2, <1>3, <1>4 DEF ContextInv, Entered

LEMMA ContextStarts ==
  ASSUME Context!Init
  PROVE  ContextInv
  <1>1. /\ posted = Context!Nothing /\ ops = [a \in Context!Authors |-> None] /\ rec = Context!Nothing
        /\ noted = {} /\ ctx = <<>>
        /\ ctxDisk = [rec |-> Context!Nothing, lru |-> <<>>, seen |-> {}, rows |-> {}]
        BY DEF Context!Init
  <1>2. PICK p \in Talks : rest = [first |-> p.first, ops |-> p.ops, crashes |-> p.crashes,
                                   expiries |-> p.expiries, clock |-> 1]
        BY DEF Context!Init
  <1>3. p \in [first : [Remarks -> {"empty", "fits", "large", "prompt", None}], ops : Nat,
               crashes : Nat, expiries : Nat]
        BY ContextAssumption
  <1>4. rest \in [first : [Remarks -> {"empty", "fits", "large", "prompt", None}], ops : Nat,
                  crashes : Nat, expiries : Nat, clock : Nat \ {0}]
        BY <1>2, <1>3
  <1>5. ContextType BY <1>1, <1>4 DEF ContextType, Context!Nothing
  <1>6. NotedWerePosted(noted) /\ NotedWerePosted(ctxDisk.seen) BY <1>1 DEF NotedWerePosted
  <1>7. ctx \in Seq(Sayings) /\ Len(ctx) = 0 BY <1>1
  <1> QED BY <1>5, <1>6, <1>7 DEF ContextInv, Entered

LEMMA ContextStep ==
  ASSUME ContextInv, [Context!Next]_Context!vars
  PROVE  ContextInv'
  <1>1. CASE \E m \in Remarks : Context!Posts(m) \/ Context!Operates(m) \/ Context!ReceiveMessage(m)
        BY <1>1, ContextPosts, ContextOperates, ContextReceivesMessage
  <1>2. CASE \E a \in Context!Authors : Context!ReceiveOperation(a) BY <1>2, ContextReceivesOperation
  <1>3. CASE \/ \E line \in prompts : Context!Dispatch(line)
             \/ UNCHANGED Context!vars
    <2>1. UNCHANGED <<posted, ops, rec, noted, ctx, ctxDisk, rest>>
          BY <1>3 DEF Context!Dispatch, Context!vars, Context!node
    <2> QED BY <2>1 DEF ContextInv, ContextType, NotedWerePosted
  <1>4. CASE Context!ExpireRecord BY <1>4, ContextExpiresRecord
  <1>5. CASE Context!ExpireContext BY <1>5, ContextExpiresEntry
  <1>6. CASE Context!Saved
    <2>1. UNCHANGED <<posted, ops, rec, noted, ctx, rest>>
          /\ ctxDisk' = [rec |-> rec, lru |-> lru, seen |-> noted, rows |-> prompts]
          BY <1>6 DEF Context!Saved, Context!Snapshot, Context!node
    <2>2. ContextType' BY <2>1 DEF ContextInv, ContextType
    <2>3. NotedWerePosted(noted)' /\ NotedWerePosted(ctxDisk.seen)' BY <2>1 DEF ContextInv, NotedWerePosted
    <2> QED BY <2>1, <2>2, <2>3 DEF ContextInv
  <1>7. CASE Context!Crash BY <1>7, ContextCrashes
  <1> QED BY <1>1, <1>2, <1>3, <1>4, <1>5, <1>6, <1>7 DEF Context!Next

(* The context never shows a message that is known to be deleted, nor a    *)
(* text that is known to be outdated, unless the newer one is too large    *)
(* for it: for any messages and operations in any order, and whatever      *)
(* expires (t3ams/index.mjs:2121-2123, 2380-2388).                         *)
THEOREM ContextStaysTrue == Context!Spec => []ContextFollows
  <1>1. Context!Init => ContextInv BY ContextStarts
  <1>2. ContextInv /\ [Context!Next]_Context!vars => ContextInv' BY ContextStep
  <1>3. ContextInv => ContextFollows
    <2> SUFFICES ASSUME ContextInv PROVE ContextFollows OBVIOUS
    <2>1. DOMAIN ctx = 1 .. Len(ctx) BY DEF ContextInv, Entered
    <2>2. \A i \in 1 .. Len(ctx) : Follows(ctx[i], rec[ctx[i].msg], posted) BY DEF ContextInv
    <2> QED BY <2>1, <2>2 DEF ContextFollows, Context!ContextFollows, Context!InForce, Follows
  <1> QED BY <1>1, <1>2, <1>3, PTL DEF Context!Spec

-----------------------------------------------------------------------------
(* What the T3ams bot sends.                                               *)
HandedType == handed \in [Outgoing -> Nat]

LEMMA HandedStep ==
  ASSUME HandedType, [Outbound!Next]_Outbound!vars
  PROVE  /\ HandedType'
         /\ \A j \in Outgoing : j \in revoked /\ item[j].state = "queued" => handed'[j] = handed[j]
  <1>1. CASE Outbound!Hands
    <2> DEFINE first == Head(sending)
    <2>1. /\ handed' = [handed EXCEPT ![first] = @ + 1]
          /\ item[first].state = "queued" => first \notin revoked
          /\ item[first].state = "pausing" \/ item[first].state = "queued"
          BY <1>1 DEF Outbound!Hands, Outbound!Permitted
    <2> HIDE DEF first
    <2>4. handed' = [j \in Outgoing |-> IF j = first THEN handed[j] + 1 ELSE handed[j]] BY <2>1 DEF HandedType
    <2>5. HandedType' BY <2>4 DEF HandedType
    <2>3. \A j \in Outgoing \ {first} : handed'[j] = handed[j] BY <2>1 DEF HandedType
    <2> QED BY <2>1, <2>3, <2>5
  <1>2. CASE UNCHANGED handed BY <1>2 DEF HandedType
  <1>3. ~Outbound!Hands => UNCHANGED handed
        BY DEF Outbound!Next, Outbound!vars, Outbound!jobVars, Outbound!Composes, Outbound!Revokes, Outbound!Fenced,
               Outbound!Accepted, Outbound!AnswerLost, Outbound!TooLow, Outbound!NoAllowance,
               Outbound!WakeIsSent, Outbound!Incoming, Outbound!Tick, Outbound!Closes, Outbound!Saved, Outbound!Crash
  <1> QED BY <1>1, <1>2, <1>3

(* What is still queued when its claim is withdrawn is not handed to the   *)
(* node, whatever is sent, refused or lost (t3ams-submission.mjs:60-63).   *)
THEOREM RevokedIsNotHanded == Outbound!Spec => QueuedIsFenced
  <1> DEFINE Kept == \A j \in Outgoing : j \in revoked /\ item[j].state = "queued" => handed'[j] = handed[j]
  <1>1. Outbound!Init => HandedType BY DEF Outbound!Init, HandedType
  <1>2. HandedType /\ [Outbound!Next]_Outbound!vars => HandedType' BY HandedStep
  <1>3. HandedType /\ [Outbound!Next]_Outbound!vars => [Kept]_Outbound!vars BY HandedStep
  <1>4. QueuedIsFenced <=> [][Kept]_Outbound!vars BY DEF QueuedIsFenced, Outbound!QueuedIsFenced
  <1> QED BY <1>1, <1>2, <1>3, <1>4, PTL DEF Outbound!Spec

-----------------------------------------------------------------------------
(* What the T3ams bot keeps of its workspace. WorkspaceInv: the workspace, *)
(* here and on the disk, is none or has its parts, and faults are counted. *)
Budgeted == [docs : Nat, lists : Nat, notes : Nat, posts : Nat, fault : STRING, faults : Nat]
Whole(w) == w # None => DOMAIN w = {"doc", "joined", "gen", "list", "listAt"}

WorkspaceInv == Whole(ws) /\ Whole(wsDisk.ws) /\ wsLeft \in Budgeted

(* A step keeps the tombstones of a workspace that it keeps.               *)
TombstonesStay ==
  \A c \in Channels :
    ws # None /\ ws' # None /\ wsLeft'.faults = wsLeft.faults
    /\ ws.list[c] # None /\ ws'.list[c] # None /\ ws.list[c].state = "deleted"
      => ws'.list[c].state = "deleted"

LEMMA SpendsOne ==
  ASSUME WorkspaceInv, NEW what \in {"docs", "lists", "notes", "posts", "faults"}, Workspace!Spends(what)
  PROVE  /\ wsLeft' \in Budgeted
         /\ wsLeft'.faults = IF what = "faults" THEN wsLeft.faults - 1 ELSE wsLeft.faults
  BY DEF WorkspaceInv, Budgeted, Workspace!Spends

LEMMA FaultSpent ==
  ASSUME WorkspaceInv, NEW kind, Workspace!Fault(kind)
  PROVE  wsLeft' \in Budgeted /\ wsLeft'.faults # wsLeft.faults
  BY SpendsOne DEF WorkspaceInv, Budgeted, Workspace!Fault

LEMMA PeopleAreOutside ==
  ASSUME WorkspaceInv, Workspace!PeopleStep
  PROVE  WorkspaceInv' /\ TombstonesStay
  <1>1. UNCHANGED <<ws, wsDisk>>
        /\ \E what \in {"docs", "lists", "notes", "posts"} : Workspace!Spends(what)
        BY DEF Workspace!PeopleStep, Workspace!PublishDoc, Workspace!PublishList, Workspace!Adopt,
               Workspace!Notify, Workspace!Post
  <1>2. wsLeft' \in Budgeted BY <1>1, SpendsOne
  <1> QED BY <1>1, <1>2 DEF WorkspaceInv, Whole, TombstonesStay

(* A newer list replaces an entry, but for its tombstone.                  *)
LEMMA ListReceived ==
  ASSUME WorkspaceInv, NEW h \in Workspace!Humans, Workspace!ReceiveList(h)
  PROVE  WorkspaceInv' /\ TombstonesStay
  <1>1. /\ ws # None /\ UNCHANGED <<wsDisk, wsLeft>>
        /\ ws' = [ws EXCEPT !.list = Workspace!Merged(h), !.listAt[h] = lists[h].at]
        BY DEF Workspace!ReceiveList
  <1>2. DOMAIN ws' = DOMAIN ws /\ ws'.list = Workspace!Merged(h) BY <1>1 DEF WorkspaceInv, Whole
  <1>3. WorkspaceInv' BY <1>1, <1>2 DEF WorkspaceInv, Whole
  <1>4. ASSUME NEW c \in Channels, ws.list[c] # None, ws.list[c].state = "deleted", ws'.list[c] # None
        PROVE  ws'.list[c].state = "deleted"
    <2>1. ws'.list[c] = IF Workspace!Listed(h, c) # "none"
                          THEN [by |-> h, state |-> Workspace!StateAfter(h, c)]
                          ELSE IF ws.list[c] # None /\ ws.list[c].by = h THEN None ELSE ws.list[c]
          BY <1>2 DEF Workspace!Merged
    <2>2. Workspace!StateAfter(h, c) = "deleted" BY <1>4 DEF Workspace!StateAfter
    <2> QED BY <1>4, <2>1, <2>2
  <1> QED BY <1>3, <1>4 DEF TombstonesStay

LEMMA WorkspaceStep ==
  ASSUME WorkspaceInv, [Workspace!Next]_Workspace!vars
  PROVE  WorkspaceInv' /\ TombstonesStay
  <1>1. CASE Workspace!PeopleStep BY <1>1, PeopleAreOutside
  <1>2. CASE \E h \in Workspace!Humans : Workspace!ReceiveDoc(h)
    <2>1. PICK h \in Workspace!Humans : Workspace!ReceiveDoc(h) BY <1>2
    <2>2. ws' = [ws EXCEPT !.doc = docs[h]] /\ ws # None /\ UNCHANGED <<wsDisk, wsLeft>>
          BY <2>1 DEF Workspace!ReceiveDoc
    <2>3. DOMAIN ws' = DOMAIN ws /\ ws'.list = ws.list BY <2>2 DEF WorkspaceInv, Whole
    <2> QED BY <2>2, <2>3 DEF WorkspaceInv, Whole, TombstonesStay
  <1>3. CASE \E h \in Workspace!Humans : Workspace!ReceiveList(h) BY <1>3, ListReceived
  <1>4. CASE UNCHANGED <<ws, wsDisk, wsLeft>> BY <1>4 DEF WorkspaceInv, Whole, TombstonesStay
  <1>5. CASE Workspace!ReceiveInvite
    <2>1. ws' = (IF ws = None THEN Workspace!Enrolled ELSE ws) /\ UNCHANGED <<wsDisk, wsLeft>>
          BY <1>5 DEF Workspace!ReceiveInvite, Workspace!people
    <2>2. DOMAIN Workspace!Enrolled = {"doc", "joined", "gen", "list", "listAt"} BY DEF Workspace!Enrolled
    <2> QED BY <2>1, <2>2 DEF WorkspaceInv, Whole, TombstonesStay
  <1>6. CASE Workspace!AnnounceSent
    <2>1. ws' \in {ws, [ws EXCEPT !.joined = TRUE]} /\ (ws = None => ws' = None) /\ UNCHANGED <<wsDisk, wsLeft>>
          BY <1>6 DEF Workspace!AnnounceSent, Workspace!Marked
    <2>2. ws # None => DOMAIN ws' = DOMAIN ws /\ ws'.list = ws.list BY <2>1 DEF WorkspaceInv, Whole
    <2> QED BY <2>1, <2>2 DEF WorkspaceInv, Whole, TombstonesStay
  <1>7. CASE Workspace!JoinFails
    <2>1. UNCHANGED <<ws, wsDisk>> /\ wsLeft' \in Budgeted BY <1>7, FaultSpent DEF Workspace!JoinFails
    <2> QED BY <2>1 DEF WorkspaceInv, Whole, TombstonesStay
  <1>8. CASE Workspace!Saved
    <2>1. UNCHANGED <<ws, wsLeft>> /\ wsDisk'.ws = ws BY <1>8 DEF Workspace!Saved, Workspace!Snapshot
    <2> QED BY <2>1 DEF WorkspaceInv, Whole, TombstonesStay
  <1>9. CASE Workspace!Evict
    <2>1. ws' = None /\ UNCHANGED wsDisk /\ wsLeft' \in Budgeted BY <1>9, FaultSpent DEF Workspace!Evict
    <2> QED BY <2>1 DEF WorkspaceInv, Whole, TombstonesStay
  <1>10. CASE Workspace!Crash
    <2>1. ws' = wsDisk.ws /\ UNCHANGED wsDisk /\ wsLeft' \in Budgeted /\ wsLeft'.faults # wsLeft.faults
          BY <1>10, FaultSpent DEF Workspace!Crash
    <2> QED BY <2>1 DEF WorkspaceInv, Whole, TombstonesStay
  <1>11. Workspace!Receives =>
           \/ \E h \in Workspace!Humans : Workspace!ReceiveDoc(h) \/ Workspace!ReceiveList(h)
           \/ UNCHANGED <<ws, wsDisk, wsLeft>>
         BY DEF Workspace!Receives, Workspace!ReceiveNote, Workspace!ReceivePost
  <1>12. Workspace!JoinSent \/ UNCHANGED Workspace!vars => UNCHANGED <<ws, wsDisk, wsLeft>>
         BY DEF Workspace!JoinSent, Workspace!vars
  <1> QED BY <1>1, <1>2, <1>3, <1>4, <1>5, <1>6, <1>7, <1>8, <1>9, <1>10, <1>11, <1>12 DEF Workspace!Next

(* A channel that was deleted is never anything else again in a workspace  *)
(* that the bot keeps, whoever lists it, adopts it or replays an old list  *)
(* (t3ams-protocol.mjs:1724-1735).                                         *)
THEOREM TombstonesAreFinal == Workspace!Spec => DeletedStaysDeleted
  <1>1. Workspace!Init => WorkspaceInv
        BY WorkspaceAssumption DEF Workspace!Init, WorkspaceInv, Whole, Budgeted
  <1>2. WorkspaceInv /\ [Workspace!Next]_Workspace!vars => WorkspaceInv' BY WorkspaceStep
  <1>3. WorkspaceInv /\ [Workspace!Next]_Workspace!vars => [TombstonesStay]_Workspace!vars BY WorkspaceStep
  <1>4. DeletedStaysDeleted <=> [][TombstonesStay]_Workspace!vars
        BY DEF DeletedStaysDeleted, Workspace!DeletedStaysDeleted, TombstonesStay
  <1> QED BY <1>1, <1>2, <1>3, <1>4, PTL DEF Workspace!Spec

=============================================================================
