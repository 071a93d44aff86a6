--------------------------- MODULE MCT3amsTraffic ---------------------------
(***************************************************************************)
(* Small instances of three components of the T3ams bot: what it knows of  *)
(* its workspace (T3amsWorkspace) and of the talk around it (T3amsContext),*)
(* and what it sends (T3amsOutbound). They share no variable and are       *)
(* checked in one run: a behaviour runs the component named by part, and   *)
(* the others rest in a first state.                                       *)
(***************************************************************************)
EXTENDS T3amsTraffic, TLC

CONSTANTS alice, bob, bot, channel, m1, m2, m3, ann, ben, a1, a2, a3, e1, t1

VARIABLE part

wsVars    == <<docs, lists, notes, posts, epoch, holder, ws, keys, joining, heard, wsDisk, wsLeft>>
ctxVars   == <<posted, ops, rec, lru, noted, ctx, prompts, ctxDisk, rest>>
sendVars  == <<item, sending, handed, revoked, seconds, mark, slots, backfill, waking, closed, sendDisk, sendPlan, left>>
vars      == <<part, wsVars, ctxVars, sendVars>>

-----------------------------------------------------------------------------
(* The owner invites the bot; another person is an admin or gone, and      *)
(* creates the one channel, which has a key.                               *)
Roster(other, self) == [x \in {alice, bob, bot} |-> IF x = alice THEN "owner" ELSE IF x = bob THEN other ELSE self]
Budget(d, l, n, fault) ==
  [docs |-> d, lists |-> l, notes |-> n, posts |-> 1, fault |-> fault, faults |-> IF fault = "none" THEN 0 ELSE 1]

Creators    == channel :> bob
MoreRosters == {Roster("admin", "member"), Roster(None, "member"), Roster("admin", None)}
Invitation  == Roster("admin", None)
WsBudgets   ==
  {Budget(2, 1, 0, "none"), Budget(2, 0, 1, "none"), Budget(1, 2, 0, "none"), Budget(1, 0, 2, "none"),
   Budget(1, 1, 1, "evict"), Budget(1, 1, 1, "crash"), Budget(1, 1, 1, "submit")}

-----------------------------------------------------------------------------
(* Two messages of one author and one of another, which is in the thread   *)
(* of the first; texts fit, mention the bot, or are too large.             *)
Texts(a, b, c) == m1 :> a @@ m2 :> b @@ m3 :> c
Talk(first, edits, crashes, expiries) == [first |-> first, ops |-> edits, crashes |-> crashes, expiries |-> expiries]

Authors  == m1 :> ann @@ m2 :> ann @@ m3 :> ben
Threads  == m1 :> None @@ m2 :> None @@ m3 :> m1
TalkPlans ==
  {Talk(Texts("fits", "fits", None), 2, 0, 0), Talk(Texts("fits", None, "prompt"), 2, 0, 0),
   Talk(Texts("fits", "prompt", "fits"), 1, 0, 0), Talk(Texts("fits", None, "prompt"), 1, 1, 0),
   Talk(Texts("fits", "large", "fits"), 1, 0, 1)}

-----------------------------------------------------------------------------
(* Messages, an edit and a typing signal of one thread or of several.      *)
Job(kind, lanes) ==
  [kind |-> kind, lanes |-> lanes, revocable |-> {}, incoming |-> 0, seconds |-> 0,
   crashes |-> 0, lost |-> 0, refusals |-> 0, closes |-> FALSE]

Kinds == a1 :> "message" @@ a2 :> "message" @@ a3 :> "message" @@ e1 :> "operation" @@ t1 :> "typing"
SendPlans ==
  {[Job("channel", {<<a1, e1, a2, t1>>}) EXCEPT !.incoming = 1, !.closes = TRUE],
   [Job("dm", {<<a1, a2>>}) EXCEPT !.incoming = 1, !.seconds = 2],
   [Job("channel", {<<a1, a2, a3>>}) EXCEPT !.seconds = 1, !.crashes = 1],
   [Job("channel", {<<a1>>, <<a2>>, <<a3>>}) EXCEPT !.revocable = {a2}, !.lost = 1, !.refusals = 2],
   [Job("dm", {<<a1, e1>>, <<t1, a2>>}) EXCEPT !.revocable = {e1}, !.refusals = 1]}

-----------------------------------------------------------------------------
Init ==
  /\ part \in {"workspace", "context", "outbound"}
  /\ Workspace!Init /\ (part = "workspace" \/ wsLeft = CHOOSE b \in WsBudgets : TRUE)
  /\ Context!Init /\ (part = "context" \/ rest.crashes = 1)
  /\ Outbound!Init /\ (part = "outbound" \/ sendPlan.crashes = 1)

Next ==
  \/ part = "workspace" /\ Workspace!Next /\ UNCHANGED <<part, ctxVars, sendVars>>
  \/ part = "context" /\ Context!Next /\ UNCHANGED <<part, wsVars, sendVars>>
  \/ part = "outbound" /\ Outbound!Next /\ UNCHANGED <<part, wsVars, ctxVars>>

(* The fairness of the three modules, for the component that runs.         *)
Spec ==
  /\ Init /\ [][Next]_vars
  /\ WF_wsVars(part = "workspace" /\ Workspace!ReceiveInvite)
  /\ WF_wsVars(part = "workspace" /\ Workspace!JoinSent)
  /\ WF_wsVars(part = "workspace" /\ Workspace!AnnounceSent)
  /\ WF_wsVars(part = "workspace" /\ Workspace!ReceivePost(channel))
  /\ \A h \in {alice, bob} :
       /\ WF_wsVars(part = "workspace" /\ Workspace!ReceiveDoc(h))
       /\ WF_wsVars(part = "workspace" /\ Workspace!ReceiveList(h))
       /\ WF_wsVars(part = "workspace" /\ Workspace!ReceiveNote(h))
  /\ \A m \in {m1, m2, m3} : WF_ctxVars(part = "context" /\ Context!ReceiveMessage(m))
  /\ \A a \in {ann, ben} : WF_ctxVars(part = "context" /\ Context!ReceiveOperation(a))
  /\ \A j \in {a1, a2, a3, e1, t1} : WF_sendVars(part = "outbound" /\ Outbound!Composes(j))
  /\ WF_sendVars(part = "outbound" /\
       (Outbound!Fenced \/ Outbound!Hands \/ Outbound!Accepted \/ Outbound!TooLow \/ Outbound!WakeIsSent))

-----------------------------------------------------------------------------
(* The three modules' type invariants.                                     *)
TypesOK == Workspace!TypeOK /\ Context!TypeOK /\ Outbound!TypeOK

(* The properties, explained in the modules; one under fairness is about   *)
(* the behaviours that run its component. A channel the people made ready  *)
(* for the bot is read: T3amsWorkspace (t3ams-protocol.mjs:1197-1287).     *)
ReadyIsHeard == []<>(part # "workspace") \/ Workspace!ReadyIsHeard
(* The invite is answered with a join in the end: T3amsWorkspace           *)
(* (t3ams-protocol.mjs:1580-1610).                                         *)
JoinIsSent == []<>(part # "workspace") \/ Workspace!JoinIsSent
(* The author's last word counts in the end: T3amsContext                  *)
(* (t3ams/index.mjs:2778-2780).                                            *)
LastWordCounts == []<>(part # "context") \/ Context!LastWordCounts
(* A reader who was away finds all messages of a lane: T3amsOutbound       *)
(* (t3ams-protocol.mjs:579-606, 2104-2155).                                *)
RetainedIsWhole == Outbound!RetainedIsWhole
(* What is to be sent is sent in the end, also after a restart:            *)
(* T3amsOutbound (t3ams-submission.mjs:38-44).                             *)
SendsSucceed == []<>(part # "outbound") \/ Outbound!SendsSucceed

=============================================================================
