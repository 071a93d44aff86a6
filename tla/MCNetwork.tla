------------------------------ MODULE MCNetwork ------------------------------
(***************************************************************************)
(* Small instances of two components that statements of the network pass   *)
(* through, checked in one run: the bot that takes them in (Ingress), and  *)
(* the personas of the sandbox that chat with it (SandboxChat). They share *)
(* no variable: a behaviour runs the component named by part, and the      *)
(* other rests in a first state.                                           *)
(***************************************************************************)
EXTENDS Ingress, TLC

CONSTANTS a1, a2, b1, b2, m1, m2, m3, w, None

VARIABLES
  part,
  (* of SandboxChat *)
  person, engine, gone, work, request, accepts, slot, answered, lost, chatPlan, at, chatLeft

botVars  == <<published, watched, seen, handled, disp, subs, health, beat, sweep, cuts, faults>>
chatVars == <<person, engine, gone, work, request, accepts, slot, answered, lost, chatPlan, at, chatLeft>>
netVars  == <<part, botVars, chatVars>>

-----------------------------------------------------------------------------
(* A request of alice and what follows it: acceptance and messages of bob, *)
(* a second device on either side, a call, a refusal, a lookup or a post   *)
(* that fails, a batch and an acknowledgement that are lost, a restart.    *)
Does(what, by, arg) == [op |-> what, by |-> by, arg |-> arg]
Script(online, scripts) == [online |-> online, scripts |-> scripts, lookups |-> 0, posts |-> 0,
                            lands |-> 0, acks |-> 0, restarts |-> 0]
Asks == <<Does("request", a1, None)>>
Accepts == Does("accept", b1, None)

Chat == INSTANCE SandboxChat WITH
  Devices <- {a1, a2, b1, b2}, AliceDevices <- {a1, a2}, Messages <- {m1, m2, m3}, Welcome <- w,
  job <- work, asked <- request, plan <- chatPlan, left <- chatLeft,
  Plans <- {
    Script({a1, a2, b1}, <<Asks, <<Accepts, Does("file", b1, m1)>>>>),
    Script({a1, b1}, <<Asks, <<Accepts, Does("text", b1, m1), Does("text", b1, m2)>>, <<Does("read", a1, None)>>>>),
    Script({a1, b1, b2}, <<Asks, <<Accepts, Does("remove", b1, None)>>>>),
    Script({a1, b1}, <<Asks, <<Does("add", a2, None)>>, <<Accepts>>>>),
    Script({a1, b1}, <<Asks, <<Accepts, Does("call", b1, m1)>>>>),
    Script({a1, b1}, <<Asks, <<Does("decline", b1, None)>>>>),
    Script({a1, b1}, <<Asks, <<Accepts, Does("text", b1, m1), Does("edit", b1, m1)>>>>),
    [Script({a1, b1}, <<Asks, <<Accepts, Does("text", b1, m1)>>>>) EXCEPT !.restarts = 1],
    [Script({a1, b1}, <<Asks, <<Accepts, Does("text", b1, m1)>>>>) EXCEPT !.posts = 1, !.lookups = 1],
    [Script({a1, b1}, <<Asks, <<Accepts, Does("text", b1, m1), Does("text", b1, m2)>>>>) EXCEPT !.lands = 1, !.acks = 1]}

-----------------------------------------------------------------------------
NetInit ==
  /\ part \in {"bot", "chat"}
  /\ Init
  /\ Chat!Init /\ (part = "chat" \/ chatPlan.posts = 1)

NetNext ==
  \/ part = "bot" /\ TimelyNext /\ UNCHANGED <<part, chatVars>>
  \/ part = "chat" /\ Chat!Next /\ UNCHANGED <<part, botVars>>

(* The fairness of the modules, for the component that runs.               *)
NetSpec ==
  /\ NetInit /\ [][NetNext]_netVars
  /\ \A g \in Groups : WF_botVars(part = "bot" /\ Page(g)) /\ WF_botVars(part = "bot" /\ Answer(g))
  /\ WF_botVars(part = "bot" /\ Heartbeat)
  /\ WF_botVars(part = "bot" /\ (HeartbeatObserved \/ (HeartbeatMissed /\ Quiet)))
  /\ \A k \in Keys : /\ WF_botVars(part = "bot" /\ Begin(k))
                     /\ WF_botVars(part = "bot" /\ Finish(k, "handled"))
  /\ WF_botVars(part = "bot" /\ OpenSession)
  /\ WF_botVars(part = "bot" /\ (StartSweep \/ QueueSweep \/ EndSweep))
  /\ WF_chatVars(part = "chat" /\ Chat!Works)

-----------------------------------------------------------------------------
(* The type invariant of the module that Ingress does not extend.          *)
TypesOK == Chat!TypeOK

(* The properties, explained in the modules; those of Ingress, about the   *)
(* bot, hold for the others too, whose statements it never sees.           *)
(* What a persona sends reaches the peer, unless it was given up:          *)
(* SandboxChat (chat.mjs:323-326, 342-355).                                *)
SentIsDelivered == []<>(part # "chat") \/ Chat!SentIsDelivered

=============================================================================
