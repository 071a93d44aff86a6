---------------------------- MODULE MCT3amsTurns ----------------------------
(***************************************************************************)
(* Small instances of two components that a turn of T3ams passes through,  *)
(* checked in one run: the journal with its lanes and answers              *)
(* (T3amsJournal), and the analysis of a message's files with its budget   *)
(* (MediaAnalysis). They share no variable: a behaviour runs the component *)
(* named by part, and the other rests in a first state.                    *)
(***************************************************************************)
EXTENDS T3amsJournal, T3amsMedia

VARIABLE part

journalVars  == <<posted, ingress, entry, seen, life, dead, durable, deferred, armed, callback, mutations,
                  waiting, undo, tasks, running, stalled, turn, staged, pending, disk, out, analyzed, stopped,
                  faults>>
analysisVars == <<now, mem, saved, lock, task, queue, call, sent, charged, failsLeft>>
turnVars     == <<part, journalVars, analysisVars>>

-----------------------------------------------------------------------------
(* Two messages of two senders, each with files; one token at a time, one  *)
(* analysis at a time and one that waits.                                  *)
TwoSenders == [m \in {1, 2} |-> m]
Budget(change, failures, crashes, timeouts, brains, providers) ==
  [change |-> change, disk |-> failures, crash |-> crashes, timeout |-> timeouts, brain |-> brains, provider |-> providers]
FaultBudgets == {Budget(1, 1, 0, 0, 0, 0), Budget(1, 0, 1, 0, 0, 0), Budget(0, 0, 0, 1, 1, 1)}

-----------------------------------------------------------------------------
TurnsInit ==
  /\ part \in {"journal", "analysis"}
  /\ Init
  /\ Analysis!Init /\ (part = "analysis" \/ failsLeft.timeout = 1)

TurnsNext ==
  \/ part = "journal" /\ Next /\ UNCHANGED <<part, analysisVars>>
  \/ part = "analysis" /\ Analysis!Next /\ UNCHANGED <<part, journalVars>>

TurnsSpec == TurnsInit /\ [][TurnsNext]_turnVars

=============================================================================
