---------------------------- MODULE T3amsContext ----------------------------
(***************************************************************************)
(* What becomes of the messages of a T3ams channel that do not address the *)
(* bot, and of their edits and deletions: the message lifecycle            *)
(* (src/bot-core/transports/t3ams/t3ams-message-lifecycle.mjs), the        *)
(* passive context (t3ams-channel-context.mjs), the routing of a message   *)
(* (t3ams-routing.mjs), and how t3ams/index.mjs joins them. Messages and   *)
(* operations are retained in different slots and may be seen in any       *)
(* order, the operations any number of times. A message that mentions the  *)
(* bot becomes a row of the journal with a copy of the context.            *)
(*                                                                         *)
(* Not modelled: several channels, attachments, the bytes of a record      *)
(* (its text is empty, fits, or is too large for the context), operations  *)
(* by others than the author (refused, or left behind when the message     *)
(* comes), the turn of a row (T3amsJournal).                               *)
(***************************************************************************)
EXTENDS Naturals, Sequences, FiniteSets, SequencesExt

CONSTANTS
  Messages,        \* message ids
  AuthorOf,        \* who writes each
  RootOf,          \* the thread each is in, None for the channel itself
  None,            \* no value
  RecordCap,       \* maxRecords of the lifecycle
  ContextCap,      \* maxRecordsPerChat of the context
  SenderCap,       \* maxRecordsPerSender of the context
  Plans            \* bounds: a record each, with the text each message is
                   \* posted with, if it is, and how many operations, crashes
                   \* and expiries there are

VARIABLES
  posted,   \* the text each message was posted with, None before
  ops,      \* the newest operation each author retains
  rec,      \* records of the lifecycle, None when absent
  lru,      \* their order, the least recently touched first
  seen,     \* state.seen: the messages that were committed
  ctx,      \* entries of the context in the order of receipt
  rows,     \* journaled prompts, each with its snapshot of the context
  disk,     \* the last snapshot on disk of rec, lru, seen and rows
  rest      \* what is left of the bounds, and the clock

node == <<posted, ops>>
vars == <<node, rec, lru, seen, ctx, rows, disk, rest>>

Authors == {AuthorOf[m] : m \in Messages}
(* A version of a message: when, how long ("empty", "fits" or "large") and *)
(* whether it mentions the bot.                                            *)
Text(at, kind) == [at |-> at, size |-> IF kind = "prompt" THEN "fits" ELSE kind, mention |-> kind = "prompt"]
Edits(at) == {Text(at, kind) : kind \in {"empty", "fits", "large", "prompt"}}

Nothing == [m \in Messages |-> None]
Init ==
  /\ posted = Nothing /\ ops = [a \in Authors |-> None]
  /\ rec = Nothing /\ lru = <<>> /\ seen = {} /\ ctx = <<>> /\ rows = {}
  /\ disk = [rec |-> Nothing, lru |-> <<>>, seen |-> {}, rows |-> {}]
  /\ \E p \in Plans : rest = [first |-> p.first, ops |-> p.ops, crashes |-> p.crashes,
                              expiries |-> p.expiries, clock |-> 1]

-----------------------------------------------------------------------------
(* The people.                                                             *)

Posts(m) ==
  /\ posted[m] = None /\ rest.first[m] # None
  /\ posted' = [posted EXCEPT ![m] = Text(rest.clock, rest.first[m])]
  /\ rest' = [rest EXCEPT !.clock = @ + 1]
  /\ UNCHANGED <<ops, rec, lru, seen, ctx, rows, disk>>

(* An edit or a deletion takes the place of the author's operation before. *)
Operates(m) ==
  /\ posted[m] # None /\ rest.ops > 0
  /\ rest' = [rest EXCEPT !.clock = @ + 1, !.ops = @ - 1]
  /\ \E o \in {[kind |-> "delete", msg |-> m, text |-> Text(rest.clock, "empty")]}
              \cup {[kind |-> "edit", msg |-> m, text |-> t] : t \in Edits(rest.clock)} :
       ops' = [ops EXCEPT ![AuthorOf[m]] = o]
  /\ UNCHANGED <<posted, rec, lru, seen, ctx, rows, disk>>

-----------------------------------------------------------------------------
(* The lifecycle.                                                          *)

(* touch: the record is the newest; the oldest go beyond the cap.          *)
Touched(order, m) ==
  LET s == Append(SelectSeq(order, LAMBDA n : n # m), m)
  IN  IF Len(s) > RecordCap THEN Tail(s) ELSE s
Kept(records, order) == [m \in Messages |-> IF m \in ToSet(order) THEN records[m] ELSE None]

Blank == [at |-> 0, edit |-> None, deleted |-> FALSE]

(* applyMessage: an operation that came first is kept.                     *)
WithMessage(m) == [(IF rec[m] = None THEN Blank ELSE rec[m]) EXCEPT !.at = posted[m].at]

(* Mutant: a message counts as it was posted. *)
AsPosted(r, m) == posted[m]

(* The text in force: an edit counts when it is newer than the message.    *)
InForce(r, m) == IF r.edit # None /\ r.edit.at > r.at THEN r.edit ELSE posted[m]

Version(r) == IF r.edit # None /\ r.edit.at > r.at THEN r.edit.at ELSE r.at

(* applyOperation: the last edit wins; a deletion is final.                *)
WithOperation(r, o) ==
  IF o.kind = "delete" THEN [r EXCEPT !.deleted = TRUE]
  ELSE IF ~r.deleted /\ o.text.at > Version(r) THEN [r EXCEPT !.edit = o.text] ELSE r

-----------------------------------------------------------------------------
(* The context.                                                            *)

By(c, a) == SelectSeq(c, LAMBDA e : AuthorOf[e.msg] = a)

(* What a sequence has at some of its places.                              *)
At(c, places) ==
  [n \in 1 .. Cardinality(places) |->
     c[CHOOSE i \in places : Cardinality({j \in places : j <= i}) = n]]

(* trimChat: first the oldest of a sender who has too many, then the       *)
(* oldest.                                                                 *)
Trimmed(c) ==
  LET fair == {i \in DOMAIN c :
                 Cardinality({j \in DOMAIN c : j >= i /\ AuthorOf[c[j].msg] = AuthorOf[c[i].msg]}) <= SenderCap}
  IN  At(c, {i \in fair : Cardinality({j \in fair : j >= i}) <= ContextCap})

(* append: no duplicate, nothing empty and nothing too large.              *)
Appended(m, t) ==
  IF t.size # "fits" \/ \E i \in DOMAIN ctx : ctx[i].msg = m THEN ctx
  ELSE Trimmed(Append(ctx, [msg |-> m, text |-> t]))

Without(m) == At(ctx, {i \in DOMAIN ctx : ctx[i].msg # m})

(* replace: a text that is too large is refused, and the old one stays.    *)
Replaced(m, t) ==
  IF t.size # "fits" THEN ctx
  ELSE [i \in DOMAIN ctx |-> IF ctx[i].msg = m THEN [msg |-> m, text |-> t] ELSE ctx[i]]

(* snapshot: a thread sees its root and itself, the channel what is in no  *)
(* thread.                                                                 *)
Relevant(m) ==
  IF RootOf[m] = None THEN {e \in ToSet(ctx) : RootOf[e.msg] = None}
  ELSE {e \in ToSet(ctx) : RootOf[e.msg] = RootOf[m] \/ e.msg = RootOf[m]}

-----------------------------------------------------------------------------
(* The transport.                                                          *)

(* A message arrives by itself, or, when its author has posted again, in   *)
(* the history a later one carries.                                        *)
Replayed(m) ==
  \E n \in Messages : AuthorOf[n] = AuthorOf[m] /\ posted[n] # None /\ posted[n].at > posted[m].at

(* routeOneInbound: a prompt, a line of the context, or only history.      *)
ReceiveMessage(m) ==
  /\ posted[m] # None /\ m \notin seen
  /\ lru' = Touched(lru, m) /\ rec' = Kept([rec EXCEPT ![m] = WithMessage(m)], lru')
  /\ seen' = seen \cup {m}
  /\ LET r == WithMessage(m)  t == InForce(r, m) IN
     IF r.deleted \/ Replayed(m) THEN UNCHANGED <<ctx, rows>>
     ELSE IF t.mention
     THEN rows' = rows \cup {[msg |-> m, text |-> t, context |-> Relevant(m)]} /\ UNCHANGED ctx
     ELSE ctx' = Appended(m, t) /\ UNCHANGED rows
  /\ UNCHANGED <<node, disk, rest>>

Changed(r, o) == WithOperation(r, o) # r

(* Mutant: an empty text replaces, like any other. *)
ContextAfterAny(r, o) == IF r.deleted THEN Without(o.msg) ELSE Replaced(o.msg, o.text)

(* What an operation does to the context.                                  *)
ContextAfter(r, o) ==
  IF r.deleted \/ o.text.size = "empty" THEN Without(o.msg) ELSE Replaced(o.msg, o.text)

(* reconcileQueuedIngressOperation: a row that is deleted, or no longer    *)
(* addressed to the bot, goes; else it has the new text.                   *)
RowsAfter(r, o) ==
  {row \in rows : row.msg # o.msg}
  \cup {[row EXCEPT !.text = o.text] : row \in {x \in rows : x.msg = o.msg /\ ~r.deleted /\ o.text.mention}}

ReceiveOperation(a) ==
  /\ ops[a] # None
  /\ LET o == ops[a]
         before == IF rec[o.msg] = None THEN Blank ELSE rec[o.msg]
         after == WithOperation(before, o) IN
     /\ lru' = Touched(lru, o.msg) /\ rec' = Kept([rec EXCEPT ![o.msg] = after], lru')
     /\ IF Changed(before, o)
        THEN ctx' = ContextAfter(after, o) /\ rows' = RowsAfter(after, o)
        ELSE UNCHANGED <<ctx, rows>>
  /\ <<rec', lru', ctx', rows'>> # <<rec, lru, ctx, rows>>
  /\ UNCHANGED <<node, seen, disk, rest>>

(* The row's turn takes it.                                                *)
Dispatch(row) ==
  /\ rows' = rows \ {row}
  /\ UNCHANGED <<node, rec, lru, seen, ctx, disk, rest>>

-----------------------------------------------------------------------------
(* prune: a record that was not touched for its lifetime goes.             *)
ExpireRecord ==
  /\ lru # <<>> /\ rest.expiries > 0 /\ rest' = [rest EXCEPT !.expiries = @ - 1]
  /\ lru' = Tail(lru) /\ rec' = Kept(rec, lru')
  /\ UNCHANGED <<node, seen, ctx, rows, disk>>

(* pruneExpired, or trimGlobal for another channel: the oldest entry goes. *)
ExpireContext ==
  /\ ctx # <<>> /\ rest.expiries > 0 /\ rest' = [rest EXCEPT !.expiries = @ - 1]
  /\ ctx' = Tail(ctx)
  /\ UNCHANGED <<node, rec, lru, seen, rows, disk>>

Snapshot == [rec |-> rec, lru |-> lru, seen |-> seen, rows |-> rows]

Saved ==
  /\ rest.crashes > 0 /\ disk # Snapshot /\ disk' = Snapshot
  /\ UNCHANGED <<node, rec, lru, seen, ctx, rows, rest>>

(* restore: the context was in memory only.                                *)
Crash ==
  /\ rest.crashes > 0 /\ rest' = [rest EXCEPT !.crashes = @ - 1]
  /\ rec' = disk.rec /\ lru' = disk.lru /\ seen' = disk.seen /\ rows' = disk.rows
  /\ ctx' = <<>>
  /\ UNCHANGED <<node, disk>>

Next ==
  \/ \E m \in Messages : Posts(m) \/ Operates(m) \/ ReceiveMessage(m)
  \/ \E a \in Authors : ReceiveOperation(a)
  \/ \E row \in rows : Dispatch(row)
  \/ ExpireRecord \/ ExpireContext \/ Saved \/ Crash

(* What is retained is replayed every two minutes.                         *)
Fairness ==
  /\ \A m \in Messages : WF_vars(ReceiveMessage(m))
  /\ \A a \in Authors : WF_vars(ReceiveOperation(a))

Spec == Init /\ [][Next]_vars /\ Fairness

-----------------------------------------------------------------------------
TypeOK ==
  /\ \A m \in Messages : posted[m] # None => posted[m] = Text(posted[m].at, rest.first[m])
  /\ {m \in Messages : rec[m] # None} = ToSet(lru) /\ Len(lru) <= RecordCap
  /\ seen \subseteq {m \in Messages : posted[m] # None}
  /\ Len(ctx) <= ContextCap /\ \A a \in Authors : Len(By(ctx, a)) <= SenderCap
  /\ \A i \in DOMAIN ctx : ctx[i].text.size = "fits"
  /\ \A row \in rows : row.text.mention

(* The context never shows a message that is known to be deleted, nor a    *)
(* text that is known to be outdated unless the newer one is too large for *)
(* it, in whatever order message, operations, expiries and crashes come    *)
(* (t3ams/index.mjs:2121-2123, 2380-2388).                                 *)
ContextFollows ==
  \A i \in DOMAIN ctx :
    LET m == ctx[i].msg IN
    rec[m] # None =>
      /\ ~rec[m].deleted
      /\ ctx[i].text = InForce(rec[m], m) \/ InForce(rec[m], m).size = "large"

(* The author's last word counts in the end: a deleted message is neither  *)
(* in the context nor waiting as a prompt, and an edited one is there only *)
(* with the new text, unless that is too large for the context             *)
(* (t3ams/index.mjs:2778-2780).                                            *)
LastWordCounts ==
  \A a \in Authors :
    LET o == ops[a]
        heeded ==
          /\ \A i \in DOMAIN ctx : ctx[i].msg = o.msg => o.kind = "edit" /\ (ctx[i].text = o.text \/ o.text.size = "large")
          /\ \A row \in rows : row.msg = o.msg => o.kind = "edit" /\ row.text = o.text
    IN <>[](o # None => heeded)

-----------------------------------------------------------------------------
(* A property the code does not have.                                      *)

(* A waiting prompt, too, carries no context that is known to be deleted   *)
(* or outdated (docs/guide/t3ams.md:165-168: "bot-core reconciles them     *)
(* before queued work is dispatched: an edit updates the pending           *)
(* prompt/context"). The copy a row took of the context is never touched.  *)
WaitingContextFollows ==
  \A row \in rows : \A e \in row.context :
    rec[e.msg] # None => ~rec[e.msg].deleted /\ e.text = InForce(rec[e.msg], e.msg)

=============================================================================
