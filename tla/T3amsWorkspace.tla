--------------------------- MODULE T3amsWorkspace ---------------------------
(***************************************************************************)
(* A workspace in the T3ams protocol client                                *)
(* (src/bot-core/transports/t3ams/t3ams-protocol.mjs): how the bot enrolls *)
(* by an invite and answers it with a join, follows the state documents,   *)
(* channel lists and private keys its people publish, and reads their      *)
(* messages. All of these are retained statements: people replace them,    *)
(* and the bot sees what is retained in any order and any number of times, *)
(* whenever a route is opened (syncSubscriptions, syncTopology and the     *)
(* refresh timer of t3ams/index.mjs). A document wins over another by      *)
(* version and then time; a channel list replaces the lists its creator    *)
(* published before; a key comes by a grant and is replaced by rotations.  *)
(*                                                                         *)
(* Not modelled: envelopes, signatures and pinned keys (every statement is *)
(* genuine), several workspaces (Evict stands for the room another one     *)
(* takes), caps of channels and keys, what members announce of themselves, *)
(* what happens to a message that was read (T3amsJournal), edits.          *)
(***************************************************************************)
EXTENDS Naturals, Sequences, FiniteSets, SequencesExt

CONSTANTS
  Owner,         \* the creator of the workspace, who invites the bot
  Others,        \* the other people
  Bot,           \* the bot itself
  None,          \* no value
  Channels,      \* channel ids
  Private,       \* those with a key of their own
  Announcements, \* those only owners and admins post to
  CreatorOf,     \* who creates each channel
  Rosters,       \* the rosters a document may state: [People -> role or None]
  FirstRoster,   \* the roster of the invite
  Budgets        \* bounds: how many documents, channel lists, notifications,
                 \* messages and faults there may be in one behaviour; each a
                 \* record, and fault names the kind of fault

VARIABLES
  docs, lists, notes, posts, \* what each person, or channel, retains on the node
  epoch,     \* the key version of each channel
  holder,    \* who lists the channel
  ws,        \* state.workspaces[wsId], None when absent
  keys,      \* state.keys: the versions held of each channel, newest first
  joining,   \* workspaceJoinInFlight, and how far that join is
  heard,     \* the messages handed to the journal
  disk,      \* the last snapshot of ws and keys on disk
  left       \* what is left of the budget

people == <<docs, lists, notes, posts, epoch, holder>>
vars == <<people, ws, keys, joining, heard, disk, left>>

Humans == {Owner} \cup Others
Roles  == {"owner", "admin", "member", "guest"}
States == {"none", "live", "archived", "deleted"}

Member(d, x) == d.role[x] # None

(* canReadWorkspaceChannel, canPostWorkspaceChannel.                       *)
CanRead(d, c, x) == Member(d, x) /\ (c \in Announcements => d.role[x] # "guest")
CanPost(d, c, x) ==
  /\ Member(d, x) /\ d.role[x] # "guest"
  /\ c \in Announcements => d.role[x] \in {"owner", "admin"}

(* stateDocSupersedes. The third criterion, the signer, never decides      *)
(* here: no two documents have the same time.                              *)
Later(new, old) == new.v > old.v \/ (new.v = old.v /\ new.at > old.at)

FirstDoc == [v |-> 1, at |-> 0, by |-> Owner, role |-> FirstRoster]

Spends(what) == left[what] > 0 /\ left' = [left EXCEPT ![what] = @ - 1]
Fault(kind) == left.fault = kind /\ Spends("faults")
(* A fresh time or id: what is left only ever shrinks.                     *)
Fresh(what) == 1 + Max({b[what] : b \in Budgets}) - left[what]

Init ==
  /\ docs = [h \in Humans |-> None] /\ lists = [h \in Humans |-> None]
  /\ notes = [h \in Humans |-> None] /\ posts = [c \in Channels |-> None]
  /\ epoch = [c \in Channels |-> 1] /\ holder = CreatorOf
  /\ ws = None /\ keys = [c \in Channels |-> <<>>] /\ joining = None
  /\ heard = {} /\ disk = [ws |-> None, keys |-> [c \in Channels |-> <<>>]]
  /\ left \in Budgets

-----------------------------------------------------------------------------
(* The people. Each retains one document, one list and one notification to *)
(* the bot, each channel its newest message.                               *)

Published == {FirstDoc} \cup {docs[h] : h \in {x \in Humans : docs[x] # None}}
Newest == CHOOSE d \in Published : \A e \in Published \ {d} : Later(d, e)

(* An owner or admin of some published document publishes one; two may do  *)
(* so at once and use the same version.                                    *)
PublishDoc(h, roster) ==
  /\ \E d \in Published : d.role[h] \in {"owner", "admin"}
  /\ Spends("docs")
  /\ \E v \in {Newest.v, Newest.v + 1} :
       docs' = [docs EXCEPT ![h] = [v |-> v, at |-> Fresh("docs"), by |-> h, role |-> roster]]
  /\ UNCHANGED <<lists, notes, posts, epoch, holder, ws, keys, joining, heard, disk>>

Listed(h, c) == IF lists[h] = None THEN "none" ELSE lists[h].state[c]

(* The complete list of what one person holds. It is never empty, and a    *)
(* deleted channel is not listed as anything else again.                   *)
PublishList(h, state) ==
  /\ \A c \in Channels : state[c] # "none" => holder[c] = h
  /\ \E c \in Channels : state[c] # "none"
  /\ \A c \in Channels : Listed(h, c) = "deleted" => state[c] = "deleted"
  /\ Spends("lists")
  /\ lists' = [lists EXCEPT ![h] = [at |-> Fresh("lists"), state |-> state]]
  /\ UNCHANGED <<docs, notes, posts, epoch, holder, ws, keys, joining, heard, disk>>

(* The owner adopts a channel whose creator is no longer a member, and may *)
(* not know that he deleted it.                                            *)
Adopt(c) ==
  /\ holder[c] # Owner /\ ~Member(Newest, holder[c])
  /\ Spends("lists")
  /\ holder' = [holder EXCEPT ![c] = Owner]
  /\ lists' = [lists EXCEPT ![Owner] =
       [at |-> Fresh("lists"), state |-> [d \in Channels |-> IF d = c THEN "live" ELSE Listed(Owner, d)]]]
  /\ UNCHANGED <<docs, notes, posts, epoch, ws, keys, joining, heard, disk>>

(* A grant, or a rotation that names the bot or leaves it out.             *)
Notify(c, kind, mine) ==
  /\ c \in Private /\ Spends("notes")
  /\ epoch' = [epoch EXCEPT ![c] = IF kind = "rotate" THEN @ + 1 ELSE @]
  /\ notes' = [notes EXCEPT ![holder[c]] = [kind |-> kind, ch |-> c, v |-> epoch'[c], mine |-> mine]]
  /\ UNCHANGED <<docs, lists, posts, holder, ws, keys, joining, heard, disk>>

Post(h, c) ==
  /\ CanPost(Newest, c, h) /\ Spends("posts")
  /\ posts' = [posts EXCEPT ![c] = [id |-> Fresh("posts"), by |-> h, v |-> epoch[c]]]
  /\ UNCHANGED <<docs, lists, notes, epoch, holder, ws, keys, joining, heard, disk>>

-----------------------------------------------------------------------------
(* Enrolling.                                                              *)

(* The invite carries the first document and what the owner has created.   *)
Enrolled ==
  [doc |-> FirstDoc, joined |-> FALSE, gen |-> left.faults,
   list |-> [c \in Channels |-> IF CreatorOf[c] = Owner THEN [by |-> Owner, state |-> "live"] ELSE None],
   listAt |-> [h \in Humans |-> 0]]

(* receiveInbox with an invite: enroll, then answer it, unless that is     *)
(* done or under way. A public bot may refuse for a while (publicAdmission,*)
(* a full roster): the retained invite then comes again.                   *)
ReceiveInvite ==
  /\ ws # None => ~ws.joined /\ joining = None
  /\ ws' = IF ws = None THEN Enrolled ELSE ws
  /\ joining' = IF joining = None THEN [step |-> "join", gen |-> ws'.gen] ELSE joining
  /\ UNCHANGED <<people, keys, heard, disk, left>>

(* The join is submitted, then publishMemberAnnounce, which does nothing   *)
(* for a workspace that has gone.                                          *)
JoinSent ==
  /\ joining # None /\ joining.step = "join"
  /\ joining' = [joining EXCEPT !.step = "announce"]
  /\ UNCHANGED <<people, ws, keys, heard, disk, left>>

(* joinSent is set on the object the invite was read into, which an        *)
(* eviction may have taken out of the state.                               *)
Marked == IF ws # None /\ ws.gen = joining.gen THEN [ws EXCEPT !.joined = TRUE] ELSE ws

AnnounceSent ==
  /\ joining # None /\ joining.step = "announce"
  /\ ws' = Marked /\ joining' = None
  /\ UNCHANGED <<people, keys, heard, disk, left>>

(* Mutant: a failed join stays in workspaceJoinInFlight. *)
AfterFailureKept == [joining EXCEPT !.step = "failed"]

(* finally                                                                 *)
AfterFailure == None

JoinFails ==
  /\ joining # None /\ joining.step \in {"join", "announce"} /\ Fault("submit")
  /\ joining' = AfterFailure
  /\ UNCHANGED <<people, ws, keys, heard, disk>>

-----------------------------------------------------------------------------
(* The workspace plane.                                                    *)

(* activePrivateKeyIds                                                     *)
ActivePrivate(list) == {c \in Private : list[c] # None /\ list[c].state = "live"}

(* pruneWorkspaceKeys                                                      *)
Pruned(list) == [c \in Channels |-> IF c \in ActivePrivate(list) THEN keys[c] ELSE <<>>]

(* workspaceStateDoc: signed by a member of the document in force.         *)
ReceiveDoc(h) ==
  /\ ws # None /\ docs[h] # None
  /\ Member(ws.doc, h) /\ Later(docs[h], ws.doc)
  /\ ws' = [ws EXCEPT !.doc = docs[h]]
  /\ keys' = IF Member(docs[h], Bot) THEN Pruned(ws.list) ELSE [c \in Channels |-> <<>>]
  /\ UNCHANGED <<people, joining, heard, disk, left>>

(* Another's channel may be listed once he is no longer a member.          *)
CanTakeOver(h, c) ==
  ws.list[c] # None /\ ws.list[c].by # h =>
    ~Member(ws.doc, ws.list[c].by) /\ ws.doc.role[h] \in {"owner", "admin"}

(* Mutant: a listed channel has the state the newest list gives it. *)
StateAsListed(h, c) == lists[h].state[c]

(* Deleted is final while the channel is listed.                           *)
StateAfter(h, c) ==
  IF ws.list[c] # None /\ ws.list[c].state = "deleted" THEN "deleted" ELSE lists[h].state[c]

(* What the creator listed before and leaves out now is gone.              *)
Merged(h) ==
  [c \in Channels |->
     IF Listed(h, c) # "none" THEN [by |-> h, state |-> StateAfter(h, c)]
     ELSE IF ws.list[c] # None /\ ws.list[c].by = h THEN None ELSE ws.list[c]]

(* channelRegistry: a newer list of a member, as a whole or not at all.    *)
ReceiveList(h) ==
  /\ ws # None /\ lists[h] # None /\ Member(ws.doc, h)
  /\ lists[h].at > ws.listAt[h]
  /\ \A c \in Channels : Listed(h, c) # "none" => CanTakeOver(h, c)
  /\ ws' = [ws EXCEPT !.list = Merged(h), !.listAt[h] = lists[h].at]
  /\ keys' = Pruned(Merged(h))
  /\ UNCHANGED <<people, joining, heard, disk, left>>

-----------------------------------------------------------------------------
(* Keys.                                                                   *)

Held(c) == IF keys[c] = <<>> THEN 0 ELSE Head(keys[c])

(* Mutant: a grant, too, needs a key to replace. *)
GrantedByRotation(n) == n.kind = "grant" /\ keys[n.ch] # <<>> /\ n.v > Held(n.ch)

(* grantChannelAccess                                                      *)
Granted(n) == n.kind = "grant" /\ n.mine /\ n.v > Held(n.ch)

(* rotateChannelKey: of a channel whose key the bot has.                   *)
Rotated(n) == n.kind = "rotate" /\ keys[n.ch] # <<>> /\ n.v > Held(n.ch)

(* A grant starts a slot; a rotation keeps four keys of the past; one that *)
(* leaves the bot out revokes them all.                                    *)
SlotAfter(n) ==
  IF n.kind = "grant" THEN <<n.v>>
  ELSE IF n.mine THEN LET s == <<n.v>> \o keys[n.ch] IN SubSeq(s, 1, IF Len(s) < 5 THEN Len(s) ELSE 5)
  ELSE <<>>

(* Mutant: the notification may create a slot for any channel. *)
AcceptsAnyChannel(h, n) == Member(ws.doc, h)

(* For an active private channel of the member who notifies.               *)
Accepts(h, n) ==
  /\ n.ch \in ActivePrivate(ws.list) /\ ws.list[n.ch].by = h /\ Member(ws.doc, h)

ReceiveNote(h) ==
  /\ ws # None /\ notes[h] # None /\ Member(ws.doc, Bot)
  /\ Accepts(h, notes[h])
  /\ Granted(notes[h]) \/ Rotated(notes[h])
  /\ keys' = [keys EXCEPT ![notes[h].ch] = SlotAfter(notes[h])]
  /\ UNCHANGED <<people, ws, joining, heard, disk, left>>

-----------------------------------------------------------------------------
(* Messages.                                                               *)

(* The channel's route is open (syncSubscriptions).                        *)
Watched(c) ==
  /\ ws # None /\ Member(ws.doc, Bot)
  /\ ws.list[c] # None /\ ws.list[c].state = "live"
  /\ CanRead(ws.doc, c, Bot) /\ CanPost(ws.doc, c, Bot)

(* workspaceChannel: a private message opens with a key that is or was     *)
(* current. It is claimed once.                                            *)
ReceivePost(c) ==
  /\ Watched(c) /\ posts[c] # None /\ posts[c].id \notin heard
  /\ c \in Private => posts[c].v \in ToSet(keys[c])
  /\ CanPost(ws.doc, c, posts[c].by)
  /\ heard' = heard \cup {posts[c].id}
  /\ UNCHANGED <<people, ws, keys, joining, disk, left>>

-----------------------------------------------------------------------------
(* The snapshot, eviction and crashes.                                     *)

Snapshot == [ws |-> ws, keys |-> keys]

(* persist: nobody waits for it. Bound: only while a crash may come.       *)
Saved ==
  /\ left.fault = "crash" /\ left.faults > 0
  /\ disk # Snapshot /\ disk' = Snapshot
  /\ UNCHANGED <<people, ws, keys, joining, heard, left>>

(* removeWorkspaceState: a public bot makes room for another workspace.    *)
Evict ==
  /\ ws # None /\ Fault("evict")
  /\ ws' = None /\ keys' = [c \in Channels |-> <<>>]
  /\ UNCHANGED <<people, joining, heard, disk>>

(* normalizeT3amsState: of the keys only those of active private channels. *)
Crash ==
  /\ Fault("crash")
  /\ ws' = disk.ws
  /\ keys' = [c \in Channels |->
       IF disk.ws # None /\ c \in ActivePrivate(disk.ws.list) THEN disk.keys[c] ELSE <<>>]
  /\ joining' = None
  /\ UNCHANGED <<people, heard, disk>>

-----------------------------------------------------------------------------
PeopleStep ==
  \/ \E h \in Humans, r \in Rosters : PublishDoc(h, r)
  \/ \E h \in Humans, s \in [Channels -> States] : PublishList(h, s)
  \/ \E c \in Channels : Adopt(c) \/ Notify(c, "grant", TRUE)
  \/ \E c \in Channels, mine \in BOOLEAN : Notify(c, "rotate", mine)
  \/ \E h \in Humans, c \in Channels : Post(h, c)

Receives ==
  \/ \E h \in Humans : ReceiveDoc(h) \/ ReceiveList(h) \/ ReceiveNote(h)
  \/ \E c \in Channels : ReceivePost(c)

Next ==
  \/ PeopleStep \/ Receives
  \/ ReceiveInvite \/ JoinSent \/ AnnounceSent \/ JoinFails
  \/ Saved \/ Evict \/ Crash

(* What is retained is replayed: every route is opened again each two      *)
(* minutes, whatever else happens (t3ams/index.mjs:2613-2618).             *)
Fairness ==
  /\ WF_vars(ReceiveInvite) /\ WF_vars(JoinSent) /\ WF_vars(AnnounceSent)
  /\ \A h \in Humans :
       WF_vars(ReceiveDoc(h)) /\ WF_vars(ReceiveList(h)) /\ WF_vars(ReceiveNote(h))
  /\ \A c \in Channels : WF_vars(ReceivePost(c))

Spec == Init /\ [][Next]_vars /\ Fairness

-----------------------------------------------------------------------------
TypeOK ==
  /\ \A h \in Humans : docs[h] # None => docs[h].v \in Nat /\ docs[h].role \in Rosters
  /\ ws # None =>
       /\ ws.doc \in Published \cup [v : Nat, at : Nat, by : Humans, role : Rosters]
       /\ \A c \in Channels : ws.list[c] # None => ws.list[c].state \in States \ {"none"}
  /\ \A c \in Channels : \A i \in 1 .. Len(keys[c]) - 1 : keys[c][i] > keys[c][i + 1]
  /\ joining # None => joining.step \in {"join", "announce"}
  /\ heard \subseteq Nat /\ left.faults \in Nat

(* The bot holds keys only of live private channels of a workspace it is a *)
(* member of, through documents, lists, notifications, evictions and       *)
(* restarts in any order (t3ams-protocol.mjs:1013-1023, 1672-1680,         *)
(* 1789-1798).                                                             *)
KeysAreInUse ==
  \A c \in Channels : keys[c] # <<>> =>
    ws # None /\ Member(ws.doc, Bot) /\ c \in ActivePrivate(ws.list)

(* A deleted channel never comes back while the workspace is kept and its  *)
(* creator lists it, whichever of his lists, an adopter's or a replay      *)
(* comes next (t3ams-protocol.mjs:1724-1735).                              *)
DeletedStaysDeleted ==
  [][\A c \in Channels :
       ws # None /\ ws' # None /\ left'.faults = left.faults
       /\ ws.list[c] # None /\ ws'.list[c] # None /\ ws.list[c].state = "deleted"
         => ws'.list[c].state = "deleted"]_vars

(* The people have made the channel ready for the bot and its message p:   *)
(* the owner's document, which nobody contests, has the bot and the author *)
(* as posters, the holder lists it as live, and granted the key last.      *)
Ready(c) ==
  LET h == holder[c] p == posts[c] IN
  /\ Newest.by = Owner /\ \A x \in Others : docs[x] # None => docs[x].v < Newest.v
  /\ Member(Newest, h) /\ (h # CreatorOf[c] =>
       ~Member(Newest, CreatorOf[c]) /\ Listed(CreatorOf[c], c) # "deleted")
  /\ CanRead(Newest, c, Bot) /\ CanPost(Newest, c, Bot)
  /\ Listed(h, c) = "live"
  /\ p # None /\ CanPost(Newest, c, p.by)
  /\ c \in Private => notes[h] # None /\ notes[h] = [kind |-> "grant", ch |-> c, v |-> p.v, mine |-> TRUE]

(* A message in a channel that is ready for the bot is read in the end,    *)
(* whatever the order in which invite, documents, lists, keys and message  *)
(* arrived, and across failed joins, an eviction or a crash                *)
(* (t3ams/index.mjs:2575-2580, 2607-2611).                                 *)
ReadyIsHeard ==
  \A c \in Channels : (<>[]Ready(c)) => []<>(posts[c] # None /\ posts[c].id \in heard)

(* The invite is answered in the end: the workspace the bot keeps is one   *)
(* it has told the inviter about (t3ams-protocol.mjs:1580-1610).           *)
JoinIsSent == <>[](ws # None /\ ws.joined)

-----------------------------------------------------------------------------
(* A property the code does not have.                                      *)

(* The document the bot ends with does not depend on the order in which    *)
(* the retained documents arrive (t3ams-protocol.mjs:504-506). A document  *)
(* is only taken from a member of the one in force: of two people who      *)
(* publish at once, the one the other's document removes may never be      *)
(* heard, though his document is the later one.                            *)
DocsConverge == <>[](ws # None /\ ws.doc = Newest)

=============================================================================
