----------------------------- MODULE FileVault -----------------------------
(***************************************************************************)
(* The durable files of the bot: the vault (lib/file-store.mjs), the       *)
(* commands /file put, rm and get (lib/file-commands.mjs), the routes      *)
(* /files and /send of the bridge (index.mjs 2313-2349, 2380-2398), and    *)
(* the upload of a saved file (sendAttachment, uploadP2PFile).             *)
(*                                                                         *)
(* An update moves the old file aside, puts the new one into place, writes *)
(* the manifest and removes the old one, in one synchronous call: no other *)
(* operation comes between, but a crash does, and so do the readers, whose *)
(* system calls run in other threads.                                      *)
(*                                                                         *)
(* Not modelled: names of paths and symbolic links, directories, copying   *)
(* from a source that changes (it is a failed write), /file ls and info,   *)
(* the names of temporary files, an upload that the HOP node refuses       *)
(* (HopTransfer).                                                          *)
(***************************************************************************)
EXTENDS Naturals, FiniteSets, Sequences, FiniteSetsExt

CONSTANTS
  Paths,      \* paths in the vault, each in the namespace of a peer
  PeerOf,     \* [Paths -> peers]
  Versions,   \* contents that are saved
  SizeOf,     \* [Versions -> Nat \ {0}]
  TotalCap,   \* size of all files (BOT_FILE_MAX_TOTAL_MB)
  PeerCap,    \* size of the files of a peer
  EntryCap,   \* files of a peer
  Readers,    \* uploads and downloads of saved files
  None, Unknown,
  Plans       \* [calls: [Calls -> Nat], faults: [Faults -> Nat], http: readers that are a GET]

VARIABLES
  entry,      \* [Paths -> Versions or None]: the entries in memory
  manifest,   \* the entries in the manifest on disk
  file,       \* what is at each path on disk
  told,       \* what the last answer said of a path, Unknown if a crash came before it
  op,         \* the update that runs, None if there is none
  reader,     \* what each reader is at, None before it begins
  up,         \* "up", "down", or "broken": the vault refuses to open
  plan, left

vars == <<entry, manifest, file, told, op, reader, up, plan, left>>

Calls == {"put", "rm", "read"}
Faults == {"write", "mode", "crash"}   \* mode: a chmod fails
Uses(k) == left[k] > 0 /\ left' = [left EXCEPT ![k] = @ - 1]

Init ==
  /\ entry = [p \in Paths |-> None] /\ manifest = entry /\ file = entry /\ told = entry
  /\ op = None /\ reader = [r \in Readers |-> None] /\ up = "up"
  /\ plan \in Plans
  /\ left = [k \in Calls \cup Faults |-> IF k \in Calls THEN plan.calls[k] ELSE plan.faults[k]]

-----------------------------------------------------------------------------
Size(v) == IF v = None THEN 0 ELSE SizeOf[v]
Bytes(paths) == MapThenSumSet(LAMBDA p : Size(entry[p]), paths)
Mine(p) == {q \in Paths : PeerOf[q] = PeerOf[p]}
Saved(paths) == {q \in paths : entry[q] # None}

(* admit: what is replaced makes room for what replaces it.                *)
Admits(p, v, overwrite) ==
  /\ entry[p] # None => overwrite
  /\ Bytes(Paths) - Size(entry[p]) + Size(v) <= TotalCap
  /\ entry[p] = None => Cardinality(Saved(Mine(p))) < EntryCap
  /\ Bytes(Mine(p)) - Size(entry[p]) + Size(v) <= PeerCap

(* assertEntryFile                                                         *)
HasFile(p) == file[p] # None /\ Size(file[p]) = Size(entry[p])

Idle == up = "up" /\ op = None

PutBegins(p, v, overwrite) ==
  /\ Idle /\ Uses("put") /\ Admits(p, v, overwrite)
  /\ op' = [path |-> p, new |-> v, at |-> "stage", aside |-> None]
  /\ UNCHANGED <<entry, manifest, file, told, reader, up, plan>>

RemoveBegins(p) ==
  /\ Idle /\ Uses("rm") /\ entry[p] # None /\ HasFile(p)
  /\ op' = [path |-> p, new |-> None, at |-> "aside", aside |-> None]
  /\ UNCHANGED <<entry, manifest, file, told, reader, up, plan>>

At(place) == up = "up" /\ op # None /\ op.at = place
To(place) == op' = [op EXCEPT !.at = place]
Fails == op' = None

(* The new content goes to a temporary file.                               *)
Stages ==
  /\ At("stage")
  /\ \/ To("aside") /\ UNCHANGED left
     \/ Uses("write") /\ Fails
  /\ UNCHANGED <<entry, manifest, file, told, reader, up, plan>>

MovesAside ==
  /\ At("aside")
  /\ \/ /\ file' = [file EXCEPT ![op.path] = None]
        /\ op' = [op EXCEPT !.at = IF op.new = None THEN "list" ELSE "place", !.aside = file[op.path]]
        /\ UNCHANGED left
     \/ Uses("write") /\ Fails /\ UNCHANGED file
  /\ UNCHANGED <<entry, manifest, told, reader, up, plan>>

(* Mutant: the old file stays aside. *)
RestoredNever == [file EXCEPT ![op.path] = None]

(* The old file comes back.                                                *)
Restored == [file EXCEPT ![op.path] = op.aside]

Places ==
  /\ At("place")
  /\ \/ file' = [file EXCEPT ![op.path] = op.new] /\ To("list") /\ UNCHANGED left
     \/ Uses("write") /\ file' = Restored /\ Fails
  /\ UNCHANGED <<entry, manifest, told, reader, up, plan>>

Listed == [entry EXCEPT ![op.path] = op.new]

(* The manifest is replaced by one that lists all entries. If that fails,  *)
(* the old file and the old entry come back. A failed chmod, of the new    *)
(* file or of the manifest, comes when they are in place already.          *)
Lists ==
  /\ At("list")
  /\ \/ entry' = Listed /\ manifest' = Listed /\ To("tidy") /\ UNCHANGED <<file, left>>
     \/ Uses("write") /\ file' = Restored /\ Fails /\ UNCHANGED <<entry, manifest>>
     \/ op.new # None /\ Uses("mode") /\ Fails /\ UNCHANGED <<entry, manifest, file>>
     \/ Uses("mode") /\ manifest' = Listed /\ file' = Restored /\ Fails /\ UNCHANGED entry
  /\ UNCHANGED <<told, reader, up, plan>>

Answers ==
  /\ At("tidy") /\ told' = [told EXCEPT ![op.path] = op.new] /\ op' = None
  /\ UNCHANGED <<entry, manifest, file, reader, up, plan, left>>

-----------------------------------------------------------------------------
(* Readers.                                                                *)

Reads(r, at) == up = "up" /\ reader[r] # None /\ reader[r].at = at
Now(r, next) == reader' = [reader EXCEPT ![r] = next]
Gives(r, end) == Now(r, [reader[r] EXCEPT !.at = end])

(* get: the entry, and a file of its size.                                *)
Begins(r, p, at) ==
  /\ Idle /\ reader[r] = None /\ Uses("read") /\ entry[p] # None /\ HasFile(p)
  /\ Now(r, [at |-> at, path |-> p, declared |-> Size(entry[p]), stat |-> Size(entry[p]), handle |-> None, sent |-> <<>>])
  /\ UNCHANGED <<entry, manifest, file, told, op, up, plan>>

(* sendAttachment: its message will declare the size of the entry.         *)
SendBegins(r, p) == r \notin plan.http /\ Begins(r, p, "stat")

(* A GET sends the size of the entry and streams the file.                 *)
GetBegins(r, p) == r \in plan.http /\ Begins(r, p, "open")

(* lstat of uploadP2PFile: what it finds is not compared with the entry.   *)
Stats(r) ==
  /\ Reads(r, "stat")
  /\ LET f == file[reader[r].path] IN
     IF f = None THEN Gives(r, "failed")
     ELSE Now(r, [reader[r] EXCEPT !.at = "open", !.stat = Size(f)])
  /\ UNCHANGED <<entry, manifest, file, told, op, up, plan, left>>

(* From here on the reader has the file it opened, whatever the path names.*)
Opens(r) ==
  /\ Reads(r, "open")
  /\ LET f == file[reader[r].path] IN
     IF f = None THEN Gives(r, "failed")
     ELSE Now(r, [reader[r] EXCEPT !.at = "read", !.handle = f])
  /\ UNCHANGED <<entry, manifest, file, told, op, up, plan, left>>

(* readExact: a file that is too short fails.                              *)
ReadsChunk(r) ==
  /\ Reads(r, "read") /\ Len(reader[r].sent) < reader[r].stat
  /\ LET k == Len(reader[r].sent) + 1 IN
     IF k > Size(reader[r].handle) THEN Gives(r, "failed")
     ELSE Now(r, [reader[r] EXCEPT !.sent = Append(@, <<reader[r].handle, k>>)])
  /\ UNCHANGED <<entry, manifest, file, told, op, up, plan, left>>

(* Mutant: nobody looks at the file again. *)
SameSizeOrNot(r) == TRUE

(* The size of the open file is compared once more; a GET does not.        *)
SameSize(r) == r \notin plan.http => Size(reader[r].handle) = reader[r].stat

ReadEnds(r) ==
  /\ Reads(r, "read") /\ Len(reader[r].sent) = reader[r].stat
  /\ Gives(r, IF SameSize(r) THEN "sent" ELSE "failed")
  /\ UNCHANGED <<entry, manifest, file, told, op, up, plan, left>>

-----------------------------------------------------------------------------
Crashes ==
  /\ up = "up" /\ Uses("crash") /\ up' = "down" /\ op' = None
  /\ told' = IF op # None /\ op.at \in {"place", "list", "tidy"} THEN [told EXCEPT ![op.path] = Unknown] ELSE told
  /\ reader' = [r \in Readers |-> IF reader[r] = None THEN None ELSE [reader[r] EXCEPT !.at = IF @ = "sent" THEN @ ELSE "failed"]]
  /\ UNCHANGED <<entry, manifest, file, plan>>

(* loadManifest: one entry without its file, or with a file of another     *)
(* size, and the vault does not open.                                      *)
Loads(m) == \A p \in Paths : m[p] # None => file[p] # None /\ Size(file[p]) = Size(m[p])

Starts ==
  /\ up = "down"
  /\ IF Loads(manifest) THEN up' = "up" /\ entry' = manifest ELSE up' = "broken" /\ UNCHANGED entry
  /\ UNCHANGED <<manifest, file, told, op, reader, plan, left>>

-----------------------------------------------------------------------------
Next ==
  \/ \E p \in Paths, v \in Versions, overwrite \in BOOLEAN : PutBegins(p, v, overwrite)
  \/ \E p \in Paths : RemoveBegins(p)
  \/ Stages \/ MovesAside \/ Places \/ Lists \/ Answers
  \/ \E r \in Readers, p \in Paths : SendBegins(r, p) \/ GetBegins(r, p)
  \/ \E r \in Readers : Stats(r) \/ Opens(r) \/ ReadsChunk(r) \/ ReadEnds(r)
  \/ Crashes \/ Starts

Spec == Init /\ [][Next]_vars
-----------------------------------------------------------------------------
TypeOK ==
  /\ entry \in [Paths -> Versions \cup {None}] /\ manifest \in [Paths -> Versions \cup {None}]
  /\ file \in [Paths -> Versions \cup {None}] /\ told \in [Paths -> Versions \cup {None, Unknown}]
  /\ Bytes(Paths) <= TotalCap /\ \A p \in Paths : Bytes(Mine(p)) <= PeerCap
  /\ up \in {"up", "down", "broken"}

(* Whenever no update runs, a path has what the last answer said of it: in *)
(* memory, in the manifest and on disk. Updates that failed at any of      *)
(* their steps, and crashes during the updates of other paths, change      *)
(* nothing of it (file-store.mjs:285-301, 365-368). A chmod that fails is  *)
(* left out: it leaves the three in disagreement.                          *)
SavedIsThere ==
  Idle /\ left["mode"] = plan.faults["mode"] =>
    \A p \in Paths : told[p] # Unknown =>
      entry[p] = told[p] /\ manifest[p] = told[p] /\ file[p] = told[p]

(* What a peer is sent is one saved version of a file, whole, although the *)
(* file is replaced or removed between the steps of the upload             *)
(* (hop-client.mjs:332-383).                                               *)
DeliveredIsWhole == \A r \in Readers :
  reader[r] # None /\ reader[r].at = "sent" /\ r \notin plan.http =>
    \E v \in Versions : reader[r].sent = [k \in 1 .. Size(v) |-> <<v, k>>]

(* Updates are atomic: the vault opens after a crash                       *)
(* (docs/explanation/protocol.md:202).                                     *)
OpensAfterCrash == up # "broken"

-----------------------------------------------------------------------------
(* Properties the code does not have.                                      *)

(* An attachment has the size that its message declares: the file may be   *)
(* replaced between the check of sendAttachment and the lstat of the       *)
(* upload, and a receiver refuses what is larger than declared.            *)
SentIsAsDeclared == \A r \in Readers :
  reader[r] # None /\ reader[r].at = "sent" => Len(reader[r].sent) = reader[r].declared

(* The body of a GET is one saved version.                                 *)
ServedIsWhole == \A r \in Readers :
  reader[r] # None /\ reader[r].at = "sent" /\ r \in plan.http =>
    \E v \in Versions : reader[r].sent = [k \in 1 .. Size(v) |-> <<v, k>>]
=============================================================================
