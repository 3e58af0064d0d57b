---------------------------- MODULE DurableStore ----------------------------
(***************************************************************************)
(* The durable store of a coordinator: save_store(), load_store() with its *)
(* fall-back to the backup (persistence.cpp), the save after every         *)
(* successful request (handle_frame() of server.cpp) and the start and the *)
(* final save of the tool (mpf_coordinator.cpp).                           *)
(*                                                                         *)
(* A saver is a session thread; after stop() it is the main thread.  The   *)
(* contents of the engine are abstracted to its epoch, its fences and the  *)
(* number of changes committed in its life.  A life is one line of         *)
(* changes: a coordinator that loads the primary goes on with it, one that *)
(* loads nothing, or the older backup, begins a new one.  Renames are      *)
(* atomic and replace, as on POSIX, and a crash loses the process and no   *)
(* data already written.                                                   *)
(***************************************************************************)
EXTENDS Integers

CONSTANTS
    Savers,        \* threads that save
    Workers,       \* worker boots that sessions can lose
    IOErrors,      \* can the file system or a limit fail a call?
    MaxRevision,   \* bound on the changes of one life
    MaxEpoch,      \* the value at which the epoch is exhausted
    MaxLives       \* bound on the starts without a load or from the backup

ASSUME StoreAssumption ==
    /\ IOErrors \in BOOLEAN
    /\ {MaxRevision, MaxEpoch, MaxLives} \subseteq Nat \ {0}

VARIABLES
    engine,        \* what the running coordinator holds: an image
    up,            \* does the coordinator run?
    stopping,      \* has stop() returned, so that only the final save is left?
    file,          \* store, .tmp and .bak |-> the image it decodes to, or why it has none
    pc,            \* where each saver is in save_store()
    image,         \* the image each saver encoded
    handle,        \* the file each saver has open for writing
    saved          \* the latest image of this life whose save was reported STORE_SAVED

vars == <<engine, up, stopping, file, pc, image, handle, saved>>

Names == {"store", "tmp", "bak"}
Steps == {"idle", "encode", "open", "write", "exists", "remove_backup", "rotate",
          "install", "STORE_SAVED", "rejected"}

Images == [life : 1 .. MaxLives, epoch : 1 .. MaxEpoch, revision : 0 .. MaxRevision,
           fences : SUBSET Workers]

\* Not an image: no such file, or bytes that decode_store() refuses (empty, cut
\* short or mixed; framing, length and checksum are the same to every property).
NoImage(life) == [life |-> life, epoch |-> 0, revision |-> 0, fences |-> {}]
Missing  == NoImage(0)
Unusable == NoImage(-1)

Decodes(x) == x.life > 0

\* A new engine: epoch 1 and nothing in it.
Fresh(life) == [life |-> life, epoch |-> 1, revision |-> 0, fences |-> {}]

\* What read_and_decode() gets when every read succeeds: the primary, or else the
\* backup, or else neither.
Read == IF Decodes(file["store"]) THEN file["store"] ELSE file["bak"]

\* Does image a hold every change of image b?
Includes(a, b) == a.life = b.life /\ a.revision >= b.revision

Init ==
    /\ engine = Fresh(1)
    /\ up = TRUE
    /\ stopping = FALSE
    /\ file = [n \in Names |-> Missing]
    /\ pc = [s \in Savers |-> "idle"]
    /\ image = [s \in Savers |-> Missing]
    /\ handle = [s \in Savers |-> "none"]
    /\ saved = Missing
-----------------------------------------------------------------------------
(***************************************************************************)
(* Requests.                                                               *)
(***************************************************************************)

Serving == up /\ ~stopping

\* A request succeeds: a change, an epoch advance or, changing nothing, a query
\* or a registration.  handle_frame() then saves before it answers, outside
\* every lock.
Dispatch(s) ==
    /\ Serving
    /\ pc[s] = "idle"
    /\ \/ /\ engine.revision < MaxRevision
          /\ \/ engine' = [engine EXCEPT !.revision = @ + 1]
             \/ /\ engine.epoch < MaxEpoch
                /\ engine' = [engine EXCEPT !.revision = @ + 1, !.epoch = @ + 1]
       \/ UNCHANGED engine
    /\ pc' = [pc EXCEPT ![s] = "encode"]
    /\ UNCHANGED <<up, stopping, file, image, handle, saved>>

\* end_session(): the worker of a lost session is fenced.  Nothing is saved.
EndSession(w) ==
    /\ Serving
    /\ w \notin engine.fences
    /\ engine.revision < MaxRevision
    /\ engine' = [engine EXCEPT !.revision = @ + 1, !.fences = @ \cup {w}]
    /\ UNCHANGED <<up, stopping, file, pc, image, handle, saved>>

\* The tool is told to stop: stop() joins every session, then the main thread
\* saves once more.
Stop(s) ==
    /\ Serving
    /\ \A o \in Savers : pc[o] = "idle"
    /\ stopping' = TRUE
    /\ pc' = [pc EXCEPT ![s] = "encode"]
    /\ UNCHANGED <<engine, up, file, image, handle, saved>>
-----------------------------------------------------------------------------
(***************************************************************************)
(* save_store(), one action per system call.  A call that fails ends the   *)
(* save at once: a rename when the file it renames is gone, any call on an *)
(* error of the file system.                                               *)
(***************************************************************************)

Goto(s, step) == pc' = [pc EXCEPT ![s] = step]

\* The error of a call.
Fails(s) == IOErrors /\ Goto(s, "rejected")

\* The engine is encoded under the shared lock, unless it is too large.
Encode(s) ==
    /\ pc[s] = "encode"
    /\ \/ Goto(s, "open") /\ image' = [image EXCEPT ![s] = engine]
       \/ Fails(s) /\ UNCHANGED image
    /\ UNCHANGED <<engine, up, stopping, file, handle, saved>>

\* Mutant: the store is written in place.
OpenInPlace(s) ==
    /\ pc[s] = "open"
    /\ file' = [file EXCEPT !["store"] = Unusable]
    /\ handle' = [handle EXCEPT ![s] = "store"]
    /\ Goto(s, "write")
    /\ UNCHANGED <<engine, up, stopping, image, saved>>

\* The temporary file is opened and truncated.  One that another saver or a
\* crashed coordinator left is the same file.
OpenTemporary(s) ==
    /\ pc[s] = "open"
    /\ \/ /\ file' = [file EXCEPT !["tmp"] = Unusable]
          /\ handle' = [handle EXCEPT ![s] = "tmp"]
          /\ Goto(s, "write")
       \/ Fails(s) /\ UNCHANGED <<file, handle>>
    /\ UNCHANGED <<engine, up, stopping, image, saved>>

\* What a file holds after s wrote to it: the bytes of two saves may mix.
Written(s) ==
    {image[s]} \cup
    (IF Decodes(file[handle[s]]) \/ \E o \in Savers \ {s} : handle[o] = handle[s]
     THEN {Unusable} ELSE {})

\* The bytes are written to wherever the open file is by now, flushed and the
\* file closed.  After a failed write the temporary name is removed.
WriteTemporary(s) ==
    /\ pc[s] = "write"
    /\ \/ /\ Goto(s, "exists")
          /\ IF handle[s] \in Names
             THEN \E bytes \in Written(s) : file' = [file EXCEPT ![handle[s]] = bytes]
             ELSE UNCHANGED file
          /\ handle' = [handle EXCEPT ![s] = "none"]
       \/ /\ Fails(s)
          /\ file' = [n \in Names |-> CASE n = "tmp" -> Missing
                                        [] n = handle[s] /\ n # "tmp" -> Unusable
                                        [] OTHER -> file[n]]
          /\ handle' = [o \in Savers |-> CASE o = s -> "none"
                                           [] o # s /\ handle[o] = "tmp" -> "unlinked"
                                           [] OTHER -> handle[o]]
    /\ UNCHANGED <<engine, up, stopping, image, saved>>

\* exists(target): a first store, or one whose primary is missing, rotates
\* nothing.  Its error is a no as well.
LookForStore(s) ==
    /\ pc[s] = "exists"
    /\ \/ file["store"] # Missing /\ Goto(s, "remove_backup")
       \/ (file["store"] = Missing \/ IOErrors) /\ Goto(s, "install")
    /\ UNCHANGED <<engine, up, stopping, file, image, handle, saved>>

\* A file leaves its name, and another may take it; open files go with it.
Rename(from, to) ==
    /\ file[from] # Missing
    /\ file' = [file EXCEPT ![to] = file[from], ![from] = Missing]
    /\ handle' = [o \in Savers |-> CASE handle[o] = to -> "unlinked"
                                     [] handle[o] = from -> to
                                     [] OTHER -> handle[o]]

\* remove(backup); its error is overwritten by that of the rename.
RemoveBackup(s) ==
    /\ pc[s] = "remove_backup"
    /\ Goto(s, "rotate")
    /\ \/ /\ file' = [file EXCEPT !["bak"] = Missing]
          /\ handle' = [o \in Savers |-> IF handle[o] = "bak" THEN "unlinked" ELSE handle[o]]
       \/ IOErrors /\ UNCHANGED <<file, handle>>
    /\ UNCHANGED <<engine, up, stopping, image, saved>>

\* Mutant: the previous store is dropped instead of kept.
RotateStoreAway(s) ==
    /\ pc[s] = "rotate"
    /\ Goto(s, "install")
    /\ file' = [file EXCEPT !["store"] = Missing]
    /\ UNCHANGED <<engine, up, stopping, image, handle, saved>>

\* rename(target, backup).
RotateStore(s) ==
    /\ pc[s] = "rotate"
    /\ \/ Rename("store", "bak") /\ Goto(s, "install")
       \/ file["store"] = Missing /\ Goto(s, "rejected") /\ UNCHANGED <<file, handle>>
       \/ Fails(s) /\ UNCHANGED <<file, handle>>
    /\ UNCHANGED <<engine, up, stopping, image, saved>>

\* rename(temporary, target).
InstallStore(s) ==
    /\ pc[s] = "install"
    /\ \/ Rename("tmp", "store") /\ Goto(s, "STORE_SAVED")
       \/ file["tmp"] = Missing /\ Goto(s, "rejected") /\ UNCHANGED <<file, handle>>
       \/ Fails(s) /\ UNCHANGED <<file, handle>>
    /\ UNCHANGED <<engine, up, stopping, image, saved>>

\* The outcome is reported and the request answered, whatever the outcome was;
\* the final save ends the process.
Report(s) ==
    /\ pc[s] \in {"STORE_SAVED", "rejected"}
    /\ saved' = IF pc[s] = "STORE_SAVED" /\ ~Includes(saved, image[s])
                THEN image[s] ELSE saved
    /\ Goto(s, "idle")
    /\ image' = [image EXCEPT ![s] = Missing]
    /\ up' = ~stopping
    /\ stopping' = FALSE
    /\ UNCHANGED <<engine, file, handle>>

Save(s) ==
    \/ Encode(s) \/ OpenTemporary(s) \/ WriteTemporary(s) \/ LookForStore(s)
    \/ RemoveBackup(s) \/ RotateStore(s) \/ InstallStore(s) \/ Report(s)
-----------------------------------------------------------------------------
(***************************************************************************)
(* The life of the coordinator process.                                    *)
(***************************************************************************)

\* The process is killed, wherever its savers are.  The directory stays.
Crash ==
    /\ up
    /\ up' = FALSE
    /\ stopping' = FALSE
    /\ pc' = [s \in Savers |-> "idle"]
    /\ image' = [s \in Savers |-> Missing]
    /\ handle' = [s \in Savers |-> "none"]
    /\ UNCHANGED <<engine, file, saved>>

\* Mutant: the stored epoch goes on.
LoadedInItsEpoch(stored) == stored

\* load_store(): the description and the fences of the image under a new epoch.
Loaded(stored) == [stored EXCEPT !.epoch = @ + 1]

\* main() loads when there is a primary.  It gives up when neither file is read
\* and decodes, or the epoch read is exhausted: it stays down.
StartFromPrimary ==
    /\ ~up
    /\ Decodes(file["store"])
    /\ file["store"].epoch < MaxEpoch
    /\ engine' = Loaded(file["store"])
    /\ up' = TRUE
    /\ UNCHANGED <<stopping, file, pc, image, handle, saved>>

\* The primary does not decode, or cannot be opened, sized or read: the backup is
\* loaded.  Changes that only the primary has are not in this coordinator, so a
\* new life begins, in which nothing was reported saved.
StartFromBackup ==
    /\ ~up
    /\ file["store"] # Missing
    /\ IOErrors \/ ~Decodes(file["store"])
    /\ Decodes(file["bak"])
    /\ file["bak"].epoch < MaxEpoch
    /\ engine.life < MaxLives
    /\ engine' = [Loaded(file["bak"]) EXCEPT !.life = engine.life + 1]
    /\ up' = TRUE
    /\ saved' = Missing
    /\ UNCHANGED <<stopping, file, pc, image, handle>>

\* Without a primary it starts empty, also when there is a backup.
StartFresh ==
    /\ ~up
    /\ file["store"] = Missing
    /\ engine.life < MaxLives
    /\ engine' = Fresh(engine.life + 1)
    /\ up' = TRUE
    /\ saved' = Missing
    /\ UNCHANGED <<stopping, file, pc, image, handle>>

Next ==
    \/ \E s \in Savers : Dispatch(s) \/ Stop(s) \/ Save(s)
    \/ \E w \in Workers : EndSession(w)
    \/ Crash \/ StartFromPrimary \/ StartFromBackup \/ StartFresh

Spec == Init /\ [][Next]_vars
-----------------------------------------------------------------------------
\* "Writes are atomic": at every point of a save, whatever failed before and
\* wherever the process is killed, a load_store() that can read the primary gets
\* at least what the last save reported in this life held.
SavedIsRecoverable == Decodes(saved) => Includes(Read, saved)

\* The backup is an earlier generation than the primary, never a newer one, and
\* neither name ever refers to a file that does not decode.
BackupIsPrevious ==
    /\ Unusable \notin {file["store"], file["bak"]}
    /\ file["store"].life = file["bak"].life => Includes(file["store"], file["bak"])

\* The coordinator starts in an epoch later than that of image x, with its fences.
StartsAfter(x) == engine'.epoch > x.epoch /\ x.fences \subseteq engine'.fences

\* Conservative recovery, "an old epoch or old worker boot cannot mutate the
\* recovered state": a coordinator that loads the primary starts after everything
\* that was reported saved in this life.  One that could not read it starts after
\* the backup only, which may be in the epoch of the primary and without a fence
\* the primary has.
RecoveryMovesOn ==
    [][/\ StartFromPrimary => StartsAfter(saved)
       /\ StartFromBackup => StartsAfter(file["bak"])]_vars
-----------------------------------------------------------------------------
(***************************************************************************)
(* What the README says of the store and the program does not keep.        *)
(***************************************************************************)

\* "Writes are atomic": when a save was reported and none is under way in a
\* running coordinator, the directory holds a store that loads.  Session threads
\* share one temporary name and no lock.
StoreStaysLoadable ==
    up /\ Decodes(saved) /\ (\A s \in Savers : pc[s] = "idle") => Decodes(Read)
=============================================================================
