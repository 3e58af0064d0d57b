------------------------- MODULE DurableStoreProofs -------------------------
(***************************************************************************)
(* Proofs about DurableStore with one saver, for any number of changes,    *)
(* epochs, fences and lives: whatever fails and wherever the process is    *)
(* killed, what was reported saved is in the file that is read first.      *)
(* With two savers it is not: StoreStaysLoadable is refuted for them.      *)
(***************************************************************************)
EXTENDS DurableStore, TLAPS

OneSaver == \E s : Savers = {s}

\* Image a holds everything that image b holds.
AtLeast(a, b) ==
    /\ Includes(a, b)
    /\ a.epoch >= b.epoch
    /\ b.fences \subseteq a.fences

Contents == Images \cup {Missing, Unusable}

Types ==
    /\ engine \in Images
    /\ up \in BOOLEAN /\ stopping \in BOOLEAN
    /\ file \in [Names -> Contents]
    /\ pc \in [Savers -> Steps]
    /\ image \in [Savers -> Images \cup {Missing}]
    /\ handle \in [Savers -> Names \cup {"none", "unlinked"}]
    /\ saved \in Images \cup {Missing}

\* Image b is of an earlier life than image a, or a holds all of it.
Precedes(b, a) ==
    /\ b.life <= a.life
    /\ b.life = a.life => AtLeast(a, b)

\* Neither name of files f holds an image that image e does not go on from.
FilesBelow(f, e) ==
    \A n \in {"store", "bak"} : Decodes(f[n]) => Precedes(f[n], e)

FilesInv ==
    /\ Unusable \notin {file["store"], file["bak"]}
    /\ FilesBelow(file, engine)
    /\ Decodes(file["store"]) => Precedes(file["bak"], file["store"])
    /\ Decodes(saved) => saved.life = engine.life /\ AtLeast(Read, saved)

\* Where a saver is, and what it has written by then.
Copied == {"exists", "remove_backup", "rotate", "install"}
Encoded  == {"open", "write"} \cup Copied

SaverInv ==
    \A s \in Savers :
        /\ ~up => pc[s] = "idle"
        /\ handle[s] = IF pc[s] = "write" THEN "tmp" ELSE "none"
        /\ pc[s] \in Encoded => image[s] \in Images /\ AtLeast(engine, image[s]) /\ FilesBelow(file, image[s])
        /\ pc[s] = "write" => file["tmp"] = Unusable
        /\ pc[s] \in Copied => file["tmp"] = image[s]
        /\ pc[s] \in {"remove_backup", "rotate"} => file["store"] # Missing
        /\ pc[s] = "STORE_SAVED" =>
             image[s] \in Images /\ AtLeast(engine, image[s]) /\ file["store"] = image[s]

Inv == Types /\ FilesInv /\ SaverInv
-----------------------------------------------------------------------------
\* Images, and what is none.
LEMMA ImageFacts ==
    /\ \A x \in Contents : Decodes(x) <=> x \in Images
    /\ \A x \in Images : x.life \in Nat \ {0} /\ x.epoch \in Nat /\ x.revision \in Nat
    /\ Missing \notin Images /\ Unusable \notin Images /\ Missing # Unusable
    /\ Missing.life = 0 /\ Unusable.life = -1
BY StoreAssumption DEF Contents, Images, Decodes, Missing, Unusable, NoImage

LEMMA AtLeastOrder ==
    /\ \A a \in Images : AtLeast(a, a)
    /\ \A a, b, c \in Images : AtLeast(a, b) /\ AtLeast(b, c) => AtLeast(a, c)
    /\ AtLeast(Missing, Missing)
<1> USE StoreAssumption DEF AtLeast, Includes
<1>1. \A a \in Images : AtLeast(a, a)
  BY DEF Images
<1>2. \A a, b, c \in Images : AtLeast(a, b) /\ AtLeast(b, c) => AtLeast(a, c)
  BY DEF Images
<1>3. AtLeast(Missing, Missing)
  BY DEF Missing, NoImage
<1> QED BY <1>1, <1>2, <1>3

\* What precedes an image precedes all that holds it.
LEMMA PrecedesOrder ==
    ASSUME NEW a \in Images, NEW b \in Images, NEW x \in Contents, AtLeast(a, b), Precedes(x, b)
    PROVE  Precedes(x, a)
<1>1. a.life = b.life
  BY DEF AtLeast, Includes
<1>2. CASE x \in Images
  BY <1>1, <1>2, AtLeastOrder DEF Precedes
<1>3. CASE x.life <= 0 /\ x \notin Images
  BY <1>1, <1>3, ImageFacts DEF Precedes
<1> QED BY <1>2, <1>3, ImageFacts DEF Contents

LEMMA StoreInit == Init => Inv
<1> SUFFICES ASSUME Init PROVE Inv
  OBVIOUS
<1>1. Fresh(1) \in Images
  BY StoreAssumption DEF Fresh, Images
<1>2. Types
  BY <1>1 DEF Init, Types, Contents, Steps
<1>3. ~ Decodes(Missing)
  BY ImageFacts DEF Decodes
<1>4. FilesInv
  BY <1>3, ImageFacts, AtLeastOrder DEF Init, FilesInv, FilesBelow, Names
<1>5. SaverInv
  BY DEF Init, SaverInv, Encoded, Copied
<1> QED BY <1>2, <1>4, <1>5 DEF Inv
-----------------------------------------------------------------------------
\* An engine that changes is still an image, and holds all it held.
LEMMA GrownImage ==
    ASSUME NEW e \in Images, e.revision < MaxRevision
    PROVE  /\ LET n == [e EXCEPT !.revision = @ + 1]
              IN  n \in Images /\ AtLeast(n, e)
           /\ e.epoch < MaxEpoch => LET n == [e EXCEPT !.revision = @ + 1, !.epoch = @ + 1]
                                    IN  n \in Images /\ AtLeast(n, e)
           /\ \A w \in Workers : LET n == [e EXCEPT !.revision = @ + 1, !.fences = @ \cup {w}]
                                 IN  n \in Images /\ AtLeast(n, e)
<1>0. e = [life |-> e.life, epoch |-> e.epoch, revision |-> e.revision, fences |-> e.fences]
  BY DEF Images
<1>1. /\ e.life \in 1 .. MaxLives /\ e.epoch \in 1 .. MaxEpoch
      /\ e.revision \in 0 .. MaxRevision /\ e.fences \in SUBSET Workers
      /\ MaxRevision \in Nat /\ MaxEpoch \in Nat
  BY StoreAssumption DEF Images
<1>2. e.revision + 1 \in 0 .. MaxRevision
  BY <1>1
<1>3. ASSUME NEW n \in Images, n.life = e.life, n.revision = e.revision + 1,
             n.epoch >= e.epoch, e.fences \subseteq n.fences
      PROVE  AtLeast(n, e)
  BY <1>1, <1>3 DEF AtLeast, Includes
<1>4. LET n == [e EXCEPT !.revision = @ + 1] IN n \in Images /\ AtLeast(n, e)
  BY <1>1, <1>2, <1>3 DEF Images
<1>5. ASSUME e.epoch < MaxEpoch
      PROVE  LET n == [e EXCEPT !.revision = @ + 1, !.epoch = @ + 1]
             IN  n \in Images /\ AtLeast(n, e)
  <2> DEFINE m == [e EXCEPT !.revision = @ + 1]
             n == [m EXCEPT !.epoch = e.epoch + 1]
  <2>1. e.epoch + 1 \in 1 .. MaxEpoch
    BY <1>1, <1>5
  <2>2. n \in Images
    BY <1>1, <1>2, <2>1 DEF Images
  <2>3. n.life = e.life /\ n.revision = e.revision + 1 /\ n.epoch >= e.epoch
        /\ e.fences \subseteq n.fences
    BY <1>1, <2>1 DEF Images
  <2>4. n = [e EXCEPT !.revision = @ + 1, !.epoch = @ + 1]
    BY Zenon
  <2> HIDE DEF n
  <2>5. AtLeast(n, e)
    BY <1>3, <2>2, <2>3
  <2> QED BY <2>2, <2>4, <2>5
<1>6. ASSUME NEW w \in Workers
      PROVE  LET n == [e EXCEPT !.revision = @ + 1, !.fences = @ \cup {w}]
             IN  n \in Images /\ AtLeast(n, e)
  <2> DEFINE m == [e EXCEPT !.revision = @ + 1]
             n == [m EXCEPT !.fences = e.fences \cup {w}]
  <2>1. e.fences \cup {w} \in SUBSET Workers
    BY <1>1
  <2>2. n \in Images
    BY <1>1, <1>2, <2>1 DEF Images
  <2>3. n.life = e.life /\ n.revision = e.revision + 1 /\ n.epoch >= e.epoch
        /\ e.fences \subseteq n.fences
    BY <1>1, <2>1 DEF Images
  <2>4. n = [e EXCEPT !.revision = @ + 1, !.fences = @ \cup {w}]
    BY Zenon
  <2> HIDE DEF n
  <2>5. AtLeast(n, e)
    BY <1>3, <2>2, <2>3
  <2> QED BY <2>2, <2>4, <2>5
<1> QED BY <1>4, <1>5, <1>6

\* A request or a fence: the engine moves on and the files stay.
LEMMA EngineGrows ==
    ASSUME Inv, engine' \in Images, AtLeast(engine', engine), UNCHANGED <<file, saved>>
    PROVE  /\ FilesInv'
           /\ \A s \in Savers : pc[s] \in Encoded \cup {"STORE_SAVED"} => AtLeast(engine', image[s])
<1> USE DEF Inv, Types, Names
<1>1. engine'.life = engine.life
  BY DEF AtLeast, Includes
<1>2. FilesBelow(file, engine')
  BY PrecedesOrder DEF FilesInv, FilesBelow
<1>3. FilesInv'
  BY <1>1, <1>2 DEF FilesInv, Read
<1>4. \A s \in Savers : pc[s] \in Encoded \cup {"STORE_SAVED"} => AtLeast(engine', image[s])
  BY AtLeastOrder DEF SaverInv
<1> QED BY <1>3, <1>4

LEMMA DispatchStep ==
    ASSUME Inv, NEW s \in Savers, Savers = {s}, Dispatch(s)
    PROVE  Inv'
<1> USE DEF Inv
<1>1. engine' \in Images /\ AtLeast(engine', engine)
  <2>1. /\ engine \in Images
        /\ \/ engine' = engine
           \/ engine.revision < MaxRevision /\ engine' = [engine EXCEPT !.revision = @ + 1]
           \/ /\ engine.revision < MaxRevision /\ engine.epoch < MaxEpoch
              /\ engine' = [engine EXCEPT !.revision = @ + 1, !.epoch = @ + 1]
    BY DEF Dispatch, Types
  <2>2. CASE engine' = engine
    BY <2>1, <2>2, AtLeastOrder
  <2>3. CASE engine' = [engine EXCEPT !.revision = @ + 1] /\ engine.revision < MaxRevision
    BY <2>1, <2>3, GrownImage
  <2>4. CASE /\ engine.revision < MaxRevision /\ engine.epoch < MaxEpoch
             /\ engine' = [engine EXCEPT !.revision = @ + 1, !.epoch = @ + 1]
    BY <2>1, <2>4, GrownImage
  <2> QED BY <2>1, <2>2, <2>3, <2>4
<1>2. /\ pc' = [pc EXCEPT ![s] = "encode"] /\ pc[s] = "idle"
      /\ up /\ UNCHANGED <<up, stopping, file, image, handle, saved>>
  BY DEF Dispatch, Serving
<1>3. Types'
  BY <1>1, <1>2 DEF Types, Steps
<1>4. FilesInv'
  BY <1>1, <1>2, EngineGrows
<1>5. SaverInv'
  BY <1>2 DEF SaverInv, Types, Encoded, Copied
<1> QED BY <1>3, <1>4, <1>5

LEMMA EndSessionStep ==
    ASSUME Inv, NEW w \in Workers, EndSession(w)
    PROVE  Inv'
<1> USE DEF Inv
<1>1. engine' \in Images /\ AtLeast(engine', engine)
  <2>1. /\ engine \in Images /\ engine.revision < MaxRevision
        /\ engine' = [engine EXCEPT !.revision = @ + 1, !.fences = @ \cup {w}]
    BY DEF EndSession, Types
  <2> QED BY <2>1, GrownImage
<1>2. UNCHANGED <<up, stopping, file, pc, image, handle, saved>>
  BY DEF EndSession
<1>3. FilesInv' /\ \A s \in Savers : pc[s] \in Encoded \cup {"STORE_SAVED"} => AtLeast(engine', image[s])
  BY <1>1, <1>2, EngineGrows
<1>4. Types' /\ SaverInv'
  BY <1>1, <1>2, <1>3 DEF Types, SaverInv
<1> QED BY <1>3, <1>4

LEMMA StopStep ==
    ASSUME Inv, NEW s \in Savers, Savers = {s}, Stop(s)
    PROVE  Inv'
<1>1. /\ pc' = [pc EXCEPT ![s] = "encode"] /\ pc[s] = "idle" /\ stopping' = TRUE
      /\ up /\ UNCHANGED <<engine, up, file, image, handle, saved>>
  BY DEF Stop, Serving
<1>2. Types'
  BY <1>1 DEF Inv, Types, Steps
<1>3. FilesInv'
  BY <1>1 DEF Inv, FilesInv, Read
<1>4. SaverInv'
  BY <1>1 DEF Inv, SaverInv, Types, Encoded, Copied
<1> QED BY <1>2, <1>3, <1>4 DEF Inv
-----------------------------------------------------------------------------
\* save_store().  A failed call leaves the store and the backup as they are.

\* Store, backup, engine and what was saved stay.
LEMMA FilesStay ==
    ASSUME Inv, UNCHANGED <<engine, saved>>, file' \in [Names -> Contents],
           file'["store"] = file["store"], file'["bak"] = file["bak"]
    PROVE  /\ FilesInv'
           /\ \A e : FilesBelow(file, e) => FilesBelow(file', e)
BY DEF Inv, FilesInv, FilesBelow, Read

LEMMA EncodeStep ==
    ASSUME Inv, NEW s \in Savers, Savers = {s}, Encode(s)
    PROVE  Inv'
<1>1. /\ pc[s] = "encode" /\ UNCHANGED <<engine, up, stopping, file, handle, saved>>
      /\ \/ pc' = [pc EXCEPT ![s] = "open"] /\ image' = [image EXCEPT ![s] = engine]
         \/ pc' = [pc EXCEPT ![s] = "rejected"] /\ UNCHANGED image
  BY DEF Encode, Goto, Fails
<1>2. Types'
  BY <1>1 DEF Inv, Types, Steps
<1>3. FilesInv'
  BY <1>1, FilesStay DEF Inv, Types
<1>4. AtLeast(engine, engine) /\ FilesBelow(file, engine) /\ engine \in Images
  BY AtLeastOrder DEF Inv, Types, FilesInv
<1>5. SaverInv'
  BY <1>1, <1>4 DEF Inv, SaverInv, Types, Encoded, Copied
<1> QED BY <1>2, <1>3, <1>5 DEF Inv

LEMMA OpenStep ==
    ASSUME Inv, NEW s \in Savers, Savers = {s}, OpenTemporary(s)
    PROVE  Inv'
<1>1. /\ pc[s] = "open" /\ UNCHANGED <<engine, up, stopping, image, saved>>
      /\ \/ /\ pc' = [pc EXCEPT ![s] = "write"]
            /\ file' = [file EXCEPT !["tmp"] = Unusable]
            /\ handle' = [handle EXCEPT ![s] = "tmp"]
         \/ pc' = [pc EXCEPT ![s] = "rejected"] /\ UNCHANGED <<file, handle>>
  BY DEF OpenTemporary, Goto, Fails
<1>2. Types'
  BY <1>1 DEF Inv, Types, Steps, Names, Contents
<1>3. /\ file' \in [Names -> Contents]
      /\ file'["store"] = file["store"] /\ file'["bak"] = file["bak"]
      /\ pc'[s] = "write" => file'["tmp"] = Unusable
  BY <1>1, <1>2 DEF Inv, Types, Names
<1>4. FilesInv' /\ \A e : FilesBelow(file, e) => FilesBelow(file', e)
  BY <1>1, <1>3, FilesStay
<1>5. SaverInv'
  BY <1>1, <1>3, <1>4 DEF Inv, SaverInv, Types, Encoded, Copied
<1> QED BY <1>2, <1>4, <1>5 DEF Inv

LEMMA WriteStep ==
    ASSUME Inv, NEW s \in Savers, Savers = {s}, WriteTemporary(s)
    PROVE  Inv'
<1>0. /\ pc[s] = "write" /\ handle[s] = "tmp" /\ file["tmp"] = Unusable
      /\ image[s] \in Images /\ AtLeast(engine, image[s]) /\ FilesBelow(file, image[s])
      /\ UNCHANGED <<engine, up, stopping, image, saved>>
  BY DEF WriteTemporary, Inv, SaverInv, Encoded, Copied
<1>1. CASE pc' = [pc EXCEPT ![s] = "exists"]
  <2>1. \E bytes \in Written(s) : file' = [file EXCEPT !["tmp"] = bytes]
    BY <1>0, <1>1 DEF WriteTemporary, Goto, Fails, Names, Inv, Types
  <2>2. Written(s) = {image[s]}
    BY <1>0, ImageFacts DEF Written, Contents
  <2>3. handle' = [handle EXCEPT ![s] = "none"]
    BY <1>0, <1>1 DEF WriteTemporary, Goto, Fails, Inv, Types
  <2>4. file' = [file EXCEPT !["tmp"] = image[s]]
    BY <2>1, <2>2
  <2>5. Types'
    BY <1>0, <1>1, <2>3, <2>4 DEF Inv, Types, Steps, Names, Contents
  <2>6. /\ file'["store"] = file["store"] /\ file'["bak"] = file["bak"]
        /\ file'["tmp"] = image[s]
    BY <2>4 DEF Inv, Types, Names
  <2>7. FilesInv' /\ FilesBelow(file', image[s])
    BY <1>0, <2>5, <2>6, FilesStay DEF Types
  <2>8. SaverInv'
    BY <1>0, <1>1, <2>3, <2>6, <2>7 DEF Inv, SaverInv, Types, Encoded, Copied
  <2> QED BY <2>5, <2>7, <2>8 DEF Inv
<1>2. CASE pc' = [pc EXCEPT ![s] = "rejected"]
  <2>1. /\ file' = [n \in Names |-> CASE n = "tmp" -> Missing
                                      [] n = handle[s] /\ n # "tmp" -> Unusable
                                      [] OTHER -> file[n]]
        /\ handle' = [o \in Savers |-> CASE o = s -> "none"
                                         [] o # s /\ handle[o] = "tmp" -> "unlinked"
                                         [] OTHER -> handle[o]]
    BY <1>0, <1>2 DEF WriteTemporary, Goto, Fails, Inv, Types
  <2>2. /\ file'["store"] = file["store"] /\ file'["bak"] = file["bak"]
        /\ file'["tmp"] = Missing
    <3>1. \A n \in Names : (CASE n = "tmp" -> Missing
                               [] n = handle[s] /\ n # "tmp" -> Unusable
                               [] OTHER -> file[n]) = IF n = "tmp" THEN Missing ELSE file[n]
      BY <1>0
    <3> QED BY <2>1, <3>1 DEF Names
  <2>3. /\ handle'[s] = "none"
        /\ handle' \in [Savers -> Names \cup {"none", "unlinked"}]
    <3>1. \A o \in Savers : (CASE o = s -> "none"
                                [] o # s /\ handle[o] = "tmp" -> "unlinked"
                                [] OTHER -> handle[o]) = "none"
      OBVIOUS
    <3> QED BY <2>1, <3>1
  <2>4. file' \in [Names -> Contents]
    BY <2>1, <2>2 DEF Names, Inv, Types, Contents
  <2>5. Types'
    BY <1>0, <1>2, <2>3, <2>4 DEF Inv, Types, Steps
  <2>6. FilesInv'
    BY <1>0, <2>2, <2>4, FilesStay
  <2>7. SaverInv'
    BY <1>0, <1>2, <2>3 DEF Inv, SaverInv, Types, Encoded, Copied
  <2> QED BY <2>5, <2>6, <2>7 DEF Inv
<1> QED BY <1>1, <1>2 DEF WriteTemporary, Goto, Fails

LEMMA LookStep ==
    ASSUME Inv, NEW s \in Savers, Savers = {s}, LookForStore(s)
    PROVE  Inv'
<1>1. /\ pc[s] = "exists" /\ UNCHANGED <<engine, up, stopping, file, image, handle, saved>>
      /\ \/ file["store"] # Missing /\ pc' = [pc EXCEPT ![s] = "remove_backup"]
         \/ pc' = [pc EXCEPT ![s] = "install"]
  BY DEF LookForStore, Goto
<1>2. Types'
  BY <1>1 DEF Inv, Types, Steps
<1>3. FilesInv'
  BY <1>1, FilesStay DEF Inv, Types
<1>4. SaverInv'
  BY <1>1 DEF Inv, SaverInv, Types, Encoded, Copied
<1> QED BY <1>2, <1>3, <1>4 DEF Inv

\* The backup goes while the store is still there.
LEMMA RemoveBackupStep ==
    ASSUME Inv, NEW s \in Savers, Savers = {s}, RemoveBackup(s)
    PROVE  Inv'
<1>1. /\ pc[s] = "remove_backup" /\ pc' = [pc EXCEPT ![s] = "rotate"]
      /\ UNCHANGED <<engine, up, stopping, image, saved>>
      /\ \/ /\ file' = [file EXCEPT !["bak"] = Missing]
            /\ handle' = [o \in Savers |-> IF handle[o] = "bak" THEN "unlinked" ELSE handle[o]]
         \/ UNCHANGED <<file, handle>>
  BY DEF RemoveBackup, Goto
<1>2. handle[s] = "none" /\ file["store"] # Missing /\ file["store"] \in Images
  BY <1>1, ImageFacts DEF Inv, SaverInv, FilesInv, Types, Names, Contents
<1>3. handle' = handle
  BY <1>1, <1>2 DEF Inv, Types
<1>4. /\ file'["store"] = file["store"] /\ file'["tmp"] = file["tmp"]
      /\ file'["bak"] \in {file["bak"], Missing}
  BY <1>1 DEF Inv, Types, Names
<1>5. Types'
  BY <1>1, <1>3 DEF Inv, Types, Steps, Names, Contents
<1>6. FilesInv' /\ \A e : FilesBelow(file, e) => FilesBelow(file', e)
  <2>1. file["store"] \in Images => Precedes(Missing, file["store"])
    BY ImageFacts DEF Precedes
  <2>2. FilesInv'
    BY <1>1, <1>2, <1>4, <2>1, ImageFacts DEF Inv, FilesInv, FilesBelow, Read, Decodes
  <2>3. \A e : FilesBelow(file, e) => FilesBelow(file', e)
    BY <1>4, ImageFacts DEF FilesBelow, Decodes
  <2> QED BY <2>2, <2>3
<1>7. SaverInv'
  BY <1>1, <1>2, <1>3, <1>4, <1>6 DEF Inv, SaverInv, Types, Encoded, Copied
<1> QED BY <1>5, <1>6, <1>7 DEF Inv

\* The store becomes the backup: it is the one that is read then.
LEMMA RotateStep ==
    ASSUME Inv, NEW s \in Savers, Savers = {s}, RotateStore(s)
    PROVE  Inv'
<1>0. /\ pc[s] = "rotate" /\ UNCHANGED <<engine, up, stopping, image, saved>>
      /\ handle[s] = "none" /\ file["store"] # Missing /\ file["store"] \in Images
      /\ image[s] \in Images /\ AtLeast(engine, image[s]) /\ FilesBelow(file, image[s])
      /\ file["tmp"] = image[s]
  BY ImageFacts DEF RotateStore, Inv, SaverInv, FilesInv, Types, Names, Contents, Encoded, Copied
<1>1. CASE Rename("store", "bak") /\ pc' = [pc EXCEPT ![s] = "install"]
  <2>1. file' = [file EXCEPT !["bak"] = file["store"], !["store"] = Missing] /\ handle' = handle
    BY <1>0, <1>1 DEF Rename, Inv, Types
  <2>2. /\ file'["bak"] = file["store"] /\ file'["store"] = Missing
        /\ file'["tmp"] = file["tmp"]
    BY <2>1 DEF Inv, Types, Names
  <2>3. Types'
    BY <1>0, <1>1, <2>1 DEF Inv, Types, Steps, Names, Contents
  <2>4. ASSUME NEW e, FilesBelow(file, e) PROVE FilesBelow(file', e)
    BY <1>0, <2>2, <2>4, ImageFacts DEF FilesBelow, Decodes, AtLeast, Includes
  <2>5. FilesInv'
    BY <1>0, <2>2, <2>4, ImageFacts DEF Inv, FilesInv, Read, Decodes
  <2>6. SaverInv'
    BY <1>0, <1>1, <2>1, <2>2, <2>4 DEF Inv, SaverInv, Types, Encoded, Copied
  <2> QED BY <2>3, <2>5, <2>6 DEF Inv
<1>2. CASE pc' = [pc EXCEPT ![s] = "rejected"] /\ UNCHANGED <<file, handle>>
  <2>1. Types'
    BY <1>0, <1>2 DEF Inv, Types, Steps
  <2>2. FilesInv'
    BY <1>0, <1>2, FilesStay DEF Inv, Types
  <2>3. SaverInv'
    BY <1>0, <1>2 DEF Inv, SaverInv, Types, Encoded, Copied
  <2> QED BY <2>1, <2>2, <2>3 DEF Inv
<1> QED BY <1>1, <1>2 DEF RotateStore, Goto, Fails

\* The new store takes its place: it holds all that the backup and the reported
\* save hold.
LEMMA InstallStep ==
    ASSUME Inv, NEW s \in Savers, Savers = {s}, InstallStore(s)
    PROVE  Inv'
<1>0. /\ pc[s] = "install" /\ UNCHANGED <<engine, up, stopping, image, saved>>
      /\ handle[s] = "none"
      /\ image[s] \in Images /\ AtLeast(engine, image[s]) /\ FilesBelow(file, image[s])
      /\ file["tmp"] = image[s] /\ engine \in Images
  BY DEF InstallStore, Inv, SaverInv, Encoded, Copied, Types
<1>1. CASE Rename("tmp", "store") /\ pc' = [pc EXCEPT ![s] = "STORE_SAVED"]
  <2>1. file' = [file EXCEPT !["store"] = image[s], !["tmp"] = Missing] /\ handle' = handle
    BY <1>0, <1>1 DEF Rename, Inv, Types
  <2>2. file'["store"] = image[s] /\ file'["bak"] = file["bak"]
    BY <2>1 DEF Inv, Types, Names
  <2>3. Types'
    BY <1>0, <1>1, <2>1 DEF Inv, Types, Steps, Names, Contents
  <2>4. image[s].life = engine.life /\ image[s].life > 0 /\ file["bak"] \in Contents
    BY <1>0, ImageFacts DEF AtLeast, Includes, Inv, Types, Names
  <2>5. FilesBelow(file', engine)
    <3>1. Precedes(image[s], engine)
      BY <1>0, <2>4, ImageFacts DEF Precedes
    <3> QED BY <2>2, <3>1 DEF Inv, FilesInv, FilesBelow
  <2>6. Precedes(file["bak"], image[s])
    <3>1. CASE Decodes(file["bak"])
      BY <1>0, <3>1 DEF FilesBelow
    <3>2. CASE ~ Decodes(file["bak"])
      BY <1>0, <2>4, <3>2, ImageFacts DEF Precedes, Decodes, Contents
    <3> QED BY <3>1, <3>2
  <2>7. Decodes(saved) => saved.life = engine.life /\ AtLeast(image[s], saved)
    <3> SUFFICES ASSUME Decodes(saved)
                 PROVE  saved.life = engine.life /\ AtLeast(image[s], saved)
      OBVIOUS
    <3>1. /\ saved.life = engine.life /\ AtLeast(Read, saved) /\ saved \in Images
          /\ Read \in Contents /\ Read \in {file["store"], file["bak"]}
      BY ImageFacts DEF Inv, FilesInv, Read, Types, Names, Contents
    <3>2. Read.life = image[s].life /\ Read \in Images
      BY <2>4, <3>1, ImageFacts DEF AtLeast, Includes, Decodes
    <3>3. AtLeast(image[s], Read)
      BY <1>0, <3>1, <3>2, ImageFacts DEF FilesBelow, Precedes
    <3> QED BY <1>0, <3>1, <3>2, <3>3, AtLeastOrder
  <2>8. FilesInv'
    <3>1. Decodes(image[s]) /\ image[s] # Unusable
      BY <1>0, ImageFacts DEF Contents
    <3> QED BY <1>0, <2>2, <2>5, <2>6, <2>7, <3>1 DEF Inv, FilesInv, Read
  <2>9. SaverInv'
    BY <1>0, <1>1, <2>1, <2>2 DEF Inv, SaverInv, Types, Encoded, Copied
  <2> QED BY <2>3, <2>8, <2>9 DEF Inv
<1>2. CASE pc' = [pc EXCEPT ![s] = "rejected"] /\ UNCHANGED <<file, handle>>
  <2>1. Types'
    BY <1>0, <1>2 DEF Inv, Types, Steps
  <2>2. FilesInv'
    BY <1>0, <1>2, FilesStay DEF Inv, Types
  <2>3. SaverInv'
    BY <1>0, <1>2 DEF Inv, SaverInv, Types, Encoded, Copied
  <2> QED BY <2>1, <2>2, <2>3 DEF Inv
<1> QED BY <1>1, <1>2 DEF InstallStore, Goto, Fails

LEMMA ReportStep ==
    ASSUME Inv, NEW s \in Savers, Savers = {s}, Report(s)
    PROVE  Inv'
<1>1. /\ pc[s] \in {"STORE_SAVED", "rejected"}
      /\ saved' = IF pc[s] = "STORE_SAVED" /\ ~Includes(saved, image[s]) THEN image[s] ELSE saved
      /\ pc' = [pc EXCEPT ![s] = "idle"]
      /\ image' = [image EXCEPT ![s] = Missing]
      /\ up' = ~stopping /\ stopping' = FALSE
      /\ UNCHANGED <<engine, file, handle>>
  BY DEF Report, Goto
<1>2. Types'
  BY <1>1 DEF Inv, Types, Steps, SaverInv
<1>3. FilesInv'
  <2>1. CASE saved' = saved
    BY <1>1, <2>1 DEF Inv, FilesInv, Read
  <2>2. CASE pc[s] = "STORE_SAVED" /\ saved' = image[s]
    <3>1. file["store"] = image[s] /\ image[s] \in Images /\ Read = image[s]
      BY <2>2, ImageFacts DEF Inv, SaverInv, Read, Decodes
    <3>2. AtLeast(Read, image[s])
      BY <3>1, AtLeastOrder
    <3>3. image[s].life = engine.life
      BY <2>2 DEF Inv, SaverInv, AtLeast, Includes
    <3> QED BY <1>1, <2>2, <3>1, <3>2, <3>3 DEF Inv, FilesInv, Read
  <2> QED BY <1>1, <2>1, <2>2
<1>4. SaverInv'
  BY <1>1 DEF Inv, SaverInv, Types, Encoded, Copied
<1> QED BY <1>2, <1>3, <1>4 DEF Inv
-----------------------------------------------------------------------------
\* The life of the process.

LEMMA CrashStep ==
    ASSUME Inv, Crash
    PROVE  Inv'
<1>1. /\ UNCHANGED <<engine, file, saved>> /\ up' = FALSE /\ stopping' = FALSE
      /\ pc' = [o \in Savers |-> "idle"]
      /\ image' = [o \in Savers |-> Missing]
      /\ handle' = [o \in Savers |-> "none"]
  BY DEF Crash
<1>2. Types'
  BY <1>1 DEF Inv, Types, Steps
<1>3. FilesInv'
  BY <1>1 DEF Inv, FilesInv, Read
<1>4. SaverInv'
  BY <1>1 DEF SaverInv, Encoded, Copied
<1> QED BY <1>2, <1>3, <1>4 DEF Inv

\* What load_store() makes of an image: the same changes in the next epoch.
LEMMA LoadedImage ==
    ASSUME NEW x \in Images, x.epoch < MaxEpoch
    PROVE  /\ Loaded(x) \in Images /\ AtLeast(Loaded(x), x)
           /\ Loaded(x).life = x.life /\ Loaded(x).epoch > x.epoch
           /\ Loaded(x).fences = x.fences
           /\ \A l \in 1 .. MaxLives :
                LET n == [Loaded(x) EXCEPT !.life = l]
                IN  n \in Images /\ n.life = l /\ n.epoch > x.epoch /\ n.fences = x.fences
<1>1. /\ x.life \in 1 .. MaxLives /\ x.epoch \in 1 .. MaxEpoch
      /\ x.revision \in 0 .. MaxRevision /\ x.fences \in SUBSET Workers
      /\ MaxEpoch \in Nat /\ MaxRevision \in Nat
  BY StoreAssumption DEF Images
<1>2. Loaded(x) = [life |-> x.life, epoch |-> x.epoch + 1, revision |-> x.revision,
                   fences |-> x.fences]
  <2>1. x = [life |-> x.life, epoch |-> x.epoch, revision |-> x.revision, fences |-> x.fences]
    BY DEF Images
  <2> QED BY <2>1 DEF Loaded
<1>3. x.epoch + 1 \in 1 .. MaxEpoch
  BY <1>1
<1>4. /\ Loaded(x) \in Images /\ Loaded(x).life = x.life /\ Loaded(x).epoch = x.epoch + 1
      /\ Loaded(x).revision = x.revision /\ Loaded(x).fences = x.fences
  BY <1>1, <1>2, <1>3 DEF Images
<1>5. AtLeast(Loaded(x), x) /\ Loaded(x).epoch > x.epoch
  BY <1>1, <1>4 DEF AtLeast, Includes
<1>6. ASSUME NEW l \in 1 .. MaxLives
      PROVE  LET n == [Loaded(x) EXCEPT !.life = l]
             IN  n \in Images /\ n.life = l /\ n.epoch > x.epoch /\ n.fences = x.fences
  <2>1. [Loaded(x) EXCEPT !.life = l] = [life |-> l, epoch |-> x.epoch + 1,
                                         revision |-> x.revision, fences |-> x.fences]
    BY <1>2
  <2> QED BY <1>1, <1>3, <2>1 DEF Images
<1> QED BY <1>4, <1>5, <1>6

\* The primary is the image of the last life: the coordinator goes on with it.
LEMMA StartFromPrimaryStep ==
    ASSUME Inv, StartFromPrimary
    PROVE  Inv'
<1>1. /\ ~up /\ up' = TRUE /\ UNCHANGED <<stopping, file, pc, image, handle, saved>>
      /\ file["store"] \in Images /\ file["bak"] \in Contents
      /\ engine' = Loaded(file["store"]) /\ file["store"].epoch < MaxEpoch
  BY ImageFacts DEF StartFromPrimary, Inv, Types, Names
<1>2. engine' \in Images /\ AtLeast(engine', file["store"]) /\ engine'.life = file["store"].life
  BY <1>1, LoadedImage
<1>3. Types'
  BY <1>1, <1>2 DEF Inv, Types
<1>4. FilesBelow(file, engine')
  <2>1. Precedes(file["store"], engine')
    BY <1>1, <1>2, ImageFacts DEF Precedes
  <2>2. Precedes(file["bak"], engine')
    BY <1>1, <1>2, PrecedesOrder, ImageFacts DEF Inv, FilesInv, Contents
  <2> QED BY <2>1, <2>2 DEF FilesBelow
<1>5. Decodes(saved) => saved.life = engine'.life
  <2>1. Read = file["store"]
    BY <1>1, ImageFacts DEF Read, Contents
  <2> QED BY <1>2, <2>1 DEF Inv, FilesInv, AtLeast, Includes
<1>6. FilesInv'
  BY <1>1, <1>4, <1>5 DEF Inv, FilesInv, Read
<1>7. SaverInv'
  BY <1>1 DEF Inv, SaverInv, Encoded, Copied
<1> QED BY <1>3, <1>6, <1>7 DEF Inv

\* A new life: both files are of earlier ones.
LEMMA StartFromBackupStep ==
    ASSUME Inv, StartFromBackup
    PROVE  Inv'
<1>1. /\ ~up /\ up' = TRUE /\ UNCHANGED <<stopping, file, pc, image, handle>>
      /\ saved' = Missing /\ file \in [Names -> Contents]
      /\ file["bak"] \in Images /\ file["bak"].epoch < MaxEpoch
      /\ engine' = [Loaded(file["bak"]) EXCEPT !.life = engine.life + 1]
      /\ engine.life + 1 \in 1 .. MaxLives /\ engine.life \in Nat
  BY ImageFacts, StoreAssumption DEF StartFromBackup, Inv, Types, Names, Images
<1>2. engine' \in Images /\ engine'.life = engine.life + 1
  BY <1>1, LoadedImage
<1>3. Types'
  BY <1>1, <1>2 DEF Inv, Types
<1>4. FilesBelow(file, engine')
  BY <1>1, <1>2, ImageFacts DEF Inv, FilesInv, FilesBelow, Precedes, Names
<1>5. FilesInv'
  BY <1>1, <1>4, ImageFacts DEF Inv, FilesInv, Decodes
<1>6. SaverInv'
  BY <1>1 DEF Inv, SaverInv, Encoded, Copied
<1> QED BY <1>3, <1>5, <1>6 DEF Inv

LEMMA StartFreshStep ==
    ASSUME Inv, StartFresh
    PROVE  Inv'
<1>1. /\ ~up /\ up' = TRUE /\ UNCHANGED <<stopping, file, pc, image, handle>>
      /\ file["store"] = Missing /\ saved' = Missing
      /\ engine.life < MaxLives /\ engine' = Fresh(engine.life + 1)
  BY DEF StartFresh
<1>2. engine' \in Images /\ engine'.life > engine.life /\ engine.life \in Nat
  BY <1>1, StoreAssumption DEF Inv, Types, Images, Fresh
<1>3. Types'
  BY <1>1, <1>2 DEF Inv, Types
<1>4. FilesInv'
  <2>1. file["bak"] \in Contents
    BY DEF Inv, Types, Names
  <2> QED BY <1>1, <1>2, <2>1, ImageFacts DEF Inv, FilesInv, FilesBelow, Precedes, Read, Decodes
<1>5. SaverInv'
  BY <1>1 DEF Inv, SaverInv, Encoded, Copied
<1> QED BY <1>3, <1>4, <1>5 DEF Inv

LEMMA StoreStep ==
    ASSUME OneSaver, Inv, [Next]_vars
    PROVE  Inv'
<1> PICK s : Savers = {s}
  BY DEF OneSaver
<1>1. CASE UNCHANGED vars
  BY <1>1 DEF vars, Inv, Types, FilesInv, SaverInv, Read
<1>2. CASE Dispatch(s) \/ Stop(s) \/ Save(s)
  BY <1>2, DispatchStep, StopStep, EncodeStep, OpenStep, WriteStep, LookStep, RemoveBackupStep,
     RotateStep, InstallStep, ReportStep DEF Save
<1> QED
  BY <1>1, <1>2, EndSessionStep, CrashStep, StartFromPrimaryStep, StartFromBackupStep,
     StartFreshStep DEF Next

\* The inductive invariant of the store with one saver.
THEOREM StoreInvariance == ASSUME OneSaver PROVE Spec => []Inv
BY OneSaver, StoreInit, StoreStep, PTL DEF Spec
-----------------------------------------------------------------------------
\* "Writes are atomic": at every point of a save, whatever failed before and
\* wherever the process was killed, a load that can read the primary gets what was
\* reported saved in this life.
THEOREM SavedStateIsRecoverable == ASSUME OneSaver PROVE Spec => []SavedIsRecoverable
<1>1. Inv => SavedIsRecoverable
  BY DEF Inv, FilesInv, SavedIsRecoverable, AtLeast
<1> QED BY OneSaver, <1>1, StoreInvariance, PTL

\* The backup is the earlier generation, and neither name is ever unreadable.
THEOREM BackupIsEarlier == ASSUME OneSaver PROVE Spec => []BackupIsPrevious
<1>1. Inv => BackupIsPrevious
  <2> SUFFICES ASSUME Inv PROVE BackupIsPrevious
    OBVIOUS
  <2>1. file["store"] \in Images \cup {Missing} /\ file["bak"] \in Images \cup {Missing}
    BY DEF Inv, FilesInv, Types, Names, Contents
  <2>2. CASE file["store"] \in Images
    BY <2>2, ImageFacts DEF Inv, FilesInv, BackupIsPrevious, Precedes, AtLeast, Contents
  <2>3. CASE file["store"] = Missing
    <3>1. file["bak"].life = 0 => file["bak"] = Missing
      BY <2>1, ImageFacts
    <3> QED BY <2>3, <3>1, ImageFacts, AtLeastOrder
            DEF Inv, FilesInv, BackupIsPrevious, AtLeast
  <2> QED BY <2>1, <2>2, <2>3
<1> QED BY OneSaver, <1>1, StoreInvariance, PTL

\* A coordinator that loads the primary runs in an epoch later than any reported
\* saved in its life, with every fence that was; one that had to load the backup
\* runs in an epoch later than the backup's, with its fences.
THEOREM RecoveryProgresses == ASSUME OneSaver PROVE Spec => RecoveryMovesOn
<1>1. ASSUME Inv, StartFromPrimary PROVE StartsAfter(saved)
  <2>1. /\ file["store"] \in Images /\ file["store"].epoch < MaxEpoch
        /\ Read = file["store"] /\ engine' = Loaded(file["store"])
        /\ saved \in Contents
    BY <1>1, ImageFacts DEF StartFromPrimary, Inv, Types, Names, Read, Contents
  <2>2. /\ engine'.epoch > file["store"].epoch /\ engine'.fences = file["store"].fences
        /\ engine'.epoch \in Nat /\ file["store"].epoch \in Nat
    BY <2>1, LoadedImage, ImageFacts
  <2>3. CASE saved \in Images
    <3>1. AtLeast(file["store"], saved) /\ saved.epoch \in Nat
      BY <1>1, <2>1, <2>3, ImageFacts DEF Inv, FilesInv
    <3> QED BY <2>2, <3>1 DEF AtLeast, StartsAfter
  <2>4. CASE saved = Missing
    BY <2>2, <2>4 DEF StartsAfter, Missing, NoImage
  <2> QED BY <1>1, <2>3, <2>4 DEF Inv, Types
<1>2. ASSUME Inv, StartFromBackup PROVE StartsAfter(file["bak"])
  <2>1. /\ file["bak"] \in Images /\ file["bak"].epoch < MaxEpoch
        /\ engine' = [Loaded(file["bak"]) EXCEPT !.life = engine.life + 1]
        /\ engine.life + 1 \in 1 .. MaxLives
    BY <1>2, ImageFacts, StoreAssumption DEF StartFromBackup, Inv, Types, Names, Images
  <2> QED BY <2>1, LoadedImage DEF StartsAfter
<1>3. Inv /\ [Next]_vars => [/\ StartFromPrimary => StartsAfter(saved)
                             /\ StartFromBackup => StartsAfter(file["bak"])]_vars
  BY <1>1, <1>2
<1> QED BY OneSaver, <1>3, StoreInvariance, PTL DEF Spec, RecoveryMovesOn
=============================================================================
