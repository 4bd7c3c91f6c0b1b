------------------------- MODULE DurableStateProofs -------------------------
(***************************************************************************)
(* Proofs about the durable state of a node: type correctness, what a      *)
(* damaged primary may cost, that foreign state is left alone until it is  *)
(* passed over, and that the files implement the register of               *)
(* StateRegister.                                                          *)
(*                                                                         *)
(* They rest on one inductive invariant, Inv: every directory a power loss *)
(* may leave is sound, and for each step of a save it is known which file  *)
(* holds the generation that a stop at this instant would load.  What is   *)
(* said of foreign state needs a second one beside it, ForeignKept.        *)
(***************************************************************************)
EXTENDS DurableState, TLAPS

\* The files that load reads.
Copies == {"primary", "pending", "bak"}

\* The generation of a file; 0 when it has none.
Gen(c) == IF c \in Content THEN c ELSE 0

\* Only the primary is ever damaged: it is moved to a corrupt file, never to
\* a copy.
OwnDir(d) ==
  /\ d \in Directory
  /\ d["pending"] # Damaged
  /\ d["bak"] # Damaged

\* No file holds a generation above n.
Below(d, n) == \A f \in Copies : Gen(d[f]) <= n

\* A primary is newer than the copies beside it.
Newest(d) ==
  d["primary"] \in Content =>
    \A f \in {"pending", "bak"} : Gen(d[f]) < d["primary"]

\* What would be loaded if the primary were damaged.
Backup(d) == Gen(d[IF Exists(d, "pending") THEN "pending" ELSE "bak"])

\* What a directory must hold, whichever instant of a save it is left at.
\* The copies hold the generation kept as a copy; the acknowledged one loads,
\* unless the primary is damaged or was taken for damaged.
Sound(d) ==
  /\ OwnDir(d) /\ Below(d, saves) /\ Newest(d)
  /\ Backup(d) >= acked2
  /\ aside \/ d["primary"] = Damaged \/ Value(d) >= acked
  /\ d["primary"] = Foreign => acked = 0

Rotation == {"preserve", "replace", "restore", "rotated", "cleanup"}

\* The steps before the primary is displaced, and those after the commit
\* was synced; the rotation of the backup belongs to both.
Undisplaced == save.pc \in {"pending", "displace"} \/ (save.pc \in Rotation /\ ~AfterCommit)
Committed   == save.pc \in Rotation /\ AfterCommit

\* The generation of a save is new, and is what the save reports on.
SaveGeneration ==
  /\ save.pc = "idle" => save = Idle
  /\ save.pc # "idle" => up /\ save.gen = saves /\ acked < save.gen

\* What a save knows of the primary it replaces: a valid one is the node's
\* own, one that is not valid is damaged or was not read.
Checked ==
  /\ save.valid \/ aside
  /\ save.valid => ~save.unread /\ dir["primary"] \notin {Damaged, Foreign}
  /\ save.valid \/ save.unread \/ dir["primary"] = Damaged

\* Before the primary is displaced: all files are older than the temporary
\* one, and the check of the primary still says what it said.
BeforeDisplacing ==
  Undisplaced =>
    /\ save.displaced = Absent
    /\ Checked
    /\ Below(dir, save.gen - 1) /\ dir["tmp"] = save.gen

\* Between the displacement and the commit: the old primary is under the
\* name it was given, the older backup beside it.  One set aside is still
\* what a power loss may bring back.
BetweenRenames ==
  save.pc = "commit" \/ (save.pc = "rollback" /\ dir["primary"] # save.gen) =>
    /\ dir["primary"] = Absent
    /\ Below(dir, save.gen - 1) /\ dir["tmp"] = save.gen
    /\ save.displaced = "corrupt" =>
         \E d \in onDisk : /\ d["primary"] = dir["corrupt"]
                           /\ d["pending"] = dir["pending"]
                           /\ d["bak"] = dir["bak"]
    /\ save.displaced = "pending" =>
         /\ dir["pending"] \in Content /\ Exists(dir, "bak")
         /\ Gen(dir["bak"]) < dir["pending"]
         /\ Gen(dir["bak"]) >= acked2
    /\ save.displaced = "bak" =>
         /\ dir["bak"] \in Content /\ dir["pending"] = Absent
         /\ acked2 = 0

\* After the rename of the commit: the new primary, and a backup no older
\* than the last acknowledged generation, on disk too once it was synced.
AfterRename ==
  /\ save.pc = "sync" \/ (save.pc = "rollback" /\ dir["primary"] = save.gen) =>
       /\ dir["primary"] = save.gen
       /\ aside \/ Backup(dir) >= acked
       /\ save.displaced = "pending" => Exists(dir, "pending") /\ Exists(dir, "bak")
  /\ Committed => \A d \in onDisk :
       /\ d["primary"] = save.gen
       /\ aside \/ Backup(d) >= acked

\* Where the two copies are during the rotation.
RotationStep ==
  /\ save.pc = "displace" => dir["pending"] = Absent
  /\ save.pc = "preserve" => Exists(dir, "pending") /\ Exists(dir, "bak")
  /\ save.pc \in {"replace", "restore"} =>
       /\ Exists(dir, "pending") /\ ~Exists(dir, "bak")
       /\ dir["preserved"] # Damaged
       /\ dir["primary"] \in Content => Gen(dir["preserved"]) < dir["primary"]
       /\ Gen(dir["preserved"]) <= saves
  /\ save.pc \in {"rotated", "cleanup"} => dir["pending"] = Absent

\* Whatever a power loss leaves is sound.
DiskSound == \A d \in onDisk : Sound(d) /\ Kept(d) = d

Own ==
  /\ DiskSound
  /\ SaveGeneration
  /\ BeforeDisplacing
  /\ BetweenRenames
  /\ AfterRename
  /\ RotationStep

Inv == TypeOK /\ Own

\* Nobody else's state is among the copies, on disk or in the rotation.
NoForeignCopy ==
  /\ \A d \in onDisk \cup {dir} : d["pending"] # Foreign /\ d["bak"] # Foreign
  /\ save.pc \in {"replace", "restore"} => dir["preserved"] # Foreign

\* A foreign primary that no save took for damaged is there on disk too, and
\* no save is under way.  Foreign copies nobody passed over are as they were
\* found: no process is up.
ForeignKept ==
  /\ "primary" \in passed \/
       /\ \A d \in onDisk : d["primary"] = Foreign <=> dir["primary"] = Foreign
       /\ dir["primary"] = Foreign => save.pc = "idle"
  /\ {"pending", "bak"} \subseteq passed \/ NoForeignCopy \/ ~up
  /\ ~up => \A d \in onDisk : \A f \in Copies : d[f] = dir[f]

-----------------------------------------------------------------------------
(* Contents and directories                                                *)

\* What tells the contents of a file apart.
LEMMA Contents ==
  /\ \A c \in Content : c \in Nat /\ c > 0
  /\ Absent \notin Content /\ Damaged \notin Content /\ Foreign \notin Content
  /\ Absent # Damaged /\ Absent # Foreign /\ Damaged # Foreign
  /\ Absent # "corrupt" /\ Absent # "pending" /\ Absent # "bak"
  /\ 1 \in Content
  BY BoundsAssumption, ContentAssumption DEF Content

\* Kept only forgets the files under unique names.
LEMMA KeptFacts ==
  ASSUME NEW d \in Directory
  PROVE  /\ Kept(d) \in Directory
         /\ Kept(d)["primary"] = d["primary"]
         /\ Kept(d)["pending"] = d["pending"]
         /\ Kept(d)["bak"] = d["bak"]
         /\ Kept(Kept(d)) = Kept(d)
  BY DEF Kept, Directory, Files

\* Directories with the same three copies are the same once stray files are
\* forgotten.
LEMMA KeptSame ==
  ASSUME NEW d \in Directory, NEW e \in Directory,
         d["primary"] = e["primary"], d["pending"] = e["pending"],
         d["bak"] = e["bak"]
  PROVE  Kept(d) = Kept(e)
<1>1. Kept(d) \in Directory /\ Kept(e) \in Directory
  BY KeptFacts
<1>2. \A f \in Files : Kept(d)[f] = Kept(e)[f]
  BY DEF Kept, Directory, Files
<1> QED
  BY <1>1, <1>2 DEF Directory

\* load reads the three copies only.
LEMMA LoadReads ==
  ASSUME NEW d, NEW e,
         d["primary"] = e["primary"], d["pending"] = e["pending"],
         d["bak"] = e["bak"]
  PROVE  /\ Load(d) = Load(e)
         /\ Value(d) = Value(e)
<1>1. RecoverFromCopies(d) = RecoverFromCopies(e)
  <2>1. {f \in {"pending", "bak"} : Exists(d, f) /\ d[f] # Damaged}
          = {f \in {"pending", "bak"} : Exists(e, f) /\ e[f] # Damaged}
    BY DEF Exists
  <2> QED
    BY <2>1 DEF RecoverFromCopies
<1>2. Load(d) = Load(e)
  BY <1>1 DEF Load, Exists
<1> QED
  BY <1>2 DEF Value

\* The generation of a file.
LEMMA GenFacts ==
  /\ \A c : Gen(c) \in Nat /\ Gen(c) \in Content \cup {0}
  /\ \A c \in Content : Gen(c) = c
  /\ \A c : c \notin Content => Gen(c) = 0
  /\ Gen(Absent) = 0 /\ Gen(Damaged) = 0 /\ Gen(Foreign) = 0
  BY Contents DEF Gen

\* What a load yields: the primary's generation, nothing beside a foreign
\* primary, or else what the copies hold.
LEMMA OwnValue ==
  ASSUME NEW d, OwnDir(d)
  PROVE  /\ Value(d) = IF d["primary"] \in Content THEN d["primary"]
                       ELSE IF d["primary"] = Foreign THEN 0 ELSE Backup(d)
         /\ Backup(d) \in Content \cup {0}
         /\ Value(d) \in Content \cup {0}
         /\ Value(d) \in Nat /\ Backup(d) \in Nat
<1> DEFINE usable == {f \in {"pending", "bak"} : Exists(d, f) /\ d[f] # Damaged}
<1>1. "pending" \in usable <=> Exists(d, "pending")
  BY Contents DEF OwnDir
<1>2. "bak" \in usable <=> Exists(d, "bak")
  BY Contents DEF OwnDir
<1>3. usable = {} <=> ("pending" \notin usable /\ "bak" \notin usable)
  OBVIOUS
<1>4. /\ \A c \in Content : LoadOne(c) = [kind |-> "state", gen |-> c]
      /\ LoadOne(Foreign) = [kind |-> "refused", gen |-> 0]
  BY Contents DEF LoadOne, Nothing
<1>5. d["pending"] \in Content \cup {Absent, Foreign} /\ d["bak"] \in Content \cup {Absent, Foreign}
      /\ d["primary"] \in Content \cup {Absent, Foreign, Damaged}
  BY DEF OwnDir, Directory, Files
<1>6. RecoverFromCopies(d).gen = Backup(d)
  <2>1. RecoverFromCopies(d) =
          IF usable = {} THEN Nothing("failed")
          ELSE LoadOne(d[IF "pending" \in usable THEN "pending" ELSE "bak"])
    BY DEF RecoverFromCopies
  <2> HIDE DEF usable
  <2>2. CASE Exists(d, "pending")
    <3>1. RecoverFromCopies(d) = LoadOne(d["pending"])
      BY <1>1, <1>3, <2>1, <2>2
    <3> QED
      BY <1>4, <1>5, <2>2, <3>1, GenFacts, Contents DEF Backup, Exists
  <2>3. CASE ~Exists(d, "pending") /\ Exists(d, "bak")
    <3>1. RecoverFromCopies(d) = LoadOne(d["bak"])
      BY <1>1, <1>2, <1>3, <2>1, <2>3
    <3> QED
      BY <1>4, <1>5, <2>3, <3>1, GenFacts, Contents DEF Backup, Exists
  <2>4. CASE ~Exists(d, "pending") /\ ~Exists(d, "bak")
    <3>1. RecoverFromCopies(d) = Nothing("failed")
      BY <1>1, <1>2, <1>3, <2>1, <2>4
    <3> QED
      BY <2>4, <3>1, GenFacts DEF Backup, Exists, Nothing
  <2> QED
    BY <2>2, <2>3, <2>4
<1>7. Value(d) = IF d["primary"] \in Content THEN d["primary"]
                 ELSE IF d["primary"] = Foreign THEN 0 ELSE Backup(d)
  <2>1. CASE d["primary"] \in Content
    BY <2>1, <1>4, Contents DEF Value, Load, Exists
  <2>2. CASE d["primary"] = Foreign
    BY <2>2, <1>4, Contents DEF Value, Load, Exists
  <2>3. CASE d["primary"] \in {Absent, Damaged} /\ \E f \in Copies : Exists(d, f)
    <3>1. Load(d) = RecoverFromCopies(d)
      BY <2>3, Contents DEF Load, Exists, Copies
    <3> QED
      BY <2>3, <3>1, <1>6, Contents DEF Value
  <2>4. CASE \A f \in Copies : ~Exists(d, f)
    BY <2>4, GenFacts, Contents DEF Value, Load, Nothing, Backup, Exists, Copies
  <2> QED
    BY <1>5, <2>1, <2>2, <2>3, <2>4
<1>8. Backup(d) \in Content \cup {0} /\ Backup(d) \in Nat
  BY GenFacts DEF Backup
<1> QED
  BY <1>7, <1>8, Contents

\* Whether a directory is sound depends on its three copies only.
LEMMA SoundReads ==
  ASSUME NEW d \in Directory, NEW e \in Directory,
         d["primary"] = e["primary"], d["pending"] = e["pending"],
         d["bak"] = e["bak"]
  PROVE  /\ OwnDir(d) <=> OwnDir(e)
         /\ Newest(d) <=> Newest(e)
         /\ \A n : Below(d, n) <=> Below(e, n)
         /\ Backup(d) = Backup(e)
         /\ Value(d) = Value(e)
         /\ Sound(d) <=> Sound(e)
<1>1. Value(d) = Value(e)
  BY LoadReads
<1>2. OwnDir(d) <=> OwnDir(e)
  BY DEF OwnDir
<1>3. Newest(d) <=> Newest(e)
  BY DEF Newest
<1>4. \A n : Below(d, n) <=> Below(e, n)
  BY DEF Below, Copies
<1>5. Backup(d) = Backup(e)
  BY DEF Backup, Exists
<1> QED
  BY <1>1, <1>2, <1>3, <1>4, <1>5 DEF Sound

-----------------------------------------------------------------------------
(* Steps of a save                                                         *)

\* The directory becomes e: the form of every step of a save.
Becomes(e) ==
  /\ dir' = e
  /\ Kept(e) \in onDisk'
  /\ onDisk' \subseteq onDisk \cup {Kept(e)}

\* A change, a sync of the directory and a step that leaves the files alone
\* all have that form.
LEMMA BecomesFacts ==
  ASSUME TypeOK
  PROVE  /\ \A e : Change(e) => Becomes(e)
         /\ SyncParentDirectory => Becomes(dir)
         /\ UNCHANGED <<dir, onDisk>> => Becomes(dir)
  BY DEF TypeOK, Change, Becomes, SyncParentDirectory

\* The directory the process sees is as sound as what is on disk.
LEMMA DirSound ==
  ASSUME TypeOK, DiskSound
  PROVE  /\ dir \in Directory
         /\ Sound(dir) /\ OwnDir(dir) /\ Below(dir, saves) /\ Newest(dir)
<1>1. dir \in Directory /\ Kept(dir) \in onDisk
  BY DEF TypeOK
<1>2. Sound(Kept(dir)) /\ Kept(dir) \in Directory
  BY <1>1, KeptFacts DEF DiskSound
<1>3. Sound(dir)
  BY <1>1, <1>2, KeptFacts, SoundReads
<1> QED
  BY <1>1, <1>3 DEF Sound

\* A step to a sound directory keeps the disk sound.
LEMMA DiskStaysSound ==
  ASSUME TypeOK, DiskSound, NEW e \in Directory, Sound(e), Becomes(e),
         UNCHANGED <<saves, acked, acked2, aside>>
  PROVE  /\ DiskSound'
         /\ dir' \in Directory
         /\ onDisk' \subseteq Directory
         /\ Kept(dir') \in onDisk'
<1>1. Kept(e) \in Directory /\ Kept(Kept(e)) = Kept(e) /\ Sound(Kept(e))
  BY KeptFacts, SoundReads
<1>2. \A d : Sound(d) => Sound(d)'
  BY DEF Sound
<1> QED
  BY <1>1, <1>2 DEF DiskSound, Becomes, TypeOK

SaveRecords ==
  [pc : {"idle", "pending", "displace", "commit", "sync", "rollback",
         "preserve", "replace", "restore", "rotated", "cleanup"},
   gen : Content \cup {0}, valid : BOOLEAN, unread : BOOLEAN,
   displaced : {Absent, "corrupt", "pending", "bak"}]

\* The types of the next state, from what a step of a save changes.
LEMMA SaveTypes ==
  ASSUME TypeOK, dir' \in Directory, onDisk' \subseteq Directory,
         Kept(dir') \in onDisk', save' \in SaveRecords,
         acked' \in 0 .. saves, acked2' \in 0 .. acked', aside' \in BOOLEAN,
         faults' = faults \/ Fault, Rest
  PROVE  TypeOK'
  BY BoundsAssumption DEF TypeOK, SaveRecords, Fault, Rest

\* Moving on changes the program counter of the save only.
LEMMA GotoFacts ==
  ASSUME TypeOK, NEW pc \in {"displace", "commit", "sync", "rollback",
         "preserve", "replace", "restore", "rotated", "cleanup"}, Goto(pc)
  PROVE  /\ save' \in SaveRecords
         /\ save'.pc = pc /\ save'.gen = save.gen
         /\ save'.valid = save.valid /\ save'.unread = save.unread
        /\ save'.displaced = save.displaced
         /\ UNCHANGED <<acked, acked2, aside>>
         /\ acked' \in 0 .. saves /\ acked2' \in 0 .. acked'
  BY DEF TypeOK, Goto, SaveRecords

\* The save that is over.
LEMMA IdleFacts ==
  /\ Idle \in SaveRecords
  /\ Idle.pc = "idle" /\ Idle.gen = 0 /\ Idle.unread = FALSE
  /\ Idle.displaced = Absent
  BY DEF Idle, SaveRecords

-----------------------------------------------------------------------------
(* What a step means for the register                                      *)

\* What a stop of the machine may leave, and the save in progress.
Possible == {Value(d) : d \in onDisk} \cup ({save.gen} \ {0})

\* The answer of load to a directory and to what the disk keeps of it.
LEMMA KeptValue ==
  ASSUME NEW e \in Directory
  PROVE  Value(Kept(e)) = Value(e)
  BY KeptFacts, LoadReads

\* After a step of a save nothing loads that was not possible before it.
LEMMA StepPossible ==
  ASSUME TypeOK, save.gen # 0, NEW e \in Directory, Becomes(e),
         Value(e) \in {Value(dir), save.gen} \cup {Value(d) : d \in onDisk},
         save'.gen \in {save.gen, 0}
  PROVE  /\ Possible' \subseteq Possible
         /\ Value(dir)' \in Possible'
<1>1. Value(dir) \in {Value(d) : d \in onDisk}
  BY KeptValue DEF TypeOK
<1>2. Value(e) \in Possible
  BY <1>1 DEF Possible
<1>3. \A d \in onDisk' : Value(d) \in Possible
  BY <1>2, KeptValue DEF Becomes, Possible
<1>4. Possible' = {Value(d) : d \in onDisk'} \cup ({save'.gen} \ {0})
  BY DEF Possible
<1>5. Value(dir)' = Value(Kept(e))
  BY KeptValue DEF Becomes
<1> QED
  BY <1>3, <1>4, <1>5 DEF Becomes, Possible

\* A step of a save is a settling of the register.
LEMMA RegisterSettles ==
  ASSUME TypeOK, save.gen # 0, NEW e \in Directory, Becomes(e),
         Value(e) \in {Value(dir), save.gen} \cup {Value(d) : d \in onDisk},
         save'.gen = save.gen, save'.unread = save.unread,
         UNCHANGED <<acked, damage>>
  PROVE  Register!Settle
  BY StepPossible DEF Register!Settle, Possible

\* A save that returns its error is a failed save of the register.
LEMMA RegisterFails ==
  ASSUME TypeOK, save.gen # 0, NEW e \in Directory, Becomes(e),
         Value(e) \in {Value(dir), save.gen} \cup {Value(d) : d \in onDisk},
         save' = Idle, UNCHANGED <<acked, damage>>
  PROVE  Register!Fail
<1>1. save'.gen = 0 /\ save'.unread = FALSE
  BY IdleFacts
<1> QED
  BY <1>1, StepPossible DEF Register!Fail, Possible

\* A save that could not read the primary sets it aside: an older generation
\* is possible now.
LEMMA RegisterSetsAside ==
  ASSUME TypeOK, save.unread, save.gen # 0, NEW e \in Directory, Becomes(e),
         Value(e) < save.gen, save'.gen = save.gen, save'.unread = save.unread,
         UNCHANGED <<acked, damage>>
  PROVE  Register!SetAside
<1>1. \A v \in Possible' : v \in Possible \/ v < save.gen
  BY KeptValue DEF Possible, Becomes
<1>2. Value(dir)' \in Possible'
  BY KeptValue DEF Possible, Becomes
<1> QED
  BY <1>1, <1>2 DEF Register!SetAside, Possible

\* A save that returns Ok is a save of the register that is done: only its
\* generation is left on disk.
LEMMA RegisterDone ==
  ASSUME TypeOK, save.gen # 0, NEW e \in Directory, Becomes(e),
         Value(dir) = save.gen, Value(e) = save.gen,
         \A d \in onDisk' : Value(d) = save.gen,
         ReturnOk, damage' = damage
  PROVE  Register!Done
<1>1. {Value(d) : d \in onDisk'} = {save.gen}
  BY DEF Becomes
<1>2. save'.gen = 0 /\ save'.unread = FALSE /\ acked' = save.gen
  BY IdleFacts DEF ReturnOk
<1>3. Value(dir)' = Value(dir)
  BY DEF Becomes
<1> QED
  BY <1>1, <1>2, <1>3 DEF Register!Done

-----------------------------------------------------------------------------
(* One lemma per step of a save: the invariant is kept, and the register   *)
(* makes a step of its own.                                                *)

\* Moving a file to another name, and removing one.
LEMMA MovedFacts ==
  ASSUME NEW d \in Directory, NEW from \in Files, NEW to \in Files, from # to
  PROVE  /\ Moved(d, from, to) \in Directory
         /\ Moved(d, from, to)[to] = d[from]
         /\ Moved(d, from, to)[from] = Absent
         /\ \A f \in Files \ {from, to} : Moved(d, from, to)[f] = d[f]
  BY DEF Moved, Directory

\* Removing a file leaves the others alone.
LEMMA WithoutFacts ==
  ASSUME NEW d \in Directory, NEW f \in Files
  PROVE  /\ Without(d, f) \in Directory
         /\ Without(d, f)[f] = Absent
         /\ \A g \in Files \ {f} : Without(d, f)[g] = d[g]
  BY DEF Without, Directory

\* What holds at every step of a save.
LEMMA Busy ==
  ASSUME Inv, save.pc # "idle"
  PROVE  /\ up
         /\ save \in SaveRecords
         /\ save.gen = saves /\ save.gen \in Content /\ save.gen # 0
         /\ acked \in Nat /\ acked2 \in Nat /\ acked2 <= acked /\ acked < save.gen
         /\ acked \in 0 .. saves /\ acked2 \in 0 .. acked
         /\ acked' = acked => acked' \in 0 .. saves
         /\ acked' = acked /\ acked2' = acked2 => acked2' \in 0 .. acked'
         /\ aside' = aside => aside' \in BOOLEAN
  BY Contents DEF Inv, TypeOK, Own, SaveGeneration, SaveRecords, Content

\* A save that returns an error leaves an idle process; it only has to leave
\* a sound directory that loads what it loaded before, or the new generation.
LEMMA ErrorReturn ==
  ASSUME Inv, save.pc # "idle", NEW e \in Directory, Sound(e), Becomes(e),
         Value(e) \in {Value(dir), save.gen} \cup {Value(d) : d \in onDisk},
         ReturnErr, faults' = faults \/ Fault, Rest
  PROVE  Inv' /\ Register!Next
<1>1. save' = Idle /\ UNCHANGED <<acked, acked2, aside, saves, damage, up>>
  BY DEF ReturnErr, Rest
<1>2. /\ DiskSound' /\ dir' \in Directory /\ onDisk' \subseteq Directory
      /\ Kept(dir') \in onDisk'
  BY <1>1, DiskStaysSound DEF Inv, Own
<1>3. TypeOK'
  BY <1>1, <1>2, SaveTypes, IdleFacts, Busy DEF Inv
<1>4. Own'
  BY <1>1, <1>2, IdleFacts
  DEF Own, SaveGeneration, BeforeDisplacing, BetweenRenames, AfterRename,
      RotationStep, Undisplaced, Committed, Rotation
<1>5. Register!Fail
  BY <1>1, IdleFacts, Busy, RegisterFails DEF Inv
<1> QED
  BY <1>3, <1>4, <1>5 DEF Inv, Register!Next

\* Removing the temporary file keeps a directory sound and what it loads.
LEMMA WithoutTmp ==
  ASSUME NEW d \in Directory
  PROVE  /\ Without(d, "tmp") \in Directory
         /\ Sound(d) <=> Sound(Without(d, "tmp"))
         /\ Value(Without(d, "tmp")) = Value(d)
<1>1. /\ Without(d, "tmp") \in Directory
      /\ Without(d, "tmp")["primary"] = d["primary"]
      /\ Without(d, "tmp")["pending"] = d["pending"]
      /\ Without(d, "tmp")["bak"] = d["bak"]
  BY WithoutFacts DEF Files
<1> QED
  BY <1>1, SoundReads

\* An operation that fails for good: the temporary file is removed.
LEMMA FailsForGoodStep ==
  ASSUME Inv, save.pc # "idle", FailsForGood, Rest
  PROVE  Inv' /\ Register!Next
<1>1. dir \in Directory /\ Sound(dir)
  BY DirSound DEF Inv, Own
<1>2. Becomes(Without(dir, "tmp"))
  BY BecomesFacts DEF Inv, FailsForGood
<1>3. /\ Without(dir, "tmp") \in Directory /\ Sound(Without(dir, "tmp"))
      /\ Value(Without(dir, "tmp")) = Value(dir)
  BY <1>1, WithoutTmp
<1> QED
  BY <1>2, <1>3, ErrorReturn DEF FailsForGood

\* The temporary file is written: the save knows of the primary what the
\* read told, or takes it for damaged.
LEMMA PrepareStep ==
  ASSUME Inv, save = Idle, up, NEW valid \in BOOLEAN, NEW unread \in BOOLEAN,
         Prepare(valid, unread),
         valid => ~unread /\ dir["primary"] \notin {Damaged, Foreign},
         valid \/ unread \/ dir["primary"] = Damaged,
         saves' = saves + 1, saves < MaxSaves, faults' \in 0 .. MaxFaults,
         passed' \subseteq Copies,
         UNCHANGED <<up, acked, acked2, crashes, damage>>
  PROVE  Inv' /\ Register!Begin
<1> DEFINE e == [dir EXCEPT !["tmp"] = saves + 1]
<1>1. /\ saves + 1 \in Content /\ saves \in Content /\ saves \in Nat
      /\ acked \in 0 .. saves /\ acked2 \in 0 .. acked
  BY BoundsAssumption DEF Inv, TypeOK, Content
<1>2. dir \in Directory /\ Sound(dir) /\ OwnDir(dir) /\ Below(dir, saves)
  BY DirSound DEF Inv, Own
<1>3. aside' \in BOOLEAN /\ (aside => aside') /\ (~valid => aside')
  BY DEF Prepare, Inv, TypeOK
<1>4. \A d : Sound(d) => Sound(d)'
  BY <1>1, <1>3, GenFacts DEF Sound, Below
<1>5. /\ save'.pc = "pending" /\ save'.gen = saves + 1
      /\ save'.displaced = Absent
      /\ save'.valid = valid /\ save'.unread = unread
      /\ save' \in SaveRecords
  BY <1>1 DEF Prepare, SaveRecords
<1>6. /\ e \in Directory /\ e["tmp"] = saves + 1
      /\ e["primary"] = dir["primary"] /\ e["pending"] = dir["pending"]
      /\ e["bak"] = dir["bak"]
  BY <1>1, <1>2 DEF Directory, Files
<1>7. dir' = e /\ onDisk' = onDisk /\ Kept(e) = Kept(dir)
  <2>1. Kept(e) = Kept(dir)
    BY <1>2, <1>6, KeptSame
  <2> QED
    BY <2>1 DEF Prepare, Change, Inv, TypeOK
<1> HIDE DEF e
<1>8. Value(e) = Value(dir) /\ Below(e, saves)
  BY <1>2, <1>6, SoundReads
<1>9. TypeOK'
  <2>1. saves' \in Content /\ acked' \in 0 .. saves' /\ acked2' \in 0 .. acked'
    BY <1>1, Contents
  <2>2. dir' \in Directory /\ onDisk' \subseteq Directory /\ Kept(dir') \in onDisk'
    BY <1>6, <1>7 DEF Inv, TypeOK
  <2> QED
    BY <1>3, <1>5, <2>1, <2>2 DEF Inv, TypeOK, SaveRecords, Copies
<1>10. DiskSound'
  BY <1>4, <1>7 DEF Inv, Own, DiskSound
<1>11. SaveGeneration'
  BY <1>1, <1>5, Contents DEF SaveGeneration
<1>12. BeforeDisplacing'
  <2>1. save'.gen - 1 = saves
    BY <1>1, <1>5
  <2>2. Below(dir', save'.gen - 1)
    BY <1>7, <1>8, <2>1
  <2>3. dir'["primary"] = dir["primary"]
    BY <1>6, <1>7
  <2>4. Checked'
    BY <1>3, <1>5, <2>3, Zenon DEF Checked
  <2>5. dir'["tmp"] = save'.gen /\ save'.displaced = Absent
    BY <1>5, <1>6, <1>7
  <2> QED
    BY <2>2, <2>4, <2>5, Zenon DEF BeforeDisplacing
<1>13. BetweenRenames' /\ AfterRename' /\ RotationStep'
  BY <1>5, Contents DEF BetweenRenames, AfterRename, RotationStep, Committed,
                        Rotation, AfterCommit
<1>14. Register!Begin
  <2>1. save.gen = 0 /\ save'.gen = saves + 1
    BY <1>5, IdleFacts
  <2>2. \A d \in onDisk : Value(d) \in Nat /\ Value(d) <= saves
    <3>1. SUFFICES ASSUME NEW d \in onDisk PROVE Value(d) \in Nat /\ Value(d) <= saves
      OBVIOUS
    <3>2. OwnDir(d) /\ Below(d, saves)
      BY <3>1 DEF Inv, Own, DiskSound, Sound
    <3> QED
      BY <1>1, <3>2, OwnValue, GenFacts DEF Below, Copies, Backup
  <2>3. Value(dir)' = Value(dir)
    BY <1>7, <1>8
  <2> QED
    BY <1>1, <1>5, <1>7, <2>1, <2>2, <2>3 DEF Register!Begin
<1> QED
  BY <1>9, <1>10, <1>11, <1>12, <1>13, <1>14 DEF Inv, Own

\* Begin: the temporary file is written, after a primary that was read or
\* one that could not be, or it could not be written.
LEMMA BeginStep ==
  ASSUME Inv, Begin
  PROVE  Inv' /\ (Register!Next \/ UNCHANGED Register!vars)
<1>1. /\ save.pc = "idle" /\ save = Idle /\ up
      /\ saves' = saves + 1 /\ saves < MaxSaves
      /\ UNCHANGED <<up, acked, acked2, crashes, damage>>
  BY DEF Begin, At, Inv, Own, SaveGeneration
<1>2. /\ saves + 1 \in Content /\ saves \in Nat /\ faults \in 0 .. MaxFaults
      /\ acked \in 0 .. saves /\ acked2 \in 0 .. acked
      /\ passed \subseteq Copies
  BY <1>1, BoundsAssumption DEF Inv, TypeOK, Content, Copies
<1>3. CASE Fails /\ UNCHANGED <<save, aside, passed>>
  <2>1. TypeOK'
    BY <1>1, <1>2, <1>3, BoundsAssumption, Contents DEF Fails, Fault, Inv, TypeOK
  <2>2. \A d : Sound(d) => Sound(d)'
    BY <1>1, <1>2, <1>3, GenFacts DEF Sound, Below
  <2>3. Own'
    BY <1>1, <1>3, <2>2, IdleFacts
    DEF Fails, Inv, Own, DiskSound, SaveGeneration, BeforeDisplacing,
        BetweenRenames, AfterRename, RotationStep, Undisplaced, Committed, Rotation
  <2>4. UNCHANGED Register!vars
    BY <1>1, <1>3 DEF Fails, Register!vars
  <2> QED
    BY <2>1, <2>3, <2>4 DEF Inv
<1>4. CASE /\ dir["primary"] # Foreign
           /\ Prepare(dir["primary"] # Damaged, FALSE)
           /\ UNCHANGED <<faults, passed>>
  <2> DEFINE valid == dir["primary"] # Damaged
  <2>1. /\ valid \in BOOLEAN /\ Prepare(valid, FALSE)
        /\ valid => dir["primary"] \notin {Damaged, Foreign}
        /\ valid \/ dir["primary"] = Damaged
    BY <1>4
  <2>2. faults' \in 0 .. MaxFaults /\ passed' \subseteq Copies
    BY <1>2, <1>4
  <2> HIDE DEF valid
  <2> QED
    BY <1>1, <2>1, <2>2, PrepareStep DEF Register!Next
<1>5. CASE /\ Prepare(FALSE, TRUE)
           /\ passed' = passed \cup {"primary"}
           /\ Fault
  <2>1. faults' \in 0 .. MaxFaults /\ passed' \subseteq Copies
    BY <1>2, <1>5, BoundsAssumption DEF Fault, Copies
  <2> QED
    BY <1>1, <1>5, <2>1, PrepareStep DEF Register!Next
<1> QED
  BY <1>3, <1>4, <1>5 DEF Begin

\* A step from which the save goes on.
LEMMA SaveKept ==
  ASSUME Inv, save.pc # "idle", NEW e \in Directory, Sound(e), Becomes(e),
         save' \in SaveRecords, save'.pc # "idle", save'.gen = save.gen,
         UNCHANGED <<acked, acked2, aside>>, faults' = faults \/ Fault, Rest
  PROVE  TypeOK' /\ DiskSound' /\ SaveGeneration'
<1>1. UNCHANGED <<saves, damage, up>>
  BY DEF Rest
<1>2. /\ DiskSound' /\ dir' \in Directory /\ onDisk' \subseteq Directory
      /\ Kept(dir') \in onDisk'
  BY <1>1, DiskStaysSound DEF Inv, Own
<1>3. TypeOK'
  BY <1>2, SaveTypes, Busy DEF Inv
<1>4. SaveGeneration'
  BY <1>1 DEF Inv, Own, SaveGeneration
<1> QED
  BY <1>2, <1>3, <1>4

\* A step from which the save goes on and that loads nothing new.
LEMMA SaveGoesOn ==
  ASSUME Inv, save.pc # "idle", NEW e \in Directory, Sound(e), Becomes(e),
         Value(e) \in {Value(dir), save.gen} \cup {Value(d) : d \in onDisk},
         save' \in SaveRecords, save'.pc # "idle", save'.gen = save.gen,
         save'.unread = save.unread,
         UNCHANGED <<acked, acked2, aside>>, faults' = faults \/ Fault, Rest
  PROVE  TypeOK' /\ DiskSound' /\ SaveGeneration' /\ Register!Next
<1>1. damage' = damage
  BY DEF Rest
<1>2. Register!Settle
  BY <1>1, Busy, RegisterSettles DEF Inv
<1> QED
  BY <1>2, SaveKept DEF Register!Next

\* Copies may be renamed as long as the answer of a load without the primary
\* stays the same.
LEMMA CopiesRenamed ==
  ASSUME NEW d, Sound(d), NEW e, OwnDir(e), Below(e, saves), Newest(e),
         e["primary"] = d["primary"], Backup(e) = Backup(d)
  PROVE  Sound(e) /\ Value(e) = Value(d)
<1>1. Value(e) = Value(d)
  BY OwnValue DEF Sound
<1> QED
  BY <1>1 DEF Sound

\* The pending backup becomes the backup.
LEMMA PendingBecomesBackup ==
  ASSUME TypeOK, NEW d, Sound(d), NEW e \in Directory, Exists(d, "pending"),
         e["primary"] = d["primary"], e["pending"] = Absent,
         e["bak"] = d["pending"]
  PROVE  Sound(e) /\ Value(e) = Value(d) /\ Backup(e) = Backup(d)
<1>1. OwnDir(e)
  BY Contents DEF OwnDir, Sound
<1>2. Below(e, saves) /\ Newest(e)
  <2>1. saves \in Nat /\ Gen(e["pending"]) = 0 /\ Gen(e["bak"]) = Gen(d["pending"])
    BY GenFacts, Contents DEF TypeOK
  <2>2. Below(e, saves)
    BY <2>1, GenFacts DEF Sound, Below, Copies
  <2>3. Newest(e)
    BY <2>1, Contents DEF Sound, Newest
  <2> QED
    BY <2>2, <2>3
<1>3. Backup(e) = Backup(d)
  BY Contents DEF Backup, Exists
<1> QED
  BY <1>1, <1>2, <1>3, CopiesRenamed

\* Beside a pending backup the backup may go, or come back.
LEMMA BackupMoves ==
  ASSUME NEW d, Sound(d), NEW e \in Directory, Exists(d, "pending"),
         e["primary"] = d["primary"], e["pending"] = d["pending"],
         e["bak"] # Damaged, Gen(e["bak"]) <= saves,
         e["primary"] \in Content => Gen(e["bak"]) < e["primary"]
  PROVE  Sound(e) /\ Value(e) = Value(d) /\ Backup(e) = Backup(d)
<1>1. OwnDir(e)
  BY DEF OwnDir, Sound
<1>2. Below(e, saves) /\ Newest(e)
  BY DEF Sound, Below, Newest, Copies
<1>3. Backup(e) = Backup(d)
  BY DEF Backup, Exists
<1> QED
  BY <1>1, <1>2, <1>3, CopiesRenamed

\* A step before the displacement that keeps the primary and renames copies
\* leaves what the save knows of the primary true.
LEMMA StillUndisplaced ==
  ASSUME Inv, Undisplaced, aside' = aside,
         dir'["primary"] = dir["primary"], dir'["tmp"] = dir["tmp"],
         Below(dir', save.gen - 1), save'.gen = save.gen,
         save'.valid = save.valid, save'.unread = save.unread,
         save'.displaced = save.displaced
  PROVE  BeforeDisplacing' /\ ~AfterCommit'
<1>1. save.displaced = Absent /\ Checked /\ dir["tmp"] = save.gen
  BY Zenon DEF Inv, Own, BeforeDisplacing
<1>2. ~AfterCommit'
  BY <1>1, Contents DEF AfterCommit
<1>3. Checked'
  BY <1>1, Zenon DEF Checked
<1>4. /\ Below(dir', save'.gen - 1) /\ dir'["tmp"] = save'.gen
      /\ save'.displaced = Absent
  BY <1>1
<1>5. BeforeDisplacing'
  BY <1>3, <1>4, Zenon DEF BeforeDisplacing
<1> QED
  BY <1>2, <1>5

\* SettlePending: a pending backup of an earlier save is put aside first.
LEMMA SettlePendingStep ==
  ASSUME Inv, SettlePending
  PROVE  Inv' /\ Register!Next
<1>1. save.pc = "pending" /\ Rest
  BY DEF SettlePending, At
<1>2. dir \in Directory /\ Sound(dir) /\ OwnDir(dir)
  BY DirSound DEF Inv, Own
<1>3. Undisplaced /\ Below(dir, save.gen - 1)
  BY <1>1 DEF Undisplaced, Inv, Own, BeforeDisplacing
<1>8. save.gen \in Nat /\ save.gen - 1 \in Nat /\ save.gen - 1 >= 0
  BY <1>1, Busy, Contents
<1>4. ASSUME ~Exists(dir, "pending"), Goto("displace"),
             UNCHANGED <<dir, onDisk, faults>>
      PROVE  Inv' /\ Register!Next
  <2>1. Becomes(dir)
    BY <1>4, BecomesFacts DEF Inv
  <2>2. save' \in SaveRecords /\ save'.pc = "displace" /\ save'.gen = save.gen
        /\ save'.valid = save.valid /\ save'.unread = save.unread
        /\ save'.displaced = save.displaced
        /\ UNCHANGED <<acked, acked2, aside>>
    BY <1>4, GotoFacts DEF Inv
  <2>3. TypeOK' /\ DiskSound' /\ SaveGeneration' /\ Register!Next
    BY <1>1, <1>2, <1>4, <2>1, <2>2, SaveGoesOn
  <2>4. BeforeDisplacing'
    BY <1>3, <1>4, <2>2, StillUndisplaced
  <2>5. BetweenRenames' /\ AfterRename' /\ RotationStep'
    BY <1>4, <2>2
    DEF BetweenRenames, AfterRename, RotationStep, Committed, Rotation, Exists
  <2> QED
    BY <2>3, <2>4, <2>5 DEF Inv, Own
<1>5. ASSUME Exists(dir, "pending"), Exists(dir, "bak"), Goto("preserve"),
             UNCHANGED <<dir, onDisk, faults>>
      PROVE  Inv' /\ Register!Next
  <2>1. Becomes(dir)
    BY <1>5, BecomesFacts DEF Inv
  <2>2. save' \in SaveRecords /\ save'.pc = "preserve" /\ save'.gen = save.gen
        /\ save'.valid = save.valid /\ save'.unread = save.unread
        /\ save'.displaced = save.displaced
        /\ UNCHANGED <<acked, acked2, aside>>
    BY <1>5, GotoFacts DEF Inv
  <2>3. TypeOK' /\ DiskSound' /\ SaveGeneration' /\ Register!Next
    BY <1>1, <1>2, <1>5, <2>1, <2>2, SaveGoesOn
  <2>4. BeforeDisplacing' /\ ~AfterCommit'
    BY <1>3, <1>5, <2>2, StillUndisplaced
  <2>5. BetweenRenames' /\ AfterRename' /\ RotationStep'
    BY <1>5, <2>2, <2>4
    DEF BetweenRenames, AfterRename, RotationStep, Committed, Exists
  <2> QED
    BY <2>3, <2>4, <2>5 DEF Inv, Own
<1>6. ASSUME Exists(dir, "pending"), ~Exists(dir, "bak"),
             Rename("pending", "bak"), Goto("displace")
      PROVE  Inv' /\ Register!Next
  <2> DEFINE e == Moved(dir, "pending", "bak")
  <2>1. e \in Directory /\ Becomes(e) /\ faults' = faults
    BY <1>2, <1>6, MovedFacts, BecomesFacts DEF Rename, Files, Inv
  <2>2. /\ e["primary"] = dir["primary"] /\ e["tmp"] = dir["tmp"]
        /\ e["pending"] = Absent /\ e["bak"] = dir["pending"]
    BY <1>2, MovedFacts DEF Files
  <2> HIDE DEF e
  <2>3. Sound(e) /\ Value(e) = Value(dir)
    BY <1>2, <1>6, <2>1, <2>2, PendingBecomesBackup DEF Inv
  <2>4. save' \in SaveRecords /\ save'.pc = "displace" /\ save'.gen = save.gen
        /\ save'.valid = save.valid /\ save'.unread = save.unread
        /\ save'.displaced = save.displaced
        /\ UNCHANGED <<acked, acked2, aside>>
    BY <1>6, GotoFacts DEF Inv
  <2>5. TypeOK' /\ DiskSound' /\ SaveGeneration' /\ Register!Next
    BY <1>1, <2>1, <2>3, <2>4, SaveGoesOn
  <2>6. dir' = e /\ Below(e, save.gen - 1)
    BY <1>3, <2>1, <2>2, <1>8, GenFacts DEF Becomes, Below, Copies
  <2>7. BeforeDisplacing'
    BY <1>3, <2>2, <2>4, <2>6, StillUndisplaced
  <2>8. BetweenRenames' /\ AfterRename' /\ RotationStep'
    BY <2>2, <2>4, <2>6
    DEF BetweenRenames, AfterRename, RotationStep, Committed, Rotation
  <2> QED
    BY <2>5, <2>7, <2>8 DEF Inv, Own
<1>7. ASSUME FailsForGood
      PROVE  Inv' /\ Register!Next
  BY <1>1, <1>7, FailsForGoodStep
<1> QED
  BY <1>4, <1>5, <1>6, <1>7 DEF SettlePending

\* Displace: the primary goes to a corrupt file, the pending backup or the
\* backup, and stays the answer of a load where it was one.
LEMMA DisplaceStep ==
  ASSUME Inv, Displace
  PROVE  Inv' /\ Register!Next
<1>1. save.pc = "displace" /\ Rest /\ dir["pending"] = Absent
  BY DEF Displace, At, Inv, Own, RotationStep
<1>2. dir \in Directory /\ Sound(dir) /\ OwnDir(dir) /\ Newest(dir)
      /\ Below(dir, saves)
  BY DirSound DEF Inv, Own
<1>3. /\ Below(dir, save.gen - 1) /\ save.displaced = Absent
      /\ dir["tmp"] = save.gen
  BY <1>1 DEF Undisplaced, Inv, Own, BeforeDisplacing
<1>4. /\ save.valid => dir["primary"] \notin {Damaged, Foreign}
      /\ save.valid \/ save.unread \/ dir["primary"] = Damaged
      /\ save.valid \/ aside
  BY <1>1, Zenon DEF Undisplaced, Inv, Own, BeforeDisplacing, Checked
<1>5. /\ save.gen = saves /\ save.gen \in Content /\ acked \in Nat /\ acked2 \in Nat
      /\ save \in SaveRecords
  BY <1>1, Busy
<1> DEFINE target == IF ~save.valid THEN "corrupt"
                     ELSE IF Exists(dir, "bak") THEN "pending" ELSE "bak"
<1>6. ASSUME ~Exists(dir, "primary"), Goto("commit"),
             UNCHANGED <<dir, onDisk, faults>>
      PROVE  Inv' /\ Register!Next
  <2>1. Becomes(dir)
    BY <1>6, BecomesFacts DEF Inv
  <2>2. save' \in SaveRecords /\ save'.pc = "commit" /\ save'.gen = save.gen
        /\ save'.valid = save.valid /\ save'.unread = save.unread
        /\ save'.displaced = save.displaced
        /\ UNCHANGED <<acked, acked2, aside>>
    BY <1>6, GotoFacts DEF Inv
  <2>3. TypeOK' /\ DiskSound' /\ SaveGeneration' /\ Register!Next
    BY <1>1, <1>2, <1>6, <2>1, <2>2, SaveGoesOn
  <2>4. BetweenRenames'
    BY <1>3, <1>6, <2>2, Contents DEF BetweenRenames, Exists
  <2>5. BeforeDisplacing' /\ AfterRename' /\ RotationStep'
    BY <2>2
    DEF BeforeDisplacing, AfterRename, RotationStep, Committed, Undisplaced, Rotation
  <2> QED
    BY <2>3, <2>4, <2>5 DEF Inv, Own
<1>7. ASSUME Exists(dir, "primary"), Rename("primary", target),
             save' = [save EXCEPT !.pc = "commit", !.displaced = target],
             UNCHANGED <<acked, acked2, aside>>
      PROVE  Inv' /\ Register!Next
  <2> DEFINE e == Moved(dir, "primary", target)
  <2>1. target \in {"corrupt", "pending", "bak"}
    OBVIOUS
  <2>2. /\ target = "corrupt" => ~save.valid
        /\ target = "pending" => save.valid /\ Exists(dir, "bak")
        /\ target = "bak" => save.valid /\ ~Exists(dir, "bak")
    OBVIOUS
  <2>3. /\ save'.pc = "commit" /\ save'.gen = save.gen /\ save'.displaced = target
        /\ save'.unread = save.unread /\ save' \in SaveRecords
    BY <1>5, <1>7, <2>1 DEF SaveRecords
  <2> HIDE DEF target
  <2>4. e \in Directory /\ Becomes(e) /\ faults' = faults
        /\ Kept(dir) \in onDisk /\ onDisk' = onDisk \cup {Kept(e)}
    BY <1>2, <1>7, <2>1, MovedFacts, BecomesFacts DEF Rename, Change, Files, Inv, TypeOK
  <2>5. /\ e["primary"] = Absent /\ e["tmp"] = dir["tmp"]
        /\ e[target] = dir["primary"]
        /\ \A f \in {"corrupt", "pending", "bak"} \ {target} : e[f] = dir[f]
    BY <1>2, <2>1, MovedFacts DEF Files
  <2> HIDE DEF e
  <2>6. target # "corrupt" => dir["primary"] \in Content
    <3>1. dir["primary"] \in Content \cup {Absent, Damaged, Foreign}
      BY <1>2 DEF Directory, Files
    <3>2. target # "corrupt" => save.valid
      BY <2>1, <2>2
    <3>3. save.valid => dir["primary"] \in Content
      BY <1>4, <1>7, <3>1 DEF Exists
    <3> QED
      BY <3>2, <3>3
  <2>7. OwnDir(e) /\ Newest(e) /\ Below(e, saves) /\ Below(e, save.gen - 1)
    <3>1. OwnDir(e)
      BY <1>2, <2>1, <2>4, <2>5, <2>6, Contents DEF OwnDir
    <3>2. Newest(e)
      BY <2>5, Contents DEF Newest
    <3>3. \A f \in Copies : e[f] = Absent \/ \E g \in Copies : e[f] = dir[g]
      BY <2>1, <2>5 DEF Copies
    <3>4. /\ saves \in Nat /\ save.gen - 1 \in Nat /\ 0 <= saves /\ 0 <= save.gen - 1
      BY <1>5, Contents
    <3> QED
      BY <1>2, <1>3, <3>1, <3>2, <3>3, <3>4, GenFacts DEF Below
  <2>8. /\ target = "corrupt" => Backup(e) = Backup(dir)
        /\ target # "corrupt" => Backup(e) = dir["primary"]
    BY <1>1, <1>2, <2>1, <2>2, <2>5, <2>6, GenFacts, Contents DEF Backup, Exists
  <2>9. Value(e) = Backup(e) /\ Backup(e) \in Nat
    BY <2>5, <2>7, OwnValue, Contents
  <2>10. Sound(e)
    <3>1. CASE target = "corrupt"
      BY <1>2, <1>4, <2>2, <2>5, <2>7, <2>8, <2>9, <3>1, Contents DEF Sound
    <3>2. CASE target # "corrupt"
      <4>1. dir["primary"] \in Content /\ dir["primary"] \in Nat /\ Value(dir) = dir["primary"]
        BY <1>2, <2>6, <3>2, OwnValue, Contents
      <4>2. Backup(dir) \in Nat /\ Backup(dir) < dir["primary"]
        BY <1>2, <4>1, OwnValue DEF Newest, Backup
      <4>3. Backup(e) >= acked2
        BY <1>2, <1>5, <2>8, <3>2, <4>1, <4>2 DEF Sound
      <4>4. aside \/ Value(e) >= acked
        BY <1>2, <2>8, <2>9, <3>2, <4>1, Contents DEF Sound
      <4> QED
        BY <2>5, <2>7, <4>3, <4>4, Contents DEF Sound
    <3> QED
      BY <3>1, <3>2
  <2>11. TypeOK' /\ DiskSound' /\ SaveGeneration'
    BY <1>1, <1>7, <2>3, <2>4, <2>10, SaveKept
  <2>12. Register!Next
    <3>1. damage' = damage /\ save.gen # 0
      BY <1>1, Busy DEF Rest
    <3>2. CASE target = "corrupt" /\ save.unread
      <4>1. Value(e) < save.gen
        BY <1>3, <1>5, <2>7, <2>9, GenFacts, Contents DEF Below, Copies, Backup
      <4> QED
        BY <1>7, <2>3, <2>4, <3>1, <3>2, <4>1, RegisterSetsAside DEF Inv, Register!Next
    <3>3. CASE target # "corrupt" \/ ~save.unread
      <4>1. Value(e) = Value(dir)
        <5>1. CASE target = "corrupt"
          <6>1. dir["primary"] = Damaged
            BY <1>4, <2>2, <3>3, <5>1
          <6> QED
            BY <1>2, <2>8, <2>9, <5>1, <6>1, OwnValue, Contents
        <5>2. CASE target # "corrupt"
          BY <1>2, <2>6, <2>8, <2>9, <5>2, OwnValue, Contents
        <5> QED
          BY <5>1, <5>2
      <4>2. Register!Settle
        BY <1>7, <2>3, <2>4, <3>1, <4>1, RegisterSettles DEF Inv
      <4> QED
        BY <4>2 DEF Register!Next
    <3> QED
      BY <3>2, <3>3
  <2>13. dir' = e /\ UNCHANGED <<acked2, aside>>
    BY <1>1, <1>7, <2>4 DEF Becomes
  <2>14. BetweenRenames'
    <3>1. target = "corrupt" =>
            \E d \in onDisk' : /\ d["primary"] = e["corrupt"]
                               /\ d["pending"] = e["pending"]
                               /\ d["bak"] = e["bak"]
      <4>1. SUFFICES ASSUME target = "corrupt"
                     PROVE  \E d \in onDisk' : /\ d["primary"] = e["corrupt"]
                                               /\ d["pending"] = e["pending"]
                                               /\ d["bak"] = e["bak"]
        OBVIOUS
      <4>2. /\ Kept(dir) \in onDisk'
            /\ Kept(dir)["primary"] = dir["primary"]
            /\ Kept(dir)["pending"] = dir["pending"]
            /\ Kept(dir)["bak"] = dir["bak"]
        BY <1>2, <2>4, KeptFacts
      <4> QED
        BY <2>5, <4>1, <4>2
    <3>2. target = "pending" =>
            /\ e["pending"] \in Content /\ Exists(e, "bak")
            /\ Gen(e["bak"]) < e["pending"]
            /\ Gen(e["bak"]) >= acked2
      <4>1. SUFFICES ASSUME target = "pending"
                     PROVE  /\ e["pending"] \in Content /\ Exists(e, "bak")
                            /\ Gen(e["bak"]) < e["pending"]
                            /\ Gen(e["bak"]) >= acked2
        OBVIOUS
      <4>2. dir["primary"] \in Content /\ Exists(dir, "bak")
        BY <2>2, <2>6, <4>1
      <4>3. Backup(dir) = Gen(dir["bak"])
        BY <1>1 DEF Backup, Exists
      <4> QED
        BY <1>2, <2>5, <4>1, <4>2, <4>3 DEF Newest, Sound, Exists
    <3>3. target = "bak" =>
            /\ e["bak"] \in Content /\ e["pending"] = Absent
            /\ acked2 = 0
      <4>1. SUFFICES ASSUME target = "bak"
                     PROVE  /\ e["bak"] \in Content /\ e["pending"] = Absent
                            /\ acked2 = 0
        OBVIOUS
      <4>2. dir["primary"] \in Content /\ dir["bak"] = Absent
        BY <2>2, <2>6, <4>1 DEF Exists
      <4>3. Backup(dir) = 0
        BY <1>1, <4>2, GenFacts DEF Backup, Exists
      <4> QED
        BY <1>1, <1>2, <1>5, <2>5, <4>1, <4>2, <4>3 DEF Sound
    <3>4. dir'["primary"] = Absent /\ dir'["tmp"] = save'.gen /\ Below(dir', save'.gen - 1)
      BY <1>3, <2>3, <2>5, <2>7, <2>13
    <3> QED
      BY <2>1, <2>3, <2>13, <3>1, <3>2, <3>3, <3>4 DEF BetweenRenames, Exists
  <2>15. BeforeDisplacing' /\ AfterRename' /\ RotationStep'
    BY <2>3
    DEF BeforeDisplacing, AfterRename, RotationStep, Committed, Undisplaced, Rotation
  <2> QED
    BY <2>11, <2>12, <2>14, <2>15 DEF Inv, Own
<1>8. ASSUME FailsForGood
      PROVE  Inv' /\ Register!Next
  BY <1>1, <1>8, FailsForGoodStep
<1> QED
  BY <1>6, <1>7, <1>8 DEF Displace

\* Commit: the temporary file becomes the primary, newer than every copy;
\* what loaded before is now the answer of its copies.
LEMMA CommitStep ==
  ASSUME Inv, Commit
  PROVE  Inv' /\ Register!Next
<1>1. save.pc = "commit" /\ Rest
  BY DEF Commit, At
<1>2. dir \in Directory /\ Sound(dir) /\ OwnDir(dir)
  BY DirSound DEF Inv, Own
<1>3. /\ dir["primary"] = Absent
      /\ Below(dir, save.gen - 1) /\ dir["tmp"] = save.gen
      /\ save.displaced = "pending" => Exists(dir, "pending") /\ Exists(dir, "bak")
  BY <1>1, Contents DEF Inv, Own, BetweenRenames, Exists
<1>4. /\ save.gen = saves /\ save.gen \in Content /\ acked \in Nat /\ acked2 \in Nat
      /\ acked2 <= acked /\ acked < save.gen
  BY <1>1, Busy
<1>5. ASSUME Rename("tmp", "primary"), Goto("sync")
      PROVE  Inv' /\ Register!Next
  <2> DEFINE e == Moved(dir, "tmp", "primary")
  <2>1. e \in Directory /\ Becomes(e) /\ faults' = faults
    BY <1>2, <1>5, MovedFacts, BecomesFacts DEF Rename, Files, Inv
  <2>2. /\ e["primary"] = save.gen
        /\ e["pending"] = dir["pending"] /\ e["bak"] = dir["bak"]
    BY <1>2, <1>3, MovedFacts DEF Files
  <2> HIDE DEF e
  <2>3. OwnDir(e) /\ Newest(e) /\ Below(e, saves)
    <3>1. OwnDir(e)
      BY <1>2, <2>1, <2>2 DEF OwnDir
    <3>2. Gen(e["primary"]) = save.gen /\ save.gen \in Nat
      BY <1>4, <2>2, GenFacts, Contents
    <3>3. \A f \in {"pending", "bak"} : Gen(e[f]) <= save.gen - 1 /\ Gen(e[f]) \in Nat
      BY <1>3, <2>2, GenFacts DEF Below, Copies
    <3> QED
      BY <1>4, <2>2, <3>1, <3>2, <3>3 DEF Newest, Below, Copies
  <2>4. Backup(e) = Value(dir) /\ Value(e) = save.gen
    <3>1. Backup(e) = Backup(dir)
      BY <2>2 DEF Backup, Exists
    <3> QED
      BY <1>2, <1>3, <1>4, <2>2, <2>3, <3>1, OwnValue, Contents
  <2>5. Sound(e) /\ (aside \/ Backup(e) >= acked)
    <3>1. Value(dir) = Backup(dir) /\ Backup(dir) \in Nat /\ Backup(dir) >= acked2
          /\ (aside \/ Value(dir) >= acked)
      BY <1>2, <1>3, OwnValue, Contents DEF Sound
    <3> QED
      BY <1>4, <2>2, <2>3, <2>4, <3>1, Contents DEF Sound
  <2>6. save' \in SaveRecords /\ save'.pc = "sync" /\ save'.gen = save.gen
        /\ save'.displaced = save.displaced /\ save'.unread = save.unread
        /\ UNCHANGED <<acked, acked2, aside>>
    BY <1>5, GotoFacts DEF Inv
  <2>7. TypeOK' /\ DiskSound' /\ SaveGeneration' /\ Register!Next
    BY <1>1, <2>1, <2>4, <2>5, <2>6, SaveGoesOn
  <2>8. dir' = e
    BY <2>1 DEF Becomes
  <2>9. AfterRename'
    BY <1>3, <2>2, <2>5, <2>6, <2>8, Contents
    DEF AfterRename, Committed, Rotation, Exists
  <2>10. BeforeDisplacing' /\ BetweenRenames' /\ RotationStep'
    BY <2>6
    DEF BeforeDisplacing, BetweenRenames, RotationStep, Undisplaced, Rotation
  <2> QED
    BY <2>7, <2>9, <2>10 DEF Inv, Own
<1>6. ASSUME Fails, Goto("rollback")
      PROVE  Inv' /\ Register!Next
  <2>1. Becomes(dir)
    BY <1>6, BecomesFacts DEF Fails, Inv
  <2>2. save' \in SaveRecords /\ save'.pc = "rollback" /\ save'.gen = save.gen
        /\ save'.displaced = save.displaced /\ save'.unread = save.unread
        /\ UNCHANGED <<acked, acked2, aside>>
    BY <1>6, GotoFacts DEF Inv
  <2>3. TypeOK' /\ DiskSound' /\ SaveGeneration' /\ Register!Next
    BY <1>1, <1>2, <1>6, <2>1, <2>2, SaveGoesOn DEF Fails
  <2>4. UNCHANGED <<dir, onDisk, acked, acked2, aside>>
    BY <1>1, <1>6, <2>2 DEF Fails
  <2>5. BetweenRenames'
    BY <1>1, <2>2, <2>4 DEF Inv, Own, BetweenRenames, Exists
  <2>6. AfterRename'
    BY <1>3, <1>4, <2>2, <2>4, Contents DEF AfterRename, Committed, Rotation
  <2>7. BeforeDisplacing' /\ RotationStep'
    BY <2>2 DEF BeforeDisplacing, RotationStep, Undisplaced, Rotation
  <2> QED
    BY <2>3, <2>5, <2>6, <2>7 DEF Inv, Own
<1> QED
  BY <1>5, <1>6 DEF Commit

\* A save that returns Ok: whatever a power loss leaves has its generation
\* as the primary, and the last acknowledged one behind it.
LEMMA OkReturn ==
  ASSUME Inv, save.pc # "idle", NEW e \in Directory, Becomes(e),
         dir["primary"] = save.gen,
         \A d \in onDisk' : /\ d \in Directory /\ Kept(d) = d
                            /\ OwnDir(d) /\ Below(d, saves) /\ Newest(d)
                            /\ d["primary"] = save.gen
                            /\ Backup(d) >= acked2
                            /\ aside \/ Backup(d) >= acked,
         ReturnOk, faults' = faults \/ Fault, Rest
  PROVE  Inv' /\ Register!Next
<1>1. /\ save' = Idle /\ acked' = save.gen /\ aside' = FALSE
      /\ acked2' = IF aside THEN acked2 ELSE acked
      /\ UNCHANGED <<saves, damage, up>>
  BY DEF ReturnOk, Rest
<1>2. /\ save.gen = saves /\ save.gen \in Content /\ save.gen \in Nat /\ save.gen # 0
      /\ acked \in Nat /\ acked < save.gen /\ acked2 \in Nat /\ acked2 <= acked
  BY Busy, Contents
<1>3. \A d \in onDisk' : Value(d) = save.gen
  BY <1>2, OwnValue
<1>4. DiskSound'
  <2>1. SUFFICES ASSUME NEW d \in onDisk' PROVE Sound(d)'
    BY DEF DiskSound
  <2>2. Backup(d) >= acked2'
    BY <1>1, <2>1
  <2>3. d["primary"] # Foreign
    BY <1>2, <2>1, Contents
  <2> QED
    BY <1>1, <1>2, <1>3, <2>1, <2>2, <2>3 DEF Sound
<1>5. TypeOK'
  <2>1. dir' \in Directory /\ onDisk' \subseteq Directory /\ Kept(dir') \in onDisk'
    BY DEF Becomes
  <2>2. acked' \in 0 .. saves /\ acked2' \in 0 .. acked' /\ aside' \in BOOLEAN
    <3>1. acked2' \in {acked, acked2} /\ aside' \in BOOLEAN
      BY <1>1, Zenon
    <3> QED
      BY <1>1, <1>2, <3>1
  <2> QED
    BY <1>1, <2>1, <2>2, SaveTypes, IdleFacts DEF Inv
<1>6. Own'
  BY <1>1, <1>4, IdleFacts
  DEF Own, SaveGeneration, BeforeDisplacing, BetweenRenames, AfterRename,
      RotationStep, Undisplaced, Committed, Rotation
<1>7. Register!Done
  <2>1. Value(dir) = save.gen
    BY <1>2, DirSound, OwnValue DEF Inv, Own
  <2>2. Value(e) = save.gen
    BY <1>3, KeptValue DEF Becomes
  <2> QED
    BY <1>1, <1>2, <1>3, <2>1, <2>2, RegisterDone DEF Inv
<1> QED
  BY <1>5, <1>6, <1>7 DEF Inv, Register!Next

\* CommitSync: the rename is on disk; the save is over, or its old primary
\* is rotated into the backup.
LEMMA CommitSyncStep ==
  ASSUME Inv, CommitSync
  PROVE  Inv' /\ Register!Next
<1>1. save.pc = "sync" /\ Rest
  BY DEF CommitSync, At
<1>2. dir \in Directory /\ Sound(dir) /\ OwnDir(dir) /\ Below(dir, saves) /\ Newest(dir)
  BY DirSound DEF Inv, Own
<1>3. /\ dir["primary"] = save.gen
      /\ aside \/ Backup(dir) >= acked
      /\ save.displaced = "pending" => Exists(dir, "pending") /\ Exists(dir, "bak")
  BY <1>1 DEF Inv, Own, AfterRename
<1>4. /\ Kept(dir) \in Directory /\ Kept(Kept(dir)) = Kept(dir)
      /\ OwnDir(Kept(dir)) /\ Below(Kept(dir), saves) /\ Newest(Kept(dir))
      /\ Kept(dir)["primary"] = save.gen
      /\ Backup(Kept(dir)) >= acked2
      /\ aside \/ Backup(Kept(dir)) >= acked
  <2>1. /\ Kept(dir) \in Directory /\ Kept(Kept(dir)) = Kept(dir)
        /\ Kept(dir)["primary"] = dir["primary"]
        /\ Kept(dir)["pending"] = dir["pending"]
        /\ Kept(dir)["bak"] = dir["bak"]
    BY <1>2, KeptFacts
  <2> QED
    BY <1>2, <1>3, <2>1, SoundReads DEF Sound
<1>5. ASSUME SyncParentDirectory, save.displaced = "pending", Goto("preserve")
      PROVE  Inv' /\ Register!Next
  <2>1. Becomes(dir) /\ onDisk' = {Kept(dir)} /\ dir' = dir /\ faults' = faults
    BY <1>5, BecomesFacts DEF Inv, SyncParentDirectory
  <2>2. save' \in SaveRecords /\ save'.pc = "preserve" /\ save'.gen = save.gen
        /\ save'.displaced = "pending" /\ save'.unread = save.unread
        /\ UNCHANGED <<acked, acked2, aside>>
    BY <1>5, GotoFacts DEF Inv
  <2>3. TypeOK' /\ DiskSound' /\ SaveGeneration' /\ Register!Next
    BY <1>1, <1>2, <2>1, <2>2, SaveGoesOn
  <2>5. AfterRename'
    BY <1>4, <2>1, <2>2 DEF AfterRename
  <2>6. BeforeDisplacing' /\ BetweenRenames'
    BY <2>2 DEF BeforeDisplacing, BetweenRenames, Undisplaced, AfterCommit
  <2>7. RotationStep'
    BY <1>3, <1>5, <2>1, <2>2 DEF RotationStep, Exists
  <2> QED
    BY <2>3, <2>5, <2>6, <2>7 DEF Inv, Own
<1>6. ASSUME SyncParentDirectory, ReturnOk
      PROVE  Inv' /\ Register!Next
  <2>1. Becomes(dir) /\ onDisk' = {Kept(dir)} /\ faults' = faults
    BY <1>6, BecomesFacts DEF Inv, SyncParentDirectory
  <2> QED
    BY <1>1, <1>2, <1>3, <1>4, <1>6, <2>1, OkReturn
<1>7. ASSUME Fails, Goto("rollback")
      PROVE  Inv' /\ Register!Next
  <2>1. Becomes(dir)
    BY <1>7, BecomesFacts DEF Fails, Inv
  <2>2. save' \in SaveRecords /\ save'.pc = "rollback" /\ save'.gen = save.gen
        /\ save'.displaced = save.displaced /\ save'.unread = save.unread
        /\ UNCHANGED <<acked, acked2, aside>>
    BY <1>7, GotoFacts DEF Inv
  <2>3. TypeOK' /\ DiskSound' /\ SaveGeneration' /\ Register!Next
    BY <1>1, <1>2, <1>7, <2>1, <2>2, SaveGoesOn DEF Fails
  <2>4. UNCHANGED <<dir, acked, aside>>
    BY <1>1, <1>7, <2>2 DEF Fails
  <2>5. AfterRename' /\ BetweenRenames'
    BY <1>3, <2>2, <2>4
    DEF AfterRename, BetweenRenames, Committed, Rotation, Exists
  <2>6. BeforeDisplacing' /\ RotationStep'
    BY <2>2 DEF BeforeDisplacing, RotationStep, Undisplaced, Rotation
  <2> QED
    BY <2>3, <2>5, <2>6 DEF Inv, Own
<1> QED
  BY <1>5, <1>6, <1>7 DEF CommitSync

\* Rollback: the displaced primary returns to its name where it can; where
\* it cannot, it is still what loads.
LEMMA RollbackStep ==
  ASSUME Inv, Rollback
  PROVE  Inv' /\ Register!Next
<1>1. save.pc = "rollback" /\ Rest /\ ReturnErr
  BY DEF Rollback, At
<1>2. dir \in Directory /\ Sound(dir) /\ OwnDir(dir) /\ Below(dir, saves)
  BY DirSound DEF Inv, Own
<1> DEFINE w == Without(dir, "tmp")
<1>3. /\ w \in Directory /\ Sound(w) /\ Value(w) = Value(dir)
      /\ \A f \in Files \ {"tmp"} : w[f] = dir[f]
  BY <1>2, WithoutTmp, WithoutFacts DEF Files
<1>4. ASSUME Change(w), faults' = faults \/ Fault
      PROVE  Inv' /\ Register!Next
  BY <1>1, <1>3, <1>4, BecomesFacts, ErrorReturn DEF Inv
<1>5. ASSUME save.displaced # Absent, ~Exists(dir, "primary"),
             Change(Moved(w, save.displaced, "primary")), faults' = faults
      PROVE  Inv' /\ Register!Next
  <2> DEFINE e == Moved(w, save.displaced, "primary")
  <2>1. save.displaced \in {"corrupt", "pending", "bak"}
    BY <1>1, <1>5, Busy DEF SaveRecords
  <2>2. save.gen \in Content /\ acked \in Nat /\ acked2 \in Nat
    BY <1>1, Busy
  <2>3. /\ dir["primary"] = Absent
        /\ save.displaced = "corrupt" =>
             \E d \in onDisk : /\ d["primary"] = dir["corrupt"]
                               /\ d["pending"] = dir["pending"]
                               /\ d["bak"] = dir["bak"]
        /\ save.displaced = "pending" =>
             /\ dir["pending"] \in Content /\ Exists(dir, "bak")
             /\ Gen(dir["bak"]) < dir["pending"]
             /\ Gen(dir["bak"]) >= acked2
        /\ save.displaced = "bak" =>
             /\ dir["bak"] \in Content /\ dir["pending"] = Absent
             /\ acked2 = 0
    BY <1>1, <1>5, <2>2, Contents DEF Inv, Own, BetweenRenames, Exists
  <2>4. e \in Directory /\ Becomes(e)
    BY <1>3, <1>5, <2>1, MovedFacts, BecomesFacts DEF Files, Inv
  <2>5. /\ e["primary"] = dir[save.displaced] /\ e[save.displaced] = Absent
        /\ \A f \in {"pending", "bak"} \ {save.displaced} : e[f] = dir[f]
    BY <1>3, <2>1, MovedFacts DEF Files
  <2> HIDE DEF e
  <2>6. CASE save.displaced = "corrupt"
    <3>1. PICK d \in onDisk : /\ d["primary"] = dir["corrupt"]
                              /\ d["pending"] = dir["pending"]
                              /\ d["bak"] = dir["bak"]
      BY <2>3, <2>6
    <3>2. d \in Directory /\ Sound(d)
      BY DEF Inv, TypeOK, Own, DiskSound
    <3>3. Sound(e) /\ Value(e) = Value(d)
      BY <2>4, <2>5, <2>6, <3>1, <3>2, SoundReads
    <3> QED
      BY <1>1, <1>5, <2>4, <3>3, ErrorReturn
  <2>7. CASE save.displaced # "corrupt"
    <3>1. e["primary"] \in Content /\ e["primary"] \in Nat /\ Gen(e["primary"]) = e["primary"]
      BY <2>1, <2>3, <2>5, <2>7, GenFacts, Contents
    <3>2. OwnDir(e)
      BY <1>2, <2>1, <2>4, <2>5, <2>7, Contents DEF OwnDir
    <3>3. Newest(e)
      BY <2>1, <2>3, <2>5, <2>7, <3>1, GenFacts, Contents DEF Newest
    <3>4. Below(e, saves)
      <4>1. \A f \in Copies : e[f] = Absent \/ \E g \in Copies : e[f] = dir[g]
        BY <2>1, <2>3, <2>5, <2>7 DEF Copies
      <4>2. saves \in Nat
        BY Contents DEF Inv, TypeOK
      <4> QED
        BY <1>2, <4>1, <4>2, GenFacts DEF Below
    <3>5. Backup(dir) = e["primary"] /\ Value(e) = Value(dir)
      <4>1. Value(dir) = Backup(dir)
        BY <1>2, <2>3, OwnValue, Contents
      <4>2. Value(e) = e["primary"]
        BY <3>1, <3>2, OwnValue
      <4>3. Backup(dir) = e["primary"]
        BY <2>1, <2>3, <2>5, <2>7, GenFacts, Contents DEF Backup, Exists
      <4> QED
        BY <4>1, <4>2, <4>3
    <3>6. Backup(e) >= acked2
      BY <2>1, <2>2, <2>3, <2>5, <2>7, GenFacts, Contents DEF Backup, Exists
    <3>7. aside \/ Value(e) >= acked
      BY <1>2, <2>3, <3>5, Contents DEF Sound
    <3>8. Sound(e)
      BY <3>1, <3>2, <3>3, <3>4, <3>6, <3>7, Contents DEF Sound
    <3> QED
      BY <1>1, <1>5, <2>4, <3>5, <3>8, ErrorReturn
  <2> QED
    BY <2>6, <2>7
<1> QED
  BY <1>4, <1>5 DEF Rollback

-----------------------------------------------------------------------------
(* The rotation of the backup                                              *)

\* What the rotation relies on, before the displacement and after the
\* commit.
LEMMA RotationFacts ==
  ASSUME Inv, save.pc \in Rotation
  PROVE  /\ save.pc # "idle"
         /\ dir \in Directory /\ Sound(dir) /\ OwnDir(dir)
         /\ Undisplaced \/ Committed
         /\ save.gen - 1 \in Nat /\ save.gen = saves
         /\ Undisplaced => Below(dir, save.gen - 1) /\ ~AfterCommit
         /\ Committed => /\ dir["primary"] = save.gen
                         /\ aside \/ Backup(dir) >= acked
<1>1. dir \in Directory /\ Sound(dir) /\ OwnDir(dir)
  BY DirSound DEF Inv, Own
<1>2. save.pc # "idle" /\ (Undisplaced \/ Committed)
      /\ save.gen - 1 \in Nat /\ save.gen = saves
  BY Busy, Contents DEF Rotation, Undisplaced, Committed
<1>3. Undisplaced => Below(dir, save.gen - 1) /\ ~AfterCommit
  BY Contents DEF Inv, Own, BeforeDisplacing, AfterCommit
<1>4. ASSUME Committed
      PROVE  /\ dir["primary"] = save.gen
             /\ aside \/ Backup(dir) >= acked
  <2>1. Kept(dir) \in onDisk
    BY DEF Inv, TypeOK
  <2>2. /\ Kept(dir)["primary"] = save.gen
        /\ aside \/ Backup(Kept(dir)) >= acked
    BY <1>4, <2>1 DEF Inv, Own, AfterRename
  <2>3. Backup(Kept(dir)) = Backup(dir) /\ Kept(dir)["primary"] = dir["primary"]
    BY <1>1, KeptFacts, SoundReads
  <2> QED
    BY <2>2, <2>3
<1> QED
  BY <1>1, <1>2, <1>3, <1>4

\* A step of the rotation that leaves the primary and the answer of its
\* copies alone.
LEMMA RotationGoesOn ==
  ASSUME Inv, save.pc \in Rotation, NEW e \in Directory, Sound(e), Becomes(e),
         e["primary"] = dir["primary"], e["tmp"] = dir["tmp"],
         Value(e) = Value(dir), Backup(e) = Backup(dir),
         Undisplaced => Below(e, save.gen - 1),
         NEW pc \in Rotation \cup {"displace"}, Goto(pc),
         pc = "displace" => ~AfterCommit,
         faults' = faults \/ Fault, Rest
  PROVE  /\ TypeOK' /\ DiskSound' /\ SaveGeneration' /\ Register!Next
         /\ BeforeDisplacing' /\ BetweenRenames' /\ AfterRename'
         /\ save'.pc = pc /\ save'.gen = save.gen
         /\ dir' = e /\ saves' = saves
         /\ Undisplaced' => Undisplaced
<1>1. /\ save.pc # "idle" /\ dir \in Directory /\ (Undisplaced \/ Committed)
      /\ Undisplaced => ~AfterCommit
      /\ Committed => /\ dir["primary"] = save.gen
                      /\ aside \/ Backup(dir) >= acked
  BY RotationFacts
<1>2. save' \in SaveRecords /\ save'.pc = pc /\ save'.gen = save.gen
      /\ save'.valid = save.valid /\ save'.unread = save.unread
        /\ save'.displaced = save.displaced
      /\ UNCHANGED <<acked, acked2, aside>>
  BY GotoFacts DEF Inv, Rotation
<1>3. TypeOK' /\ DiskSound' /\ SaveGeneration' /\ Register!Next
  BY <1>1, <1>2, SaveGoesOn DEF Rotation
<1>4. dir' = e /\ saves' = saves
  BY DEF Becomes, Rest
<1>5. AfterCommit' <=> AfterCommit
  BY <1>2 DEF AfterCommit
<1>6. Undisplaced' => Undisplaced
  BY <1>2, <1>5 DEF Undisplaced, Rotation
<1>7. BeforeDisplacing'
  <2>1. CASE Undisplaced
    BY <1>2, <1>4, <2>1, StillUndisplaced
  <2>2. CASE ~Undisplaced
    BY <1>6, <2>2 DEF BeforeDisplacing
  <2> QED
    BY <2>1, <2>2
<1>8. BetweenRenames'
  BY <1>2 DEF BetweenRenames, Rotation
<1>9. AfterRename'
  <2>1. ASSUME Committed', NEW d \in onDisk'
        PROVE  d["primary"] = save.gen /\ (aside \/ Backup(d) >= acked)
    <3>1. Committed
      BY <1>1, <1>5, <2>1 DEF Committed
    <3>2. CASE d \in onDisk
      BY <3>1, <3>2 DEF Inv, Own, AfterRename
    <3>3. CASE d = Kept(e)
      <4>1. /\ Kept(e) \in Directory /\ Kept(e)["primary"] = e["primary"]
            /\ Backup(Kept(e)) = Backup(e)
        BY KeptFacts, SoundReads
      <4> QED
        BY <1>1, <3>1, <3>3, <4>1
    <3> QED
      BY <2>1, <3>2, <3>3 DEF Becomes
  <2> QED
    BY <1>2, <1>4, <2>1 DEF AfterRename, Rotation
<1> QED
  BY <1>2, <1>3, <1>4, <1>6, <1>7, <1>8, <1>9

\* The rotation gives up: an error before the displacement, a warning after
\* the commit.
LEMMA RotationErrorStep ==
  ASSUME Inv, save.pc \in Rotation, NEW e \in Directory, Sound(e),
         e["primary"] = dir["primary"], Value(e) = Value(dir),
         Backup(e) = Backup(dir), RotationError(e),
         faults' = faults \/ Fault, Rest
  PROVE  Inv' /\ Register!Next
<1>1. /\ save.pc # "idle" /\ dir \in Directory /\ (Undisplaced \/ Committed)
      /\ Undisplaced => ~AfterCommit
      /\ Committed => /\ dir["primary"] = save.gen
                      /\ aside \/ Backup(dir) >= acked
  BY RotationFacts
<1>2. CASE ~AfterCommit
  <2> DEFINE w == Without(e, "tmp")
  <2>1. Becomes(w) /\ ReturnErr
    BY <1>2, BecomesFacts DEF RotationError, Inv
  <2>2. w \in Directory /\ Sound(w) /\ Value(w) = Value(dir)
    BY WithoutTmp
  <2> HIDE DEF w
  <2> QED
    BY <1>1, <2>1, <2>2, ErrorReturn
<1>3. CASE AfterCommit
  <2>1. Becomes(e) /\ ReturnOk
    BY <1>3, BecomesFacts DEF RotationError, Inv
  <2>2. Committed
    BY <1>1, <1>3
  <2>3. ASSUME NEW d \in onDisk'
        PROVE  /\ d \in Directory /\ Kept(d) = d
               /\ OwnDir(d) /\ Below(d, saves) /\ Newest(d)
               /\ d["primary"] = save.gen
               /\ Backup(d) >= acked2
               /\ aside \/ Backup(d) >= acked
    <3>1. CASE d \in onDisk
      BY <2>2, <3>1 DEF Inv, TypeOK, Own, DiskSound, Sound, AfterRename
    <3>2. CASE d = Kept(e)
      <4>1. /\ Kept(e) \in Directory /\ Kept(Kept(e)) = Kept(e)
            /\ Kept(e)["primary"] = e["primary"]
            /\ Backup(Kept(e)) = Backup(e) /\ Sound(Kept(e))
        BY KeptFacts, SoundReads
      <4> QED
        BY <1>1, <2>2, <3>2, <4>1 DEF Sound
    <3> QED
      BY <2>1, <3>1, <3>2 DEF Becomes
  <2> QED
    BY <1>1, <2>1, <2>2, <2>3, OkReturn
<1> QED
  BY <1>2, <1>3

\* Preserve: the old backup moves out of the way of the pending one.
LEMMA PreserveStep ==
  ASSUME Inv, Preserve
  PROVE  Inv' /\ Register!Next
<1>1. save.pc = "preserve" /\ Rest /\ save.pc \in Rotation
  BY DEF Preserve, At, Rotation
<1>2. /\ dir \in Directory /\ Sound(dir) /\ OwnDir(dir)
      /\ Undisplaced => Below(dir, save.gen - 1)
      /\ save.gen - 1 \in Nat /\ saves \in Nat
  BY <1>1, RotationFacts, Contents DEF Inv, TypeOK
<1>3. Exists(dir, "pending") /\ Exists(dir, "bak")
  BY <1>1, <1>2 DEF Inv, Own, RotationStep
<1>5. ASSUME Rename("bak", "preserved"), Goto("replace")
      PROVE  Inv' /\ Register!Next
  <2> DEFINE e == Moved(dir, "bak", "preserved")
  <2>1. e \in Directory /\ Becomes(e) /\ faults' = faults
    BY <1>2, <1>5, MovedFacts, BecomesFacts DEF Rename, Files, Inv
  <2>2. /\ e["primary"] = dir["primary"] /\ e["tmp"] = dir["tmp"]
        /\ e["pending"] = dir["pending"] /\ e["bak"] = Absent
        /\ e["preserved"] = dir["bak"]
    BY <1>2, MovedFacts DEF Files
  <2> HIDE DEF e
  <2>3. Sound(e) /\ Value(e) = Value(dir) /\ Backup(e) = Backup(dir)
    <3>1. e["bak"] # Damaged /\ Gen(e["bak"]) = 0
      BY <2>2, GenFacts, Contents
    <3> QED
      BY <1>2, <1>3, <2>1, <2>2, <3>1, BackupMoves, Contents
  <2>4. Undisplaced => Below(e, save.gen - 1)
    BY <1>2, <2>2, GenFacts DEF Below, Copies
  <2>5. /\ TypeOK' /\ DiskSound' /\ SaveGeneration' /\ Register!Next
        /\ BeforeDisplacing' /\ BetweenRenames' /\ AfterRename'
        /\ save'.pc = "replace" /\ save'.gen = save.gen /\ dir' = e
        /\ saves' = saves /\ (Undisplaced' => Undisplaced)
    BY <1>1, <1>5, <2>1, <2>2, <2>3, <2>4, RotationGoesOn DEF Rotation
  <2>6. RotationStep'
    <3>1. /\ dir["primary"] \in Content => Gen(dir["bak"]) < dir["primary"]
          /\ Gen(dir["bak"]) <= saves /\ dir["bak"] # Damaged
      BY <1>2 DEF Sound, Newest, Below, Copies, OwnDir
    <3> QED
      BY <1>3, <2>2, <2>5, <3>1 DEF RotationStep, Exists
  <2> QED
    BY <2>5, <2>6 DEF Inv, Own
<1>6. ASSUME Fault, RotationError(dir)
      PROVE  Inv' /\ Register!Next
  BY <1>1, <1>2, <1>6, RotationErrorStep
<1> QED
  BY <1>5, <1>6 DEF Preserve

\* Replace: the pending backup becomes the backup.
LEMMA ReplaceStep ==
  ASSUME Inv, Replace
  PROVE  Inv' /\ Register!Next
<1>1. save.pc = "replace" /\ Rest /\ save.pc \in Rotation
  BY DEF Replace, At, Rotation
<1>2. /\ dir \in Directory /\ Sound(dir) /\ OwnDir(dir)
      /\ Undisplaced => Below(dir, save.gen - 1)
      /\ save.gen - 1 \in Nat
  BY <1>1, RotationFacts
<1>3. Exists(dir, "pending")
  BY <1>1, <1>2 DEF Inv, Own, RotationStep
<1>4. ASSUME Rename("pending", "bak"), Goto("rotated")
      PROVE  Inv' /\ Register!Next
  <2> DEFINE e == Moved(dir, "pending", "bak")
  <2>1. e \in Directory /\ Becomes(e) /\ faults' = faults
    BY <1>2, <1>4, MovedFacts, BecomesFacts DEF Rename, Files, Inv
  <2>2. /\ e["primary"] = dir["primary"] /\ e["tmp"] = dir["tmp"]
        /\ e["pending"] = Absent /\ e["bak"] = dir["pending"]
    BY <1>2, MovedFacts DEF Files
  <2> HIDE DEF e
  <2>3. Sound(e) /\ Value(e) = Value(dir) /\ Backup(e) = Backup(dir)
    BY <1>2, <1>3, <2>1, <2>2, PendingBecomesBackup DEF Inv
  <2>4. Undisplaced => Below(e, save.gen - 1)
    BY <1>2, <2>2, GenFacts DEF Below, Copies
  <2>5. /\ TypeOK' /\ DiskSound' /\ SaveGeneration' /\ Register!Next
        /\ BeforeDisplacing' /\ BetweenRenames' /\ AfterRename'
        /\ save'.pc = "rotated" /\ dir' = e
    BY <1>1, <1>4, <2>1, <2>2, <2>3, <2>4, RotationGoesOn DEF Rotation
  <2>6. RotationStep'
    BY <2>2, <2>5 DEF RotationStep
  <2> QED
    BY <2>5, <2>6 DEF Inv, Own
<1>5. ASSUME Fails, Goto("restore")
      PROVE  Inv' /\ Register!Next
  <2>1. Becomes(dir) /\ Fault /\ dir' = dir
    BY <1>5, BecomesFacts DEF Fails, Inv
  <2>2. /\ TypeOK' /\ DiskSound' /\ SaveGeneration' /\ Register!Next
        /\ BeforeDisplacing' /\ BetweenRenames' /\ AfterRename'
        /\ save'.pc = "restore" /\ save'.gen = save.gen
        /\ saves' = saves /\ (Undisplaced' => Undisplaced)
    BY <1>1, <1>2, <1>5, <2>1, RotationGoesOn DEF Rotation
  <2>3. RotationStep'
    BY <1>1, <2>1, <2>2 DEF Inv, Own, RotationStep, Exists
  <2> QED
    BY <2>2, <2>3 DEF Inv, Own
<1> QED
  BY <1>4, <1>5 DEF Replace

\* Restore: the old backup returns to its name, or stays a stray file.
LEMMA RestoreStep ==
  ASSUME Inv, Restore
  PROVE  Inv' /\ Register!Next
<1>1. save.pc = "restore" /\ Rest /\ save.pc \in Rotation
  BY DEF Restore, At, Rotation
<1>2. dir \in Directory /\ Sound(dir) /\ OwnDir(dir)
  BY <1>1, RotationFacts
<1>3. /\ Exists(dir, "pending") /\ dir["preserved"] # Damaged
      /\ dir["primary"] \in Content => Gen(dir["preserved"]) < dir["primary"]
      /\ Gen(dir["preserved"]) <= saves
  BY <1>1, <1>2 DEF Inv, Own, RotationStep
<1>4. ASSUME RotationError(Moved(dir, "preserved", "bak")), faults' = faults
      PROVE  Inv' /\ Register!Next
  <2> DEFINE e == Moved(dir, "preserved", "bak")
  <2>1. /\ e \in Directory /\ e["primary"] = dir["primary"]
        /\ e["pending"] = dir["pending"] /\ e["bak"] = dir["preserved"]
    BY <1>2, MovedFacts DEF Files
  <2> HIDE DEF e
  <2>2. Sound(e) /\ Value(e) = Value(dir) /\ Backup(e) = Backup(dir)
    BY <1>2, <1>3, <2>1, BackupMoves
  <2>3. RotationError(e)
    BY <1>4 DEF e
  <2> QED
    BY <1>1, <1>4, <2>1, <2>2, <2>3, RotationErrorStep
<1>5. ASSUME RotationError(dir), Fault
      PROVE  Inv' /\ Register!Next
  BY <1>1, <1>2, <1>5, RotationErrorStep
<1> QED
  BY <1>4, <1>5 DEF Restore

\* Rotated: the rotation is synced, or that failed.
LEMMA RotatedStep ==
  ASSUME Inv, Rotated
  PROVE  Inv' /\ Register!Next
<1>1. save.pc = "rotated" /\ Rest /\ save.pc \in Rotation
  BY DEF Rotated, At, Rotation
<1>2. /\ dir \in Directory /\ Sound(dir) /\ OwnDir(dir)
      /\ Undisplaced => Below(dir, save.gen - 1)
  BY <1>1, RotationFacts
<1>3. ASSUME SyncParentDirectory, Goto("cleanup")
      PROVE  Inv' /\ Register!Next
  <2>1. Becomes(dir) /\ faults' = faults /\ dir' = dir
    BY <1>3, BecomesFacts DEF SyncParentDirectory, Inv
  <2>2. /\ TypeOK' /\ DiskSound' /\ SaveGeneration' /\ Register!Next
        /\ BeforeDisplacing' /\ BetweenRenames' /\ AfterRename'
        /\ save'.pc = "cleanup"
    BY <1>1, <1>2, <1>3, <2>1, RotationGoesOn DEF Rotation
  <2>3. RotationStep'
    BY <1>1, <2>1, <2>2 DEF Inv, Own, RotationStep
  <2> QED
    BY <2>2, <2>3 DEF Inv, Own
<1>4. ASSUME Fault, RotationError(dir)
      PROVE  Inv' /\ Register!Next
  BY <1>1, <1>2, <1>4, RotationErrorStep
<1> QED
  BY <1>3, <1>4 DEF Rotated

\* Cleanup: the old backup is removed, or stays a stray file.
LEMMA CleanupStep ==
  ASSUME Inv, Cleanup
  PROVE  Inv' /\ Register!Next
<1>1. save.pc = "cleanup" /\ Rest /\ save.pc \in Rotation /\ dir["pending"] = Absent
  BY DEF Cleanup, At, Rotation, Inv, Own, RotationStep
<1>2. /\ dir \in Directory /\ Sound(dir) /\ OwnDir(dir)
      /\ Undisplaced => Below(dir, save.gen - 1)
      /\ Undisplaced \/ Committed
      /\ Undisplaced => ~AfterCommit
      /\ Committed => /\ dir["primary"] = save.gen
                      /\ aside \/ Backup(dir) >= acked
  BY <1>1, RotationFacts
<1> DEFINE e == IF dir' = dir THEN dir ELSE Without(dir, "preserved")
<1>3. /\ Without(dir, "preserved") \in Directory
      /\ \A f \in {"primary", "pending", "bak", "tmp"} :
           Without(dir, "preserved")[f] = dir[f]
  BY <1>2, WithoutFacts DEF Files
<1>4. e \in Directory /\ \A f \in {"primary", "pending", "bak", "tmp"} : e[f] = dir[f]
  BY <1>2, <1>3
<1>5. Becomes(e) /\ (faults' = faults \/ Fault)
  <2>1. CASE Change(Without(dir, "preserved")) /\ faults' = faults
    <3>1. Kept(Without(dir, "preserved")) = Kept(dir)
      BY <1>2, <1>3, KeptSame
    <3> QED
      BY <2>1, <3>1, BecomesFacts DEF Inv, Change, Becomes
  <2>2. CASE Fails
    BY <2>2, BecomesFacts DEF Inv, Fails
  <2> QED
    BY <2>1, <2>2 DEF Cleanup
<1> HIDE DEF e
<1>6. /\ Sound(e) /\ Value(e) = Value(dir) /\ Backup(e) = Backup(dir)
      /\ Undisplaced => Below(e, save.gen - 1)
  BY <1>2, <1>4, SoundReads
<1>7. CASE ~AfterCommit
  <2>1. Goto("displace")
    BY <1>7 DEF Cleanup
  <2>2. /\ TypeOK' /\ DiskSound' /\ SaveGeneration' /\ Register!Next
        /\ BeforeDisplacing' /\ BetweenRenames' /\ AfterRename'
        /\ save'.pc = "displace" /\ dir' = e
    BY <1>1, <1>4, <1>5, <1>6, <1>7, <2>1, RotationGoesOn
  <2>3. RotationStep'
    BY <1>1, <1>4, <2>2 DEF RotationStep
  <2> QED
    BY <2>2, <2>3 DEF Inv, Own
<1>8. CASE AfterCommit
  <2>1. ReturnOk /\ Committed
    BY <1>2, <1>8 DEF Cleanup
  <2>2. ASSUME NEW d \in onDisk'
        PROVE  /\ d \in Directory /\ Kept(d) = d
               /\ OwnDir(d) /\ Below(d, saves) /\ Newest(d)
               /\ d["primary"] = save.gen
               /\ Backup(d) >= acked2
               /\ aside \/ Backup(d) >= acked
    <3>1. Kept(e) = Kept(dir) /\ Kept(dir) \in onDisk
      BY <1>2, <1>4, KeptSame DEF Inv, TypeOK
    <3>2. d \in onDisk
      BY <1>5, <2>2, <3>1 DEF Becomes
    <3> QED
      BY <2>1, <3>2 DEF Inv, TypeOK, Own, DiskSound, Sound, AfterRename
  <2> QED
    BY <1>1, <1>2, <1>4, <1>5, <2>1, <2>2, OkReturn
<1> QED
  BY <1>7, <1>8

-----------------------------------------------------------------------------
(* The process and its surroundings                                        *)

\* Open changes nothing on disk.
LEMMA OpenStep ==
  ASSUME Inv, Open
  PROVE  Inv' /\ UNCHANGED Register!vars
<1>1. /\ save.pc = "idle" /\ save = Idle /\ save' = Idle
      /\ up' = TRUE
      /\ UNCHANGED <<dir, onDisk, saves, acked, acked2, aside, crashes, damage>>
  BY DEF Open, Inv, Own, SaveGeneration
<1>2. faults' \in 0 .. MaxFaults
  BY BoundsAssumption DEF Open, Fault, Inv, TypeOK
<1>3. passed' \subseteq Copies
  BY DEF Open, Inv, TypeOK, Copies
<1>4. TypeOK'
  BY <1>1, <1>2, <1>3 DEF Inv, TypeOK, Copies
<1>5. Own'
  BY <1>1, IdleFacts
  DEF Inv, Own, DiskSound, Sound, SaveGeneration, BeforeDisplacing, BetweenRenames,
      AfterRename, RotationStep, Undisplaced, Committed, Rotation
<1>6. UNCHANGED Register!vars
  BY <1>1 DEF Register!vars
<1> QED
  BY <1>4, <1>5, <1>6 DEF Inv

\* Crash: one of the states on disk is left.
LEMMA CrashStep ==
  ASSUME Inv, Crash
  PROVE  Inv' /\ Register!Next
<1>1. /\ dir' \in onDisk /\ onDisk' = {dir'} /\ save' = Idle /\ up' = FALSE
      /\ crashes' = crashes + 1 /\ crashes < MaxCrashes
      /\ UNCHANGED <<saves, acked, acked2, aside, passed, faults, damage>>
  BY DEF Crash, history
<1>2. Kept(dir') = dir' /\ Sound(dir') /\ dir' \in Directory
  BY <1>1 DEF Inv, Own, DiskSound, TypeOK
<1>3. TypeOK'
  <2>1. crashes' \in 0 .. MaxCrashes
    BY <1>1, BoundsAssumption DEF Inv, TypeOK
  <2>2. save' \in SaveRecords
    BY <1>1, IdleFacts
  <2>3. onDisk' \subseteq Directory /\ Kept(dir') \in onDisk'
    BY <1>1, <1>2
  <2> QED
    BY <1>1, <1>2, <2>1, <2>2, <2>3 DEF Inv, TypeOK, SaveRecords
<1>4. DiskSound'
  BY <1>1, <1>2 DEF DiskSound, Sound
<1>5. Own'
  BY <1>1, <1>4, IdleFacts
  DEF Own, SaveGeneration, BeforeDisplacing, BetweenRenames, AfterRename,
      RotationStep, Undisplaced, Committed, Rotation
<1>6. Register!Crash
  <2>1. Value(dir)' = Value(dir')
    OBVIOUS
  <2>2. {Value(d) : d \in onDisk'} = {Value(dir')}
    BY <1>1
  <2>3. Value(dir') \in {Value(d) : d \in onDisk}
    BY <1>1
  <2>4. save'.gen = 0 /\ save'.unread = FALSE
    BY <1>1, IdleFacts
  <2> QED
    BY <1>1, <2>1, <2>2, <2>3, <2>4 DEF Register!Crash
<1> QED
  BY <1>3, <1>5, <1>6 DEF Inv, Register!Next

\* Damage: the copies answer in the place of the primary.
LEMMA DamageStep ==
  ASSUME Inv, Damage
  PROVE  Inv' /\ Register!Next
<1> DEFINE hit(d) == [f \in Files |->
                        IF d[f] = dir["primary"] THEN Damaged ELSE d[f]]
<1>1. /\ save.pc = "idle" /\ onDisk = {Kept(dir)} /\ dir["primary"] \in Content
      /\ damage < MaxDamage /\ damage' = damage + 1
      /\ dir' = hit(dir) /\ onDisk' = {hit(d) : d \in onDisk}
      /\ UNCHANGED <<up, save, saves, acked, acked2, aside, passed, faults, crashes>>
  BY DEF Damage, history
<1>2. dir \in Directory /\ Sound(dir) /\ OwnDir(dir) /\ Below(dir, saves) /\ Newest(dir)
  BY DirSound DEF Inv, Own
<1>3. save = Idle /\ save.gen = 0
  BY <1>1, IdleFacts DEF Inv, Own, SaveGeneration
<1>4. /\ Kept(dir) \in Directory /\ Kept(dir)["primary"] = dir["primary"]
      /\ Kept(dir)["pending"] = dir["pending"] /\ Kept(dir)["bak"] = dir["bak"]
      /\ \A f \in {"tmp", "preserved", "corrupt"} : Kept(dir)[f] = Absent
  BY <1>2, KeptFacts DEF Kept, Directory, Files
<1>5. /\ dir["pending"] # dir["primary"] /\ dir["bak"] # dir["primary"]
      /\ Absent # dir["primary"]
  BY <1>1, <1>2, GenFacts, Contents DEF Newest
<1>6. /\ hit(dir) \in Directory
      /\ hit(dir)["primary"] = Damaged
      /\ hit(dir)["pending"] = dir["pending"] /\ hit(dir)["bak"] = dir["bak"]
  BY <1>2, <1>5 DEF Directory, Files
<1>7. /\ hit(Kept(dir)) \in Directory
      /\ hit(Kept(dir))["primary"] = Damaged
      /\ hit(Kept(dir))["pending"] = dir["pending"]
      /\ hit(Kept(dir))["bak"] = dir["bak"]
      /\ \A f \in {"tmp", "preserved", "corrupt"} : hit(Kept(dir))[f] = Absent
  BY <1>4, <1>5 DEF Directory, Files
<1>8. onDisk' = {hit(Kept(dir))}
  BY <1>1
<1> DEFINE e == hit(dir)
           k == hit(Kept(dir))
<1>9. k \in Directory /\ e \in Directory /\ dir' = e /\ onDisk' = {k}
  BY <1>1, <1>6, <1>7, <1>8
<1>10. k["primary"] = Damaged /\ k["pending"] = dir["pending"] /\ k["bak"] = dir["bak"]
       /\ \A f \in {"tmp", "preserved", "corrupt"} : k[f] = Absent
  BY <1>7
<1>11. e["primary"] = Damaged /\ e["pending"] = dir["pending"] /\ e["bak"] = dir["bak"]
  BY <1>6
<1> HIDE DEF e, k, hit
<1>12. Kept(e) = k /\ Kept(k) = k
  <2>1. Kept(k) = k
    <3>1. \A f \in Files : Kept(k)[f] = k[f]
      BY <1>9, <1>10 DEF Kept, Directory, Files
    <3> QED
      BY <1>9, <3>1, KeptFacts DEF Directory
  <2>2. Kept(e) = Kept(k)
    BY <1>9, <1>10, <1>11, KeptSame
  <2> QED
    BY <2>1, <2>2
<1>13. OwnDir(k) /\ Below(k, saves) /\ Newest(k) /\ Backup(k) = Backup(dir)
  BY <1>2, <1>9, <1>10, GenFacts, Contents
  DEF OwnDir, Below, Newest, Backup, Copies, Exists, Inv, TypeOK
<1>14. Value(k) = Backup(dir) /\ Value(e) = Value(k)
  BY <1>9, <1>10, <1>11, <1>13, OwnValue, LoadReads, Contents
<1>15. damage' \in 0 .. MaxDamage
  BY <1>1, BoundsAssumption DEF Inv, TypeOK
<1>16. DiskSound'
  BY <1>1, <1>2, <1>9, <1>10, <1>12, <1>13, Contents DEF DiskSound, Sound
<1>17. TypeOK'
  BY <1>1, <1>9, <1>12, <1>15 DEF Inv, TypeOK
<1>18. Own'
  BY <1>1, <1>3, <1>16, IdleFacts
  DEF Inv, Own, SaveGeneration, BeforeDisplacing, BetweenRenames, AfterRename,
      RotationStep, Undisplaced, Committed, Rotation
<1>19. Register!Damage
  <2>1. Value(dir)' = Backup(dir)
    BY <1>9, <1>14
  <2>2. {Value(d) : d \in onDisk'} = {Backup(dir)}
    BY <1>9, <1>14
  <2>3. Value(dir) = dir["primary"] /\ Backup(dir) \in Nat /\ Backup(dir) <= dir["primary"]
    BY <1>1, <1>2, OwnValue, GenFacts, Contents DEF Newest, Backup
  <2>4. {Value(d) : d \in onDisk} = {Value(dir)}
    BY <1>1, <1>2, KeptValue
  <2>5. save'.gen = 0 /\ save.gen = 0 /\ save'.unread = save.unread
    BY <1>1, <1>3
  <2> QED
    BY <1>1, <2>1, <2>2, <2>3, <2>4, <2>5 DEF Register!Damage
<1> QED
  BY <1>17, <1>18, <1>19 DEF Inv, Register!Next

-----------------------------------------------------------------------------
(* Foreign state                                                           *)

\* A step of a save that leaves directory e keeps what ForeignKept says, if
\* it brings no foreign state to a name that had none.
LEMMA SaveBringsNoForeign ==
  ASSUME TypeOK, ForeignKept, up, save.pc # "idle", NEW e \in Directory, Becomes(e),
         "primary" \notin passed => e["primary"] # Foreign,
         NoForeignCopy => e["pending"] # Foreign /\ e["bak"] # Foreign,
         NoForeignCopy /\ save'.pc \in {"replace", "restore"} => e["preserved"] # Foreign,
         UNCHANGED <<up, passed>>
  PROVE  ForeignKept'
<1>1. /\ Kept(e)["primary"] = e["primary"] /\ Kept(e)["pending"] = e["pending"]
      /\ Kept(e)["bak"] = e["bak"]
  BY KeptFacts
<1>2. (\A d \in onDisk' : d \in onDisk \/ d = Kept(e)) /\ dir' = e
  BY DEF Becomes
<1>3. ASSUME "primary" \notin passed
      PROVE  \A d \in onDisk' \cup {dir'} : d["primary"] # Foreign
  <2>1. \A d \in onDisk : d["primary"] # Foreign
    BY <1>3 DEF ForeignKept
  <2> QED
    BY <1>1, <1>2, <1>3, <2>1
<1>4. ASSUME NoForeignCopy
      PROVE  NoForeignCopy'
  <2>1. \A d \in onDisk' \cup {dir'} : d["pending"] # Foreign /\ d["bak"] # Foreign
    BY <1>1, <1>2, <1>4 DEF NoForeignCopy
  <2>2. save'.pc \in {"replace", "restore"} => dir'["preserved"] # Foreign
    BY <1>2, <1>4
  <2> QED
    BY <2>1, <2>2 DEF NoForeignCopy
<1>5. \/ "primary" \in passed'
      \/ /\ \A d \in onDisk' : d["primary"] = Foreign <=> dir'["primary"] = Foreign
         /\ dir'["primary"] = Foreign => save'.pc = "idle"
  BY <1>3
<1>6. {"pending", "bak"} \subseteq passed' \/ NoForeignCopy'
  BY <1>4 DEF ForeignKept
<1> QED
  BY <1>5, <1>6 DEF ForeignKept

\* The steps of a save: what they move to a name that load reads is a copy,
\* the old primary after a check, or the new generation.
LEMMA SaveForeign ==
  ASSUME Inv, ForeignKept,
         \/ SettlePending \/ Displace \/ Commit \/ CommitSync \/ Rollback
         \/ Preserve \/ Replace \/ Restore \/ Rotated \/ Cleanup
  PROVE  ForeignKept'
<1>1. up /\ save.pc # "idle" /\ UNCHANGED <<up, passed>> /\ dir \in Directory /\ TypeOK
  BY DEF SettlePending, Displace, Commit, CommitSync, Rollback, Preserve, Replace,
         Restore, Rotated, Cleanup, At, Rest, Inv, TypeOK
<1>2. /\ "primary" \notin passed => dir["primary"] # Foreign
      /\ "primary" \notin passed => \A d \in onDisk : d["primary"] # Foreign
  BY <1>1 DEF ForeignKept
<1>3. NoForeignCopy =>
        /\ dir["pending"] # Foreign /\ dir["bak"] # Foreign
        /\ save.pc \in {"replace", "restore"} => dir["preserved"] # Foreign
  BY DEF NoForeignCopy
<1>4. save.gen \in Content /\ save.gen # Foreign
  BY <1>1, Busy, Contents
\* The files under their names: nothing is foreign that was not.
<1>5. ASSUME UNCHANGED <<dir, onDisk>>,
             save'.pc \in {"replace", "restore"} => save.pc \in {"replace", "restore"}
      PROVE  ForeignKept'
  BY <1>1, <1>2, <1>3, <1>5, SaveBringsNoForeign, BecomesFacts
<1>6. ASSUME SyncParentDirectory, save'.pc \notin {"replace", "restore"}
      PROVE  ForeignKept'
  BY <1>1, <1>2, <1>3, <1>6, SaveBringsNoForeign, BecomesFacts
<1>7. ASSUME NEW d \in Directory, Change(Without(d, "tmp")) \/ Change(d),
             "primary" \notin passed => d["primary"] # Foreign,
             NoForeignCopy => d["pending"] # Foreign /\ d["bak"] # Foreign,
             save'.pc \notin {"replace", "restore"}
      PROVE  ForeignKept'
  <2>1. PICK e \in {d, Without(d, "tmp")} : Change(e)
    BY <1>7
  <2>2. /\ Without(d, "tmp") \in Directory
        /\ \A f \in Copies : Without(d, "tmp")[f] = d[f]
    BY WithoutFacts DEF Files, Copies
  <2>3. e \in Directory /\ \A f \in Copies : e[f] = d[f]
    BY <2>1, <2>2
  <2> QED
    BY <1>1, <1>7, <2>1, <2>3, SaveBringsNoForeign, BecomesFacts DEF Copies
<1>8. ASSUME save' = Idle \/ \E pc \in {"displace", "commit", "sync", "rollback",
                                         "preserve", "rotated", "cleanup"} : Goto(pc)
      PROVE  save'.pc \notin {"replace", "restore"}
  BY <1>8, IdleFacts, GotoFacts DEF Inv
<1>9. ASSUME FailsForGood
      PROVE  ForeignKept'
  BY <1>1, <1>2, <1>3, <1>7, <1>8, <1>9 DEF FailsForGood, ReturnErr
<1>10. ASSUME NEW d \in Directory, RotationError(d),
              "primary" \notin passed => d["primary"] # Foreign,
              NoForeignCopy => d["pending"] # Foreign /\ d["bak"] # Foreign
       PROVE  ForeignKept'
  BY <1>7, <1>8, <1>10 DEF RotationError, ReturnErr, ReturnOk
<1>11. /\ Moved(dir, "pending", "bak") \in Directory
       /\ Moved(dir, "pending", "bak")["primary"] = dir["primary"]
       /\ Moved(dir, "pending", "bak")["pending"] = Absent
       /\ Moved(dir, "pending", "bak")["bak"] = dir["pending"]
  BY <1>1, MovedFacts DEF Files
<1>12. CASE SettlePending
  BY <1>2, <1>3, <1>5, <1>7, <1>8, <1>9, <1>11, <1>12, Contents DEF SettlePending, Rename
<1>13. CASE Displace
  <2> DEFINE target == IF ~save.valid THEN "corrupt"
                       ELSE IF Exists(dir, "bak") THEN "pending" ELSE "bak"
  <2>1. save.pc = "displace" /\ Undisplaced
    BY <1>13 DEF Displace, At, Undisplaced
  <2>2. save.valid => dir["primary"] # Foreign
    BY <2>1, Zenon DEF Inv, Own, BeforeDisplacing, Checked
  <2>3. target \in {"corrupt", "pending", "bak"} /\ (target # "corrupt" => save.valid)
    OBVIOUS
  <2>4. ASSUME Rename("primary", target),
               save' = [save EXCEPT !.pc = "commit", !.displaced = target]
        PROVE  ForeignKept'
    <3> DEFINE e == Moved(dir, "primary", target)
    <3>1. save'.pc = "commit"
      BY <1>1, <2>4 DEF TypeOK
    <3> HIDE DEF target
    <3>2. /\ e \in Directory /\ e["primary"] = Absent /\ e[target] = dir["primary"]
          /\ \A f \in {"pending", "bak"} \ {target} : e[f] = dir[f]
      BY <1>1, <2>3, MovedFacts DEF Files
    <3>3. Change(e)
      BY <2>4 DEF Rename
    <3> HIDE DEF e
    <3>4. NoForeignCopy => e["pending"] # Foreign /\ e["bak"] # Foreign
      <4>1. target # "corrupt" => dir["primary"] # Foreign
        BY <2>2, <2>3
      <4> QED
        BY <1>3, <2>3, <3>2, <4>1
    <3> QED
      BY <1>7, <3>1, <3>2, <3>3, <3>4, Contents
  <2>5. ASSUME Goto("commit"), UNCHANGED <<dir, onDisk, faults>>
        PROVE  ForeignKept'
    BY <1>5, <1>8, <2>5
  <2> QED
    BY <1>9, <1>13, <2>4, <2>5 DEF Displace
<1>14. CASE Commit
  <2>1. /\ Moved(dir, "tmp", "primary") \in Directory
        /\ Moved(dir, "tmp", "primary")["primary"] = dir["tmp"]
        /\ Moved(dir, "tmp", "primary")["pending"] = dir["pending"]
        /\ Moved(dir, "tmp", "primary")["bak"] = dir["bak"]
    BY <1>1, MovedFacts DEF Files
  <2>2. dir["tmp"] # Foreign
    BY <1>4, <1>14 DEF Commit, At, Inv, Own, BetweenRenames
  <2> QED
    BY <1>2, <1>3, <1>5, <1>7, <1>8, <1>14, <2>1, <2>2 DEF Commit, Rename, Fails
<1>15. CASE CommitSync
  <2>1. save'.pc \notin {"replace", "restore"}
    BY <1>8, <1>15 DEF CommitSync, ReturnOk
  <2> QED
    BY <1>5, <1>6, <1>15, <2>1 DEF CommitSync, Fails
<1>16. CASE Rollback
  <2>1. save'.pc \notin {"replace", "restore"}
    BY <1>8, <1>16 DEF Rollback, ReturnErr
  <2>2. ASSUME Change(Without(dir, "tmp"))
        PROVE  ForeignKept'
    BY <1>1, <1>2, <1>3, <1>7, <2>1, <2>2
  <2>3. ASSUME save.displaced # Absent, ~Exists(dir, "primary"),
               Change(Moved(Without(dir, "tmp"), save.displaced, "primary"))
        PROVE  ForeignKept'
    <3> DEFINE w == Without(dir, "tmp")
               e == Moved(w, save.displaced, "primary")
    <3>1. save.displaced \in {"corrupt", "pending", "bak"}
      BY <1>1, <2>3 DEF TypeOK
    <3>2. /\ save.displaced = "corrupt" => \E d \in onDisk : d["primary"] = dir["corrupt"]
          /\ save.displaced = "pending" => dir["pending"] \in Content
          /\ save.displaced = "bak" => dir["bak"] \in Content
      <4>1. save.pc = "rollback" /\ dir["primary"] # save.gen
        BY <1>4, <1>16, <2>3, Contents DEF Rollback, At, Exists
      <4> QED
        BY <4>1 DEF Inv, Own, BetweenRenames
    <3>3. w \in Directory /\ \A f \in Files \ {"tmp"} : w[f] = dir[f]
      BY <1>1, WithoutFacts DEF Files
    <3> HIDE DEF w
    <3>4. /\ e \in Directory /\ e["primary"] = dir[save.displaced]
          /\ e[save.displaced] = Absent
          /\ \A f \in {"pending", "bak"} \ {save.displaced} : e[f] = dir[f]
      BY <3>1, <3>3, MovedFacts DEF Files
    <3>5. Change(e)
      BY <2>3 DEF w
    <3> HIDE DEF e
    <3>6. "primary" \notin passed => e["primary"] # Foreign
      BY <1>2, <3>1, <3>2, <3>4, Contents
    <3>7. NoForeignCopy => e["pending"] # Foreign /\ e["bak"] # Foreign
      BY <1>3, <3>1, <3>4, Contents
    <3> QED
      BY <1>7, <2>1, <3>4, <3>5, <3>6, <3>7
  <2> QED
    BY <1>16, <2>2, <2>3 DEF Rollback
<1>17. CASE Preserve
  <2>1. /\ Moved(dir, "bak", "preserved") \in Directory
        /\ Moved(dir, "bak", "preserved")["primary"] = dir["primary"]
        /\ Moved(dir, "bak", "preserved")["pending"] = dir["pending"]
        /\ Moved(dir, "bak", "preserved")["bak"] = Absent
        /\ Moved(dir, "bak", "preserved")["preserved"] = dir["bak"]
    BY <1>1, MovedFacts DEF Files
  <2>2. ASSUME Rename("bak", "preserved")
        PROVE  ForeignKept'
    <3>1. Becomes(Moved(dir, "bak", "preserved"))
      BY <1>1, <2>2, BecomesFacts DEF Rename
    <3> QED
      BY <1>1, <1>2, <1>3, <2>1, <3>1, SaveBringsNoForeign, Contents
  <2> QED
    BY <1>1, <1>2, <1>3, <1>10, <1>17, <2>2 DEF Preserve
<1>18. CASE Replace
  <2>1. save.pc = "replace"
    BY <1>18 DEF Replace, At
  <2>2. ASSUME Rename("pending", "bak"), Goto("rotated")
        PROVE  ForeignKept'
    BY <1>2, <1>3, <1>7, <1>8, <1>11, <2>2, Contents DEF Rename
  <2> QED
    BY <1>5, <1>18, <2>1, <2>2 DEF Replace, Fails
<1>19. CASE Restore
  <2>1. /\ Moved(dir, "preserved", "bak") \in Directory
        /\ Moved(dir, "preserved", "bak")["primary"] = dir["primary"]
        /\ Moved(dir, "preserved", "bak")["pending"] = dir["pending"]
        /\ Moved(dir, "preserved", "bak")["bak"] = dir["preserved"]
    BY <1>1, MovedFacts DEF Files
  <2>2. save.pc = "restore"
    BY <1>19 DEF Restore, At
  <2> QED
    BY <1>1, <1>2, <1>3, <1>10, <1>19, <2>1, <2>2 DEF Restore
<1>20. CASE Rotated
  BY <1>1, <1>2, <1>3, <1>6, <1>8, <1>10, <1>20 DEF Rotated
<1>21. CASE Cleanup
  <2>1. save'.pc \notin {"replace", "restore"}
    BY <1>8, <1>21 DEF Cleanup, ReturnOk
  <2>2. /\ Without(dir, "preserved") \in Directory
        /\ \A f \in Copies : Without(dir, "preserved")[f] = dir[f]
    BY <1>1, WithoutFacts DEF Files, Copies
  <2> QED
    BY <1>2, <1>3, <1>5, <1>7, <1>21, <2>1, <2>2 DEF Cleanup, Fails, Copies
<1> QED
  BY <1>12, <1>13, <1>14, <1>15, <1>16, <1>17, <1>18, <1>19, <1>20, <1>21

\* A load that read every file and did not come upon the node's own state
\* first found nobody else's among the copies, or was refused.
LEMMA LoadMeetsForeign ==
  ASSUME OwnDir(dir), ~OwnFirst(dir), Load(Seen(dir, {})).kind \in {"state", "empty"}
  PROVE  dir["pending"] # Foreign /\ dir["bak"] # Foreign
<1>1. Seen(dir, {}) = dir
  BY DEF Seen, OwnDir, Directory
<1>2. LoadOne(Foreign).kind = "refused" /\ Nothing("failed").kind = "failed"
  BY Contents DEF LoadOne, Nothing
<1>3. CASE \A f \in Copies : ~Exists(dir, f)
  BY <1>3, Contents DEF Copies, Exists
<1>4. CASE Exists(dir, "primary") /\ dir["primary"] # Damaged
  <2>1. Load(dir) = LoadOne(dir["primary"])
    BY <1>4 DEF Load
  <2>2. dir["primary"] = Foreign
    BY <1>4 DEF OwnFirst, OwnDir, Directory, Files, Exists
  <2> QED
    BY <1>1, <1>2, <2>1, <2>2
<1>5. CASE ~(\A f \in Copies : ~Exists(dir, f)) /\ ~(Exists(dir, "primary") /\ dir["primary"] # Damaged)
  <2> DEFINE usable == {f \in {"pending", "bak"} : Exists(dir, f) /\ dir[f] # Damaged}
  <2>1. Load(dir) = IF usable = {} THEN Nothing("failed")
                    ELSE LoadOne(dir[IF "pending" \in usable THEN "pending" ELSE "bak"])
    BY <1>5 DEF Load, RecoverFromCopies, Copies
  <2>2. usable # {} /\ ("pending" \notin usable => "bak" \in usable)
    BY <1>1, <1>2, <2>1
  <2>3. "pending" \notin usable
    <3>1. "pending" \in usable => dir["pending"] = Foreign
      BY <1>5, Contents DEF OwnFirst, OwnDir, Directory, Files, Exists
    <3> HIDE DEF usable
    <3> QED
      BY <1>1, <1>2, <2>1, <2>2, <3>1
  <2>4. dir["pending"] # Foreign
    BY <2>3, Contents DEF Exists
  <2>5. dir["bak"] # Foreign
    <3> HIDE DEF usable
    <3> QED
      BY <1>1, <1>2, <2>1, <2>2, <2>3
  <2> QED
    BY <2>4, <2>5
<1> QED
  BY <1>3, <1>4, <1>5

\* Every step keeps what ForeignKept says, and touches foreign state only
\* where it was passed over.
LEMMA StepForeign ==
  ASSUME Inv, ForeignKept, [Next]_vars
  PROVE  /\ ForeignKept'
         /\ \A f \in Copies : dir[f] = Foreign /\ dir'[f] # Foreign => f \in passed
<1>1. CASE UNCHANGED vars
  BY <1>1 DEF vars, history, ForeignKept, NoForeignCopy
<1>2. CASE \/ SettlePending \/ Displace \/ Commit \/ CommitSync \/ Rollback
           \/ Preserve \/ Replace \/ Restore \/ Rotated \/ Cleanup
  <2>1. ForeignKept'
    BY <1>2, SaveForeign
  <2>2. up /\ save.pc # "idle"
    BY <1>2 DEF SettlePending, Displace, Commit, CommitSync, Rollback, Preserve, Replace,
                Restore, Rotated, Cleanup, At
  <2> QED
    BY <2>1, <2>2 DEF ForeignKept, NoForeignCopy, Copies
<1>3. CASE Begin
  <2>1. /\ \A f \in Copies : dir'[f] = dir[f]
        /\ \A d \in onDisk' : d \in onDisk
    <3>1. CASE Fails
      BY <3>1 DEF Fails
    <3>2. CASE \E valid, unread \in BOOLEAN : Prepare(valid, unread)
      <4> DEFINE e == [dir EXCEPT !["tmp"] = saves + 1]
      <4>1. dir \in Directory /\ saves + 1 \in Content /\ Kept(dir) \in onDisk
        BY <1>3, BoundsAssumption DEF Begin, Inv, TypeOK, Content
      <4>2. e \in Directory /\ \A f \in Copies : e[f] = dir[f]
        BY <4>1 DEF Directory, Files, Copies
      <4>3. Change(e)
        BY <3>2 DEF Prepare
      <4> HIDE DEF e
      <4>4. Kept(e) = Kept(dir)
        BY <4>1, <4>2, KeptSame DEF Copies
      <4> QED
        BY <4>1, <4>2, <4>3, <4>4 DEF Change
    <3> QED
      BY <1>3, <3>1, <3>2 DEF Begin
  <2>2. /\ up /\ up' = up /\ passed \subseteq passed'
        /\ save.pc = "idle"
    BY <1>3 DEF Begin, At
  <2>3. save'.pc \in {"idle", "pending"}
    BY <1>3, <2>2 DEF Begin, Prepare
  <2>4. save'.pc = "idle" \/ "primary" \in passed' \/ dir["primary"] # Foreign
    BY <1>3, <2>2 DEF Begin
  <2>5. NoForeignCopy => NoForeignCopy'
    BY <2>1, <2>3 DEF NoForeignCopy, Copies
  <2> QED
    BY <2>1, <2>2, <2>4, <2>5 DEF ForeignKept, Copies
<1>4. CASE Open
  <2>1. /\ ~up /\ UNCHANGED <<dir, onDisk>> /\ save.pc = "idle" /\ save' = Idle
        /\ passed \subseteq passed'
    BY <1>4 DEF Open, Inv, Own, SaveGeneration
  <2>2. {"pending", "bak"} \subseteq passed' \/ NoForeignCopy'
    <3>1. PICK unread \in SUBSET {f \in {"primary", "pending", "bak"} : Exists(dir, f)} :
             /\ Load(Seen(dir, unread)).kind \in {"state", "empty"}
             /\ passed' = IF OwnFirst(dir) \/ unread # {}
                            THEN passed \cup {"pending", "bak"} ELSE passed
      BY <1>4 DEF Open
    <3>2. CASE OwnFirst(dir) \/ unread # {}
      BY <3>1, <3>2
    <3>3. CASE ~OwnFirst(dir) /\ unread = {}
      <4>1. dir["pending"] # Foreign /\ dir["bak"] # Foreign
        BY <3>1, <3>3, LoadMeetsForeign, DirSound DEF Inv, Own
      <4>2. \A d \in onDisk : d["pending"] = dir["pending"] /\ d["bak"] = dir["bak"]
        BY <2>1 DEF ForeignKept, Copies
      <4> QED
        BY <2>1, <4>1, <4>2, IdleFacts DEF NoForeignCopy
    <3> QED
      BY <3>2, <3>3
  <2>3. up' = TRUE
    BY <1>4 DEF Open
  <2> QED
    BY <2>1, <2>2, <2>3, IdleFacts DEF ForeignKept
<1>5. CASE Crash
  <2>1. /\ up /\ dir' \in onDisk /\ onDisk' = {dir'} /\ ~up' /\ save' = Idle
        /\ passed' = passed
    BY <1>5 DEF Crash, history
  <2>2. ForeignKept'
    BY <2>1, IdleFacts DEF ForeignKept
  <2>3. \A f \in Copies : dir[f] = Foreign /\ dir'[f] # Foreign => f \in passed
    BY <2>1 DEF ForeignKept, NoForeignCopy, Copies
  <2> QED
    BY <2>2, <2>3
<1>6. CASE Damage
  <2> DEFINE hit(d) == [f \in Files |->
                          IF d[f] = dir["primary"] THEN Damaged ELSE d[f]]
  <2>1. /\ save.pc = "idle" /\ dir["primary"] \in Content
        /\ dir' = hit(dir) /\ onDisk' = {hit(d) : d \in onDisk}
        /\ UNCHANGED <<up, save, passed>>
    BY <1>6 DEF Damage, history
  <2>2. \A d : \A f \in Copies :
          /\ hit(d)[f] = IF d[f] = dir["primary"] THEN Damaged ELSE d[f]
          /\ hit(d)[f] = Foreign <=> d[f] = Foreign
    BY <2>1, Contents DEF Copies, Files
  <2> HIDE DEF hit
  <2>3. "primary" \in Copies /\ "pending" \in Copies /\ "bak" \in Copies
    BY DEF Copies
  <2>4. \A d \in onDisk' : \E c \in onDisk : d = hit(c)
    BY <2>1
  <2>5. NoForeignCopy => NoForeignCopy'
    <3>1. NoForeignCopy =>
            \A d \in onDisk' \cup {dir'} : d["pending"] # Foreign /\ d["bak"] # Foreign
      BY <2>1, <2>2, <2>3, <2>4 DEF NoForeignCopy
    <3> QED
      BY <2>1, <3>1 DEF NoForeignCopy
  <2>6. \A d \in onDisk :
          d["primary"] = Foreign => "primary" \in passed
    BY <2>1, Contents DEF ForeignKept
  <2>7. \/ "primary" \in passed'
        \/ /\ \A d \in onDisk' : d["primary"] = Foreign <=> dir'["primary"] = Foreign
           /\ dir'["primary"] = Foreign => save'.pc = "idle"
    BY <2>1, <2>2, <2>3, <2>4, <2>6, Contents
  <2>8. ~up' => \A d \in onDisk' : \A f \in Copies : d[f] = dir'[f]
    BY <2>1, <2>2, <2>4 DEF ForeignKept
  <2>9. ForeignKept'
    BY <2>1, <2>5, <2>7, <2>8 DEF ForeignKept
  <2> QED
    BY <2>1, <2>2, <2>9
<1> QED
  BY <1>1, <1>2, <1>3, <1>4, <1>5, <1>6 DEF Next

-----------------------------------------------------------------------------
(* The theorems                                                            *)

\* The initial directories.
LEMMA InitDirectory ==
  ASSUME Init
  PROVE  \E p, q, b \in Content \cup {Absent, Damaged, Foreign} :
           /\ dir \in Directory
           /\ dir["primary"] = p /\ dir["pending"] = q /\ dir["bak"] = b
           /\ p \in {Absent, Damaged, Foreign, 1}
           /\ q \in {Absent, Foreign, 1} /\ b \in {Absent, Foreign, 1}
           /\ p = 1 => q # 1 /\ b # 1
           /\ Kept(dir) = dir
<1>1. \A p, q, b \in Content \cup {Absent, Damaged, Foreign} :
        /\ Start(p, q, b) \in Directory
        /\ Start(p, q, b)["primary"] = p /\ Start(p, q, b)["pending"] = q
        /\ Start(p, q, b)["bak"] = b
        /\ \A f \in {"tmp", "preserved", "corrupt"} : Start(p, q, b)[f] = Absent
  BY DEF Start, Directory, Files
<1>2. PICK p, q, b \in Content \cup {Absent, Damaged, Foreign} :
        /\ dir = Start(p, q, b)
        /\ p \in {Absent, Damaged, Foreign, 1}
        /\ q \in {Absent, Foreign, 1} /\ b \in {Absent, Foreign, 1}
        /\ p = 1 => q # 1 /\ b # 1
  BY Contents DEF Init
<1>3. /\ dir \in Directory
      /\ dir["primary"] = p /\ dir["pending"] = q /\ dir["bak"] = b
      /\ \A f \in {"tmp", "preserved", "corrupt"} : dir[f] = Absent
  BY <1>1, <1>2
<1>4. Kept(dir) = dir
  <2>1. \A f \in Files : Kept(dir)[f] = dir[f]
    BY <1>3 DEF Kept, Directory, Files
  <2> QED
    BY <1>3, <2>1, KeptFacts DEF Directory
<1> QED
  BY <1>2, <1>3, <1>4

\* Init: whatever is in the directory, nothing is acknowledged yet.
LEMMA InitInv ==
  ASSUME Init
  PROVE  Inv
<1>1. /\ onDisk = {dir} /\ up = FALSE /\ save = Idle /\ saves = 1
      /\ acked = 0 /\ acked2 = 0 /\ aside = FALSE /\ passed = {}
      /\ faults = 0 /\ crashes = 0 /\ damage = 0
  BY DEF Init
<1>2. PICK p, q, b \in Content \cup {Absent, Damaged, Foreign} :
           /\ dir \in Directory
           /\ dir["primary"] = p /\ dir["pending"] = q /\ dir["bak"] = b
           /\ p \in {Absent, Damaged, Foreign, 1}
           /\ q \in {Absent, Foreign, 1} /\ b \in {Absent, Foreign, 1}
           /\ p = 1 => q # 1 /\ b # 1
           /\ Kept(dir) = dir
  BY InitDirectory
<1>3. TypeOK
  <2>1. save \in SaveRecords
    BY <1>1, IdleFacts
  <2>2. faults \in 0 .. MaxFaults /\ crashes \in 0 .. MaxCrashes /\ damage \in 0 .. MaxDamage
    BY <1>1, BoundsAssumption
  <2>3. saves \in Content /\ acked \in 0 .. saves /\ acked2 \in 0 .. acked
    BY <1>1, Contents
  <2>4. onDisk \subseteq Directory /\ Kept(dir) \in onDisk /\ up \in BOOLEAN
        /\ aside \in BOOLEAN /\ passed \subseteq {"primary", "pending", "bak"}
    BY <1>1, <1>2
  <2> QED
    BY <1>2, <2>1, <2>2, <2>3, <2>4 DEF TypeOK, SaveRecords
<1>4. Sound(dir)
  <2>1. OwnDir(dir)
    BY <1>2, Contents DEF OwnDir
  <2>2. Below(dir, saves) /\ Newest(dir)
    BY <1>1, <1>2, GenFacts, Contents DEF Below, Newest, Copies
  <2> QED
    BY <1>1, <2>1, <2>2, OwnValue DEF Sound
<1>5. Own
  BY <1>1, <1>2, <1>4, IdleFacts
  DEF Own, DiskSound, SaveGeneration, BeforeDisplacing, BetweenRenames, AfterRename,
      RotationStep, Undisplaced, Committed, Rotation
<1> QED
  BY <1>3, <1>5 DEF Inv

\* Every step keeps the invariant and is a step of the register or none.
LEMMA StepInv ==
  ASSUME Inv, [Next]_vars
  PROVE  Inv' /\ (Register!Next \/ UNCHANGED Register!vars)
<1>1. CASE UNCHANGED vars
  <2>1. TypeOK'
    BY <1>1 DEF vars, history, Inv, TypeOK, Kept
  <2>2. Own'
    BY <1>1
    DEF vars, history, Inv, Own, DiskSound, Sound, SaveGeneration, BeforeDisplacing,
        Checked, BetweenRenames, AfterRename, RotationStep, Undisplaced, Committed,
        AfterCommit
  <2>3. UNCHANGED Register!vars
    BY <1>1 DEF vars, history, Register!vars
  <2> QED
    BY <2>1, <2>2, <2>3 DEF Inv
<1>2. CASE Next
  BY <1>2, BeginStep, SettlePendingStep, DisplaceStep, CommitStep, CommitSyncStep,
     RollbackStep, PreserveStep, ReplaceStep, RestoreStep, RotatedStep, CleanupStep,
     OpenStep, CrashStep, DamageStep DEF Next
<1> QED
  BY <1>1, <1>2

\* The inductive invariant holds in every state.
THEOREM Invariance == Spec => []Inv
<1>1. Init => Inv
  BY InitInv
<1>2. Inv /\ [Next]_vars => Inv'
  BY StepInv
<1> QED
  BY <1>1, <1>2, PTL DEF Spec

\* The variables keep their types, and the directory the process sees is one
\* a power loss may leave (atomic_write_with_policy).
THEOREM DurableTypes == Spec => []TypeOK
<1>1. Inv => TypeOK
  BY DEF Inv
<1> QED
  BY <1>1, Invariance, PTL

\* A damaged primary costs one generation at most, at every instant of a
\* save or a rotation and after any fault, a read that fails included
\* (rotate_backup_after_commit, recover_from_copies).
THEOREM OneGenerationAtMost == Spec => []SurvivesDamage
<1>1. Inv => SurvivesDamage
  <2>1. SUFFICES ASSUME Inv, NEW d \in onDisk
                 PROVE  Value(d) >= acked2
    BY DEF SurvivesDamage
  <2>2. Sound(d) /\ OwnDir(d) /\ Newest(d)
    BY <2>1 DEF Inv, Own, DiskSound, Sound
  <2>3. /\ Backup(d) \in Nat /\ Backup(d) >= acked2 /\ acked2 \in Nat
        /\ d["primary"] = Foreign => acked2 = 0
    BY <2>1, <2>2, OwnValue, Contents DEF Inv, TypeOK, Sound
  <2>4. d["primary"] \in Content => d["primary"] \in Nat /\ Backup(d) < d["primary"]
    BY <2>2, Contents DEF Newest, Backup
  <2> QED
    BY <2>2, <2>3, <2>4, OwnValue
<1> QED
  BY <1>1, Invariance, PTL

\* State of a newer schema or of another node is left alone until a save
\* could not read it or a load passed over it (load, recover_from_copies,
\* save_current).
THEOREM ForeignLeftAlone == Spec => ForeignStateUntouched
<1>1. Init => ForeignKept
  BY DEF Init, ForeignKept, Idle
<1>2. Inv /\ ForeignKept /\ [Next]_vars => ForeignKept'
  BY StepForeign
<1>3. Inv /\ ForeignKept /\ [Next]_vars =>
        [\A f \in {"primary", "pending", "bak"} :
           dir[f] = Foreign /\ dir'[f] # Foreign => f \in passed]_vars
  BY StepForeign DEF Copies
<1> QED
  BY <1>1, <1>2, <1>3, Invariance, PTL DEF Spec, ForeignStateUntouched

\* The files implement the register: load's answer changes as one register
\* would, whatever fails and wherever the process or the machine stops
\* (load, save_current, atomic_write_with_policy).
THEOREM FilesImplementRegister == Spec => ImplementsRegister
<1>1. Init => Register!Init
  <2>1. SUFFICES ASSUME Init PROVE Register!Init
    OBVIOUS
  <2>2. Inv
    BY <2>1, InitInv
  <2>3. /\ onDisk = {dir} /\ save.gen = 0 /\ save.unread = FALSE
        /\ acked = 0 /\ damage = 0
    BY <2>1, IdleFacts DEF Init
  <2>4. Value(dir) \in Nat
    BY <2>2, DirSound, OwnValue DEF Inv, Own
  <2>5. {Value(d) : d \in onDisk} \cup ({save.gen} \ {0}) = {Value(dir)}
    BY <2>3
  <2> QED
    BY <2>3, <2>4, <2>5 DEF Register!Init
<1>2. Inv /\ [Next]_vars => [Register!Next]_(Register!vars)
  BY StepInv
<1> QED
  BY <1>1, <1>2, Invariance, PTL DEF Spec, ImplementsRegister, Register!Spec
=============================================================================
