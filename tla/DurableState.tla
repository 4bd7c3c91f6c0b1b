---------------------------- MODULE DurableState ----------------------------
(***************************************************************************)
(* The durable state of a node (gate4agent-node-core, session_registry.rs):*)
(* load, its recovery from the two copies, and save, a sequence of file    *)
(* operations (reads included) of which each may fail and between any two  *)
(* of which the process or the machine may stop.  The existence tests tell *)
(* the truth.                                                              *)
(*                                                                         *)
(* A file's content is the number of the save that wrote it, or Damaged    *)
(* (not decodable, or not valid), or Foreign (a newer schema, another      *)
(* node's state or unsupported paths: what is_authoritative_state_error    *)
(* tells apart).  Encoding, decoding of the ten schemas and validation are *)
(* abstracted to that; what save refuses to encode never reaches a file.   *)
(* Renames are those of the unix build.  After a power loss the directory  *)
(* is one of its states since it was last synced.                          *)
(***************************************************************************)
EXTENDS Naturals, FiniteSets

CONSTANTS
  Absent,      \* no such file
  Damaged,     \* a content that does not decode or is not valid
  Foreign,     \* a content that must not be overridden
  MaxSaves,    \* bound: generations
  MaxFaults,   \* bound: file operations that fail
  MaxCrashes,  \* bound: stops of the process or the machine
  MaxDamage    \* bound: files damaged from outside

ASSUME BoundsAssumption ==
  /\ {MaxSaves, MaxFaults, MaxCrashes, MaxDamage} \subseteq Nat
  /\ MaxSaves # 0

ASSUME ContentAssumption ==
  /\ {Absent, Damaged, Foreign} \cap Nat = {}
  /\ Absent # Damaged /\ Absent # Foreign /\ Damaged # Foreign
  /\ Absent \notin {"corrupt", "pending", "bak"}

VARIABLES
  dir,       \* the content of each file, as the process sees it
  onDisk,    \* the states of the directory a power loss may leave
  up,        \* a node process holds the state path and has loaded it
  save,      \* the save in progress
  saves,     \* the last generation: saves begun so far, and one before them
  acked,     \* the generation of the last save that returned Ok
  acked2,    \* the last one that a later, acknowledged save kept as a copy
  aside,     \* since the last Ok, a save took the primary for damaged
  passed,    \* where foreign state may have been passed over
  faults, crashes, damage

\* What no step of the code reads.
history == <<acked, acked2, aside, passed>>
vars == <<dir, onDisk, up, save, saves, history, faults, crashes, damage>>

Content == 1 .. MaxSaves
Files   == {"primary", "bak", "pending", "corrupt", "preserved", "tmp"}

Exists(d, f) == d[f] # Absent

-----------------------------------------------------------------------------
(* load                                                                    *)

Nothing(kind) == [kind |-> kind, gen |-> 0]

\* load_one: the generation of a file, or the class of its error.
LoadOne(c) ==
  CASE c = Damaged -> Nothing("invalid")
    [] c = Foreign -> Nothing("refused")
    [] OTHER       -> [kind |-> "state", gen |-> c]

\* Mutant: state that must not be overridden is passed over.
RecoverFromCopies_SkipsForeign(d) ==
  LET usable == {f \in {"pending", "bak"} : d[f] \in Content}
  IN  IF usable = {} THEN Nothing("failed")
      ELSE LoadOne(d[IF "pending" \in usable THEN "pending" ELSE "bak"])

\* recover_from_copies: the pending backup, then the backup; a file that
\* must not be overridden ends the search, an invalid one is skipped.
RecoverFromCopies(d) ==
  LET usable == {f \in {"pending", "bak"} : Exists(d, f) /\ d[f] # Damaged}
  IN  IF usable = {} THEN Nothing("failed")
      ELSE LoadOne(d[IF "pending" \in usable THEN "pending" ELSE "bak"])

\* load: what a process that starts gets.
Load(d) ==
  IF \A f \in {"primary", "pending", "bak"} : ~Exists(d, f) THEN Nothing("empty")
  ELSE IF Exists(d, "primary") /\ d["primary"] # Damaged THEN LoadOne(d["primary"])
  ELSE RecoverFromCopies(d)

\* The generation a load yields; 0 when it yields none.
Value(d) == Load(d).gen

-----------------------------------------------------------------------------
(* The file operations of a save                                           *)

Idle == [pc |-> "idle", gen |-> 0, valid |-> TRUE, unread |-> FALSE,
         displaced |-> Absent]

\* The directory without the files under unique names, which no load reads.
Kept(d) ==
  [d EXCEPT !["tmp"] = Absent, !["preserved"] = Absent, !["corrupt"] = Absent]

\* The directory becomes d.
Change(d) ==
  /\ dir' = d
  /\ onDisk' = onDisk \cup {Kept(d)}

Moved(d, from, to) == [d EXCEPT ![to] = d[from], ![from] = Absent]
Without(d, f) == [d EXCEPT ![f] = Absent]

Rename(from, to) == Change(Moved(dir, from, to)) /\ UNCHANGED faults

\* sync_parent_directory: a power loss no longer undoes what was done.
SyncParentDirectory ==
  /\ onDisk' = {Kept(dir)}
  /\ UNCHANGED <<dir, faults>>

\* A file operation that returns an error and changes nothing.
Fault == faults < MaxFaults /\ faults' = faults + 1
Fails == Fault /\ UNCHANGED <<dir, onDisk>>

At(pc) == up /\ save.pc = pc
Goto(pc) == save' = [save EXCEPT !.pc = pc] /\ UNCHANGED <<acked, acked2, aside>>

\* save returns Err.
ReturnErr == save' = Idle /\ UNCHANGED <<acked, acked2, aside>>

\* A file operation fails and save returns its error, the temporary file
\* removed.
FailsForGood == Fault /\ Change(Without(dir, "tmp")) /\ ReturnErr

\* save returns Ok, with or without a warning.
ReturnOk ==
  /\ save' = Idle
  /\ acked' = save.gen
  /\ acked2' = IF aside THEN acked2 ELSE acked
  /\ aside' = FALSE

Rest == UNCHANGED <<up, saves, passed, crashes, damage>>

\* The temporary file is written and synced.
Prepare(valid, unread) ==
  /\ Change([dir EXCEPT !["tmp"] = saves + 1])
  /\ save' = [pc |-> "pending", gen |-> saves + 1, valid |-> valid,
              unread |-> unread, displaced |-> Absent]
  /\ aside' = (aside \/ ~valid)

\* save_current and atomic_write up to the temporary file: validation, the
\* check of the present primary (a foreign one is refused; one that cannot be
\* read counts as damaged, whatever it holds), and the temporary file.
Begin ==
  /\ At("idle")
  /\ saves < MaxSaves
  /\ saves' = saves + 1
  /\ \/ /\ dir["primary"] # Foreign
        /\ Prepare(dir["primary"] # Damaged, FALSE)
        /\ UNCHANGED <<faults, passed>>
     \/ /\ Exists(dir, "primary")
        /\ Prepare(FALSE, TRUE)
        /\ passed' = passed \cup {"primary"}
        /\ Fault
     \/ Fails /\ UNCHANGED <<save, aside, passed>>
  /\ UNCHANGED <<up, acked, acked2, crashes, damage>>

\* A pending backup left by an earlier save goes first: it replaces the
\* backup, or becomes it.
SettlePending ==
  /\ At("pending")
  /\ \/ ~Exists(dir, "pending") /\ Goto("displace") /\ UNCHANGED <<dir, onDisk, faults>>
     \/ /\ Exists(dir, "pending") /\ Exists(dir, "bak")
        /\ Goto("preserve") /\ UNCHANGED <<dir, onDisk, faults>>
     \/ /\ Exists(dir, "pending") /\ ~Exists(dir, "bak")
        /\ \/ Rename("pending", "bak") /\ Goto("displace")
           \/ FailsForGood
  /\ Rest

\* Mutant: the new primary replaces the old one, which is not kept.
Displace_Overwrites ==
  /\ At("displace")
  /\ Goto("commit")
  /\ UNCHANGED <<dir, onDisk, faults>>
  /\ Rest

\* Mutant: the name to roll back from is the one the primary had.
Displace_WrongName ==
  /\ At("displace")
  /\ IF Exists(dir, "primary")
       THEN /\ Rename("primary", IF Exists(dir, "bak") THEN "pending" ELSE "bak")
            /\ save' = [save EXCEPT !.pc = "commit", !.displaced = "primary"]
            /\ UNCHANGED <<acked, acked2, aside>>
       ELSE Goto("commit") /\ UNCHANGED <<dir, onDisk, faults>>
  /\ Rest

\* The present primary moves aside: to a corrupt file, to the pending
\* backup, or to the backup.
Displace ==
  LET target == IF ~save.valid THEN "corrupt"
                ELSE IF Exists(dir, "bak") THEN "pending" ELSE "bak"
  IN  /\ At("displace")
      /\ \/ /\ ~Exists(dir, "primary")
            /\ Goto("commit") /\ UNCHANGED <<dir, onDisk, faults>>
         \/ /\ Exists(dir, "primary")
            /\ Rename("primary", target)
            /\ save' = [save EXCEPT !.pc = "commit", !.displaced = target]
            /\ UNCHANGED <<acked, acked2, aside>>
         \/ Exists(dir, "primary") /\ FailsForGood
      /\ Rest

\* The temporary file becomes the primary.
Commit ==
  /\ At("commit")
  /\ \/ Rename("tmp", "primary") /\ Goto("sync")
     \/ Fails /\ Goto("rollback")
  /\ Rest

\* Mutant: a failed sync counts as done.
CommitSync_Unchecked ==
  /\ At("sync")
  /\ Fails \/ SyncParentDirectory
  /\ ReturnOk
  /\ Rest

\* The directory is synced.  Then a primary that became the pending backup
\* is rotated into the backup; otherwise the save is over.
CommitSync ==
  /\ At("sync")
  /\ \/ SyncParentDirectory /\ save.displaced = "pending" /\ Goto("preserve")
     \/ SyncParentDirectory /\ save.displaced # "pending" /\ ReturnOk
     \/ Fails /\ Goto("rollback")
  /\ Rest

\* A failed commit: the temporary file goes, and the displaced primary
\* returns if there is no primary.
Rollback ==
  /\ At("rollback")
  /\ \/ /\ save.displaced # Absent /\ ~Exists(dir, "primary")
        /\ \/ /\ Change(Moved(Without(dir, "tmp"), save.displaced, "primary"))
              /\ UNCHANGED faults
           \/ Change(Without(dir, "tmp")) /\ Fault
     \/ /\ save.displaced = Absent \/ Exists(dir, "primary")
        /\ Change(Without(dir, "tmp")) /\ UNCHANGED faults
  /\ ReturnErr
  /\ Rest

-----------------------------------------------------------------------------
(* rotate_backup_after_commit and replace_file: called before the primary  *)
(* is displaced (an error ends the save) and after the commit (an error is *)
(* a warning).                                                             *)

AfterCommit == save.displaced = "pending"

\* The rotation returns Err after a last operation that leaves directory d.
RotationError(d) ==
  IF AfterCommit THEN Change(d) /\ ReturnOk
  ELSE Change(Without(d, "tmp")) /\ ReturnErr

Preserve ==
  /\ At("preserve")
  /\ \/ Rename("bak", "preserved") /\ Goto("replace")
     \/ Fault /\ RotationError(dir)
  /\ Rest

Replace ==
  /\ At("replace")
  /\ \/ Rename("pending", "bak") /\ Goto("rotated")
     \/ Fails /\ Goto("restore")
  /\ Rest

\* The second rename failed: the old backup returns to its name, or that
\* fails too.
Restore ==
  /\ At("restore")
  /\ \/ RotationError(Moved(dir, "preserved", "bak")) /\ UNCHANGED faults
     \/ RotationError(dir) /\ Fault
  /\ Rest

Rotated ==
  /\ At("rotated")
  /\ \/ SyncParentDirectory /\ Goto("cleanup")
     \/ Fault /\ RotationError(dir)
  /\ Rest

\* The old backup is removed, or stays as a stray file.
Cleanup ==
  /\ At("cleanup")
  /\ \/ Change(Without(dir, "preserved")) /\ UNCHANGED faults
     \/ Fails
  /\ IF AfterCommit THEN ReturnOk ELSE Goto("displace")
  /\ Rest

-----------------------------------------------------------------------------
(* The process and its surroundings                                        *)

\* The directory as a load sees it that fails to read some files.
Seen(d, unread) == [f \in Files |-> IF f \in unread THEN Damaged ELSE d[f]]

\* The load comes upon the node's own state before anything else.
OwnFirst(d) ==
  \/ d["primary"] \in Content
  \/ d["primary"] # Foreign /\ d["pending"] \in Content

\* A process takes the state path and loads it; it stays down when the load
\* is refused or fails.  A file that cannot be read is skipped like a damaged
\* one.
Open ==
  /\ ~up
  /\ \E unread \in SUBSET {f \in {"primary", "pending", "bak"} : Exists(dir, f)} :
       /\ Load(Seen(dir, unread)).kind \in {"state", "empty"}
       /\ passed' = IF OwnFirst(dir) \/ unread # {}
                     THEN passed \cup {"pending", "bak"} ELSE passed
       /\ IF unread = {} THEN UNCHANGED faults ELSE Fault
  /\ up' = TRUE
  /\ save' = Idle
  /\ UNCHANGED <<dir, onDisk, saves, acked, acked2, aside, crashes, damage>>

\* The process or the machine stops; the stray files it leaves are never
\* read again, their names being unique.
Crash ==
  /\ up
  /\ crashes < MaxCrashes
  /\ crashes' = crashes + 1
  /\ dir' \in onDisk
  /\ onDisk' = {dir'}
  /\ up' = FALSE
  /\ save' = Idle
  /\ UNCHANGED <<saves, history, faults, damage>>

\* External: the content of the primary is destroyed while no save runs.
Damage ==
  /\ damage < MaxDamage
  /\ save.pc = "idle"
  /\ onDisk = {Kept(dir)}
  /\ dir["primary"] \in Content
  /\ damage' = damage + 1
  /\ LET hit(d) == [f \in Files |->
                      IF d[f] = dir["primary"] THEN Damaged ELSE d[f]]
     IN  dir' = hit(dir) /\ onDisk' = {hit(d) : d \in onDisk}
  /\ UNCHANGED <<up, save, saves, history, faults, crashes>>

Start(primary, pending, bak) ==
  [f \in Files |-> CASE f = "primary" -> primary [] f = "pending" -> pending
                     [] f = "bak" -> bak [] OTHER -> Absent]

\* A directory without state, one whose only file is damaged, or one with
\* the state of somebody else beside the node's own generation 1: before it,
\* where the load meets it first, or after it.
Init ==
  /\ dir \in {Start(Absent, Absent, Absent), Start(Damaged, Absent, Absent),
              Start(Foreign, Absent, 1), Start(Damaged, Foreign, 1),
              Start(Absent, Absent, Foreign), Start(1, Absent, Foreign),
              Start(1, Foreign, Absent), Start(Damaged, 1, Foreign)}
  /\ onDisk = {dir}
  /\ up = FALSE
  /\ save = Idle
  /\ saves = 1
  /\ acked = 0 /\ acked2 = 0 /\ aside = FALSE /\ passed = {}
  /\ faults = 0 /\ crashes = 0 /\ damage = 0

Next ==
  \/ Begin \/ SettlePending \/ Displace \/ Commit \/ CommitSync \/ Rollback
  \/ Preserve \/ Replace \/ Restore \/ Rotated \/ Cleanup
  \/ Open \/ Crash \/ Damage

Spec == Init /\ [][Next]_vars

-----------------------------------------------------------------------------
(* Properties                                                              *)

Directory == [Files -> Content \cup {Absent, Damaged, Foreign}]

\* Types of the variables; the directory in memory is one a power loss may
\* leave.
TypeOK ==
  /\ dir \in Directory
  /\ onDisk \subseteq Directory
  /\ Kept(dir) \in onDisk
  /\ up \in BOOLEAN
  /\ save \in [pc : {"idle", "pending", "displace", "commit", "sync", "rollback",
                     "preserve", "replace", "restore", "rotated", "cleanup"},
               gen : Content \cup {0}, valid : BOOLEAN, unread : BOOLEAN,
               displaced : {Absent, "corrupt", "pending", "bak"}]
  /\ saves \in Content
  /\ acked \in 0 .. saves
  /\ acked2 \in 0 .. acked
  /\ aside \in BOOLEAN
  /\ passed \subseteq {"primary", "pending", "bak"}
  /\ faults \in 0 .. MaxFaults
  /\ crashes \in 0 .. MaxCrashes
  /\ damage \in 0 .. MaxDamage

\* The register that the files implement: load's answer, the answers that a
\* stop of the machine may leave, and whether the save in progress could not
\* read what it replaces.
Register == INSTANCE StateRegister
  WITH value <- Value(dir),
       possible <- {Value(d) : d \in onDisk} \cup ({save.gen} \ {0}),
       saving <- save.gen,
       doubt <- save.unread

\* Whatever file operation fails and wherever the process or the machine
\* stops, the files hold the last acknowledged generation or one being saved
\* since; only a save that could not read the primary may lose it
\* (session_registry.rs load, save_current, atomic_write_with_policy).
ImplementsRegister == Register!Spec

\* A damaged primary costs one generation at most: at every instant, in the
\* middle of a save or of a rotation, the files load the last acknowledged
\* generation that a later save kept as its copy, or a newer one.  It is the
\* predecessor of the last acknowledged one, unless a save has set that one
\* aside, damaged or only unreadable (rotate_backup_after_commit,
\* recover_from_copies).
SurvivesDamage == \A d \in onDisk : Value(d) >= acked2

\* State of a newer schema or of another node stays as it is.  A foreign
\* primary is touched only after a save that could not read it, a foreign
\* copy only after a load that found the node's own state before it or could
\* not read a file (load, recover_from_copies, save_current).
ForeignStateUntouched ==
  [][\A f \in {"primary", "pending", "bak"} :
       dir[f] = Foreign /\ dir'[f] # Foreign => f \in passed]_vars
=============================================================================
