------------------------------- MODULE Worlds -------------------------------
(***************************************************************************)
(* The world directory of one server and its backups (saves.go and the     *)
(* world functions of adapter.go).  A directory is a function from its     *)
(* files to the version of each; copyDir copies one file after another     *)
(* while the game may be saving.  The agent runs one of these jobs at a    *)
(* time and may die between any two steps.                                 *)
(***************************************************************************)
EXTENDS Naturals, Sequences, FiniteSetsExt

CONSTANTS
    Parts,          \* the files of a world, numbers in the order of filepath.Walk
    Retention,      \* retention_count of the prune job
    MaxVersion,     \* bound: the saves of the game
    NoDir, NoTask

\* A directory says what version of each of its files it has.
Directories == UNION {[S -> Nat] : S \in SUBSET Parts}
WorldJobs == [step : {"stage", "restore", "backup"}, b : Nat, todo : SUBSET Parts, dirty : BOOLEAN]

ASSUME WorldsAssumption ==
    /\ Retention \in 1 .. 100 /\ Parts \subseteq Nat /\ MaxVersion \in Nat
    /\ \A S \in SUBSET Parts : NoDir \notin [S -> Nat]
    /\ NoTask \notin WorldJobs

VARIABLES
    running,        \* the game has the world open
    version,        \* the game's last save
    world, old,     \* the world directory, its ".mastermind-restore-old" sibling
    backups,        \* the backup directories, oldest first
    job,            \* the world job under way: step, backup, files to copy
    before,         \* history: the world found by the first restore that has not succeeded
    discarded,      \* history: a further restore has removed what an earlier one had put aside
    restored        \* history: the backup restored by the last change of the world

worldVars == <<running, version, world, old, backups, job, before, discarded, restored>>

\* A running server with one backup.
WorldInit ==
    /\ running = TRUE /\ version = 0
    /\ world = [p \in Parts |-> 0]
    /\ old = NoDir /\ backups = <<world>> /\ job = NoTask
    /\ before = NoDir /\ discarded = FALSE /\ restored = NoDir

Files(dir) == IF dir = NoDir THEN {} ELSE DOMAIN dir
With(dir, p, v) == [q \in Files(dir) \cup {p} |-> IF q = p THEN v ELSE dir[q]]

\* The world that was found is in its place again, and is changed there.
Forgets(new) ==
    /\ before' = IF before = world /\ new # world THEN NoDir ELSE before
    /\ discarded' = (discarded /\ before' # NoDir)

-----------------------------------------------------------------------------
(* The game                                                                *)

\* A save of one file; a missing directory is made again.
GameSaves(p) ==
    /\ running /\ version < MaxVersion
    /\ version' = version + 1
    /\ world' = With(world, p, version')
    /\ Forgets(world')
    /\ restored' = NoDir
    /\ job' = IF job = NoTask THEN NoTask ELSE [job EXCEPT !.dirty = TRUE]
    /\ UNCHANGED <<running, old, backups>>

\* SERVER_START and SERVER_STOP as the files see them.
GameStarts == running' = TRUE /\ UNCHANGED <<version, world, old, backups, job, before, discarded, restored>>
GameStops == running' = FALSE /\ UNCHANGED <<version, world, old, backups, job, before, discarded, restored>>

\* Stop before a restore or a wipe: its error is ignored, the game may run on.
StopIgnored == running' \in {FALSE, running}

-----------------------------------------------------------------------------
(* copyDir, one file per step in the order of the walk                      *)

Doing(step) == job # NoTask /\ job.step = step
Begin(step, b, todo) == job' = [step |-> step, b |-> b, todo |-> todo, dirty |-> FALSE]
Copied(p) == job' = [job EXCEPT !.todo = @ \ {p}]
End == job' = NoTask

-----------------------------------------------------------------------------
(* RestoreSave                                                             *)

RestoreSave(b) ==
    /\ job = NoTask /\ b \in DOMAIN backups
    /\ StopIgnored
    /\ Begin("stage", b, Files(backups[b])) \/ End
    /\ UNCHANGED <<version, world, old, backups, before, discarded, restored>>

\* The leftover of an earlier restore is removed, the world is moved aside.  A leftover
\* that cannot be removed makes the rename fail, but where there is no world to rename.
StageWorld ==
    /\ Doing("stage")
    /\ before' = IF before = NoDir THEN world ELSE before
    /\ \/ /\ old' \in IF world = NoDir THEN {NoDir, old} ELSE {world}
          /\ world' = NoDir /\ restored' = NoDir
          /\ job' = [job EXCEPT !.step = "restore", !.dirty = FALSE]
       \/ /\ old' \in {old, NoDir} /\ UNCHANGED <<world, restored>>
          /\ End
    /\ discarded' = (discarded \/ (before \notin {NoDir, world} /\ old' # old))
    /\ UNCHANGED <<running, version, backups>>

RestorePart ==
    /\ Doing("restore") /\ job.todo # {}
    /\ LET p == Min(job.todo) IN world' = With(world, p, backups[job.b][p]) /\ Copied(p)
    /\ UNCHANGED <<running, version, old, backups, before, discarded, restored>>

\* The copy fails: what was copied is removed and the old world moved back;
\* neither error is looked at.
\* Mutant: the old world is removed with the copy.
RestoreFails_Tidies ==
    /\ Doing("restore")
    /\ world' = NoDir /\ old' = NoDir
    /\ End
    /\ UNCHANGED <<running, version, backups, before, discarded, restored>>

RestoreFails ==
    /\ Doing("restore")
    /\ \/ world' = old /\ old' = NoDir
       \/ world' \in {world, NoDir} /\ UNCHANGED old
    /\ End
    /\ UNCHANGED <<running, version, backups, before, discarded, restored>>

\* The directory itself is made even where the backup has no files.
RestoreDone ==
    /\ Doing("restore") /\ job.todo = {}
    /\ old' \in {old, NoDir}
    /\ before' = NoDir /\ discarded' = FALSE
    /\ restored' = IF job.dirty THEN NoDir ELSE backups[job.b]
    /\ world' = IF world = NoDir THEN << >> ELSE world
    /\ End
    /\ UNCHANGED <<running, version, backups>>

-----------------------------------------------------------------------------
(* BackupWorld: the world is copied while the game may run                  *)

BackupWorld ==
    /\ job = NoTask /\ world # NoDir
    /\ backups' = Append(backups, << >>)
    /\ Begin("backup", Len(backups'), Files(world))
    /\ UNCHANGED <<running, version, world, old, before, discarded, restored>>

\* A copy that fails ends the job and leaves what it has copied.
BackupPart ==
    /\ Doing("backup") /\ job.todo # {}
    /\ \/ /\ Min(job.todo) \in Files(world)
          /\ LET p == Min(job.todo) IN
             backups' = [backups EXCEPT ![job.b] = With(@, p, world[p])] /\ Copied(p)
       \/ End /\ UNCHANGED backups
    /\ UNCHANGED <<running, version, world, old, before, discarded, restored>>

BackupDone ==
    /\ Doing("backup") /\ job.todo = {}
    /\ End
    /\ UNCHANGED <<running, version, world, old, backups, before, discarded, restored>>

-----------------------------------------------------------------------------
(* The other world jobs                                                    *)

\* WipeWorld: removal may stop half-way.
WipeWorld ==
    /\ job = NoTask /\ StopIgnored
    /\ \E rest \in SUBSET Files(world) :
          world' = IF rest = {} THEN NoDir ELSE [p \in rest |-> world[p]]
    /\ Forgets(world')
    /\ restored' = IF world' = world THEN restored ELSE NoDir
    /\ UNCHANGED <<version, old, backups, job>>

DeleteSaveBackup(b) ==
    /\ job = NoTask /\ b \in DOMAIN backups
    /\ backups' = SubSeq(backups, 1, b - 1) \o SubSeq(backups, b + 1, Len(backups))
    /\ UNCHANGED <<running, version, world, old, job, before, discarded, restored>>

\* PruneSaveBackups goes from the newest surplus backup to the oldest and stops
\* at one it cannot remove: keep is the number of old ones left.
PruneSaveBackups ==
    /\ job = NoTask /\ Len(backups) > Retention
    /\ \E keep \in 0 .. Len(backups) - Retention - 1 :
          backups' = SubSeq(backups, 1, keep)
                     \o SubSeq(backups, Len(backups) - Retention + 1, Len(backups))
    /\ UNCHANGED <<running, version, world, old, job, before, discarded, restored>>

\* The agent dies in the middle of a job.
WorldJobDies ==
    /\ job # NoTask /\ End
    /\ UNCHANGED <<running, version, world, old, backups, before, discarded, restored>>

WorldStep ==
    \/ \E p \in Parts : GameSaves(p)
    \/ StageWorld \/ RestorePart \/ RestoreFails \/ RestoreDone
    \/ BackupPart \/ BackupDone \/ WorldJobDies

\* The jobs; GameStarts and GameStops are made by the jobs that start and stop it.
WorldJob ==
    \/ \E b \in DOMAIN backups : RestoreSave(b) \/ DeleteSaveBackup(b)
    \/ BackupWorld \/ WipeWorld \/ PruneSaveBackups
    \/ GameStarts \/ GameStops

WorldSpec == WorldInit /\ [][WorldStep \/ WorldJob]_worldVars

-----------------------------------------------------------------------------
\* RestoreSave: the world found by a restore that has not succeeded yet stays on disk,
\* in its place or beside it as ".mastermind-restore-old", whichever step fails and
\* wherever the agent dies, until a restore succeeds or, the exception, a further
\* restore is begun over what a dead or failed one left: it removes the world put aside
\* before it copies (saves.go:118).  And a restore that succeeded left exactly the files
\* of the backup, with nothing of the world before it, unless the game saved meanwhile.
WorldKept ==
    /\ before # NoDir /\ ~discarded => before \in {world, old}
    /\ restored # NoDir => world = restored
=============================================================================
