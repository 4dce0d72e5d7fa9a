------------------------------ MODULE Uploads ------------------------------
(***************************************************************************)
(* Mod archives on their way to an agent: the dashboard's mod-upload and   *)
(* mod-recommend, the portal's mod-request, the job each creates and the   *)
(* archive staged for it (jobs.controller.ts, jobs.service.ts,             *)
(* agent-jobs.controller.ts); and the portal's list of mods, a request     *)
(* that waits for its own job.  The archive is removed by the request that *)
(* fails or by the result of its run: nothing else removes it.             *)
(***************************************************************************)
EXTENDS Naturals, FiniteSets

CONSTANTS UploadIds     \* uploads, each with its archive and its run

VARIABLES
    role,       \* the role of the member at the dashboard
    staged,     \* the archives in MOD_UPLOAD_DIR
    upload,     \* each upload: its kind and where its request is
    uploadRun,  \* the status of its run
    fetched,    \* uploads the agent has downloaded
    cutOff,     \* uploads whose request, result or answer was lost on the way,
                \* and runs released as stale
    waiting     \* the portal's list of mods: the request and its run

uploadVars == <<role, staged, upload, uploadRun, fetched, cutOff, waiting>>

UploadKinds == {"MOD_UPLOAD_QUARANTINE", "MOD_UPLOAD_PENDING"}
NoUpload == [kind |-> "none", pc |-> "none"]
NoWait == [pc |-> "idle", run |-> "none"]

UploadsInit ==
    /\ role \in {"operator", "viewer"}
    /\ staged = {} /\ fetched = {} /\ cutOff = {}
    /\ upload = [u \in UploadIds |-> NoUpload]
    /\ uploadRun = [u \in UploadIds |-> "none"]
    /\ waiting = NoWait

\* setAccountApproval or deleteAccount change the member while requests run.
RoleChanges ==
    /\ role' \in {"operator", "viewer", "none"}
    /\ UNCHANGED <<staged, upload, uploadRun, fetched, cutOff, waiting>>

-----------------------------------------------------------------------------
(* The request.                                                            *)

\* The guards of the two endpoints of the dashboard.
Admitted(kind) == role \in (IF kind = "MOD_UPLOAD_PENDING" THEN {"operator", "viewer"} ELSE {"operator"})

\* A good archive is written under a name of its own, before anything else.
Stages(u, kind, pc) ==
    /\ upload[u] = NoUpload
    /\ staged' = staged \cup {u}
    /\ upload' = [upload EXCEPT ![u] = [kind |-> kind, pc |-> pc]]
    /\ UNCHANGED <<role, uploadRun, fetched, cutOff, waiting>>

StageModUpload(u, kind) == Admitted(kind) /\ Stages(u, kind, "gate")

\* The portal asks for a player's session instead.
RequestMod(u) == Stages(u, "MOD_UPLOAD_PENDING", "request")

\* createJob reads the membership again.  Who has none is no viewer.
MayCreate(kind) == kind = "MOD_UPLOAD_QUARANTINE" => role = "operator"

\* Mutant: the archive of a refused request stays.
Refuse_KeepsArchive(u) ==
    /\ upload' = [upload EXCEPT ![u].pc = "over"]
    /\ UNCHANGED staged

\* The catch block: the archive goes and the error is passed on.
Refuse(u) ==
    /\ upload' = [upload EXCEPT ![u].pc = "over"]
    /\ staged' = staged \ {u}

Gate(u) ==
    /\ upload[u].pc = "gate"
    /\ IF MayCreate(upload[u].kind)
       THEN upload' = [upload EXCEPT ![u].pc = "run"] /\ UNCHANGED staged
       ELSE Refuse(u)
    /\ UNCHANGED <<role, uploadRun, fetched, cutOff, waiting>>

\* The rows of the job and its run; the server may be gone.
CreatesRows(u, known) ==
    /\ IF known
       THEN /\ uploadRun' = [uploadRun EXCEPT ![u] = "pending"]
            /\ upload' = [upload EXCEPT ![u].pc = "queue"]
            /\ UNCHANGED staged
       ELSE Refuse(u) /\ UNCHANGED uploadRun
    /\ UNCHANGED <<role, fetched, cutOff, waiting>>

CreateRun(u, known) == upload[u].pc = "run" /\ CreatesRows(u, known)
CreatePlayerModRequest(u, known) == upload[u].pc = "request" /\ CreatesRows(u, known)

AddJob(u) ==
    /\ upload[u].pc = "queue"
    /\ upload' = [upload EXCEPT ![u].pc = "over"]
    /\ uploadRun' = [uploadRun EXCEPT ![u] = "queued"]
    /\ UNCHANGED <<role, staged, fetched, cutOff, waiting>>

\* addJob throws: the job may be in the queue all the same.
AddJobFails(u, added) ==
    /\ upload[u].pc = "queue"
    /\ Refuse(u)
    /\ uploadRun' = [uploadRun EXCEPT ![u] = IF added THEN "queued" ELSE @]
    /\ cutOff' = IF added THEN cutOff \cup {u} ELSE cutOff
    /\ UNCHANGED <<role, fetched, waiting>>

\* The process dies in the middle of the request.
RequestDies(u) ==
    /\ upload[u].pc \in {"gate", "run", "request", "queue"}
    /\ upload' = [upload EXCEPT ![u].pc = "over"]
    /\ cutOff' = cutOff \cup {u}
    /\ UNCHANGED <<role, staged, uploadRun, fetched, waiting>>

-----------------------------------------------------------------------------
(* The agent.                                                              *)

RunMoves(u, from, to) == uploadRun[u] = from /\ uploadRun' = [uploadRun EXCEPT ![u] = to]

PollUpload(u) ==
    /\ RunMoves(u, "queued", "running")
    /\ UNCHANGED <<role, staged, upload, fetched, cutOff, waiting>>

\* downloadJobFile: the run is this host's; its status is not looked at.
DownloadJobFile(u) ==
    /\ uploadRun[u] \in {"running", "reported", "failed"} /\ u \in staged
    /\ fetched' = fetched \cup {u}
    /\ UNCHANGED <<role, staged, upload, uploadRun, cutOff, waiting>>

\* reportJobResult: a success needs the archive; the run is settled, then the
\* archive goes.
ReportUpload(u, ok) ==
    /\ ok => u \in fetched
    /\ RunMoves(u, "running", "reported")
    /\ UNCHANGED <<role, staged, upload, fetched, cutOff, waiting>>

RemoveArchive(u, dies) ==
    /\ RunMoves(u, "reported", "settled")
    /\ staged' = IF dies THEN staged ELSE staged \ {u}
    /\ cutOff' = IF dies THEN cutOff \cup {u} ELSE cutOff
    /\ UNCHANGED <<role, upload, fetched, waiting>>

\* failStaleRunningJobs leaves the archive where it is.
ReleaseStale(u) ==
    /\ RunMoves(u, "running", "failed")
    /\ cutOff' = cutOff \cup {u}
    /\ UNCHANGED <<role, staged, upload, fetched, waiting>>

-----------------------------------------------------------------------------
(* portalMods and waitForPortalJobData.                                    *)

\* A supporter or an administrator of that name asks; a MOD_LIST run is enqueued.
PortalMods ==
    /\ waiting.pc = "idle"
    /\ waiting' = [pc |-> "polling", run |-> "pending"]
    /\ UNCHANGED <<role, staged, upload, uploadRun, fetched, cutOff>>

ListSettles(how) ==
    /\ waiting.run = "pending"
    /\ waiting' = [waiting EXCEPT !.run = how]
    /\ UNCHANGED <<role, staged, upload, uploadRun, fetched, cutOff>>

\* The poll finds the run settled, or twenty seconds are over: the run goes on.
WaitForPortalJobData ==
    /\ waiting.pc = "polling"
    /\ waiting' = [waiting EXCEPT !.pc = IF waiting.run = "success" THEN "listed" ELSE "refused"]
    /\ UNCHANGED <<role, staged, upload, uploadRun, fetched, cutOff>>

UploadsNext ==
    \/ RoleChanges \/ PortalMods \/ WaitForPortalJobData
    \/ \E how \in {"success", "failed", "cancelled"} : ListSettles(how)
    \/ \E u \in UploadIds :
        \/ RequestMod(u) \/ \E kind \in UploadKinds : StageModUpload(u, kind)
        \/ Gate(u) \/ AddJob(u) \/ RequestDies(u)
        \/ \E known \in BOOLEAN : CreateRun(u, known) \/ CreatePlayerModRequest(u, known)
        \/ \E added \in BOOLEAN : AddJobFails(u, added)
        \/ PollUpload(u) \/ DownloadJobFile(u) \/ ReleaseStale(u)
        \/ \E ok \in BOOLEAN : ReportUpload(u, ok)
        \/ \E dies \in BOOLEAN : RemoveArchive(u, dies)

UploadsSpec == UploadsInit /\ [][UploadsNext]_uploadVars

-----------------------------------------------------------------------------
\* Between requests an archive is on the disk exactly while a run the agent may still
\* fetch it for is queued or running, and a refused request leaves neither; only what
\* was cut off on the way leaves one without the other.
ArchiveWhileNeeded ==
    \A u \in UploadIds \ cutOff :
        upload[u].pc = "over" /\ uploadRun[u] # "reported" =>
            (u \in staged <=> uploadRun[u] \in {"queued", "running"})

=============================================================================
