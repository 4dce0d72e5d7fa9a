------------------------------ MODULE LogTail ------------------------------
(***************************************************************************)
(* The agent's log tailer (agent/internal/logtail): it follows the file a  *)
(* path names through appends, truncation, rotation and deletion, and      *)
(* uploads what it reads in chunks, each until it is acknowledged.  The    *)
(* unit of a file is a line; lines are numbered in the order written.      *)
(***************************************************************************)
EXTENDS Integers, Sequences, SequencesExt, FiniteSetsExt

CONSTANTS
    MaxLines,       \* bound on the lines the game writes
    MaxFiles,       \* bound on the files the path names one after the other
    Chunk,          \* maxChunkSize, in lines
    InitialTail     \* initialTail, in lines

ASSUME TailAssumption ==
    MaxLines \in Nat /\ MaxFiles \in Nat \ {0} /\ Chunk \in Nat \ {0} /\ InitialTail \in Nat

VARIABLES
    written,    \* lines written so far
    files,      \* what is left of the files, in the order they were created
    path,       \* the file at the path, or 0
    tail,       \* the tailer
    acked,      \* lines whose upload was acknowledged
    taken       \* lines the tailer has read since the agent was started

fileVars == <<written, files, path>>
tailVars == <<tail, acked, taken>>

NewTailer ==
    [pc |-> "idle", file |-> 0, offset |-> 0, pending |-> <<>>, initialized |-> FALSE,
     replaced |-> FALSE, missing |-> FALSE, resetPending |-> FALSE]

TailInit ==
    /\ written = 0 /\ files = << <<>> >> /\ path = 1
    /\ tail = NewTailer
    /\ acked = {} /\ taken = {}

-----------------------------------------------------------------------------
(* The game and the host                                                   *)

WriteLine ==
    /\ path # 0 /\ written < MaxLines
    /\ written' = written + 1
    /\ files' = [files EXCEPT ![path] = Append(@, written')]
    /\ UNCHANGED <<path, tailVars>>

\* The file is renamed or deleted; one that is open can still be read.
Rotate ==
    /\ path # 0 /\ Len(files) < MaxFiles
    /\ path' = 0
    /\ UNCHANGED <<written, files, tailVars>>

CreateFile ==
    /\ path = 0
    /\ files' = Append(files, <<>>) /\ path' = Len(files')
    /\ UNCHANGED <<written, tailVars>>

Truncate ==
    /\ path # 0 /\ files[path] # <<>>
    /\ files' = [files EXCEPT ![path] = <<>>]
    /\ UNCHANGED <<written, path, tailVars>>

-----------------------------------------------------------------------------
(* The tailer                                                              *)

\* The first file after a start is read from its last initialTail on.
StartOffset == LET size == Len(files[path]) IN
    IF ~tail.initialized /\ size > InitialTail THEN size - InitialTail ELSE 0

\* open, at the begin of a step; without a file it is tried again later.
Open ==
    /\ tail.pc = "idle" /\ tail.file = 0 /\ path # 0
    /\ tail' = [NewTailer EXCEPT !.file = path, !.offset = StartOffset, !.initialized = TRUE,
                                 !.pending = tail.pending]
    /\ UNCHANGED <<fileVars, acked, taken>>

\* observePath: a file shorter than what was read of it was truncated; one
\* that is not the file at the path was replaced.
Observed ==
    [tail EXCEPT !.resetPending = @ \/ Len(files[tail.file]) < tail.offset,
                 !.missing = path = 0,
                 !.replaced = IF path = 0 THEN @ ELSE path # tail.file]

\* reset, once what was read before the truncation is uploaded.
Rewound(t) ==
    IF t.resetPending /\ t.pending = <<>> THEN [t EXCEPT !.offset = 0, !.resetPending = FALSE] ELSE t

MayRead(t) == Len(t.pending) < Chunk /\ ~t.resetPending

\* What fits into the chunk.
ReadLines(t) ==
    IF ~MayRead(t) THEN <<>>
    ELSE SubSeq(files[t.file], t.offset + 1, Min({Len(files[t.file]), t.offset + Chunk - Len(t.pending)}))

\* A chunk is due when it is full, when it has waited for batchLatency, and
\* at the end of a file that was replaced or is gone.
FlushDue(t, lines, late) ==
    \/ Len(t.pending) + Len(lines) = Chunk
    \/ t.pending # <<>> /\ (late \/ (MayRead(t) /\ lines = <<>> /\ (t.replaced \/ t.missing)))

\* step, up to the upload.
Read(late) ==
    LET t == Rewound(Observed)
        lines == ReadLines(t)
        pending == t.pending \o lines IN
    /\ tail.pc = "idle" /\ tail.file # 0
    /\ tail' = [t EXCEPT !.offset = @ + Len(lines), !.pending = pending,
                    !.pc = IF FlushDue(t, lines, late) THEN "flush"
                           ELSE IF pending = <<>> /\ t.replaced THEN "switch" ELSE "idle"]
    /\ taken' = taken \cup ToSet(lines)
    /\ UNCHANGED <<fileVars, acked>>

\* flush, when the upload was answered.
Uploaded ==
    /\ tail.pc = "upload"
    /\ acked' = acked \cup ToSet(tail.pending)
    /\ tail' = [tail EXCEPT !.pending = <<>>, !.pc = IF tail.replaced THEN "switch" ELSE "idle"]
    /\ UNCHANGED <<fileVars, taken>>

\* Mutant: a chunk is given up when its upload fails.
UploadFails_Dropped ==
    /\ tail.pc \in {"flush", "upload"}
    /\ tail' = [tail EXCEPT !.pc = "idle", !.pending = <<>>]
    /\ UNCHANGED <<fileVars, acked, taken>>

\* The upload is refused or times out: the chunk stays.
UploadFails ==
    /\ tail.pc \in {"flush", "upload"}
    /\ tail' = [tail EXCEPT !.pc = "idle"]
    /\ UNCHANGED <<fileVars, acked, taken>>

\* switchToReplacement; a path that is gone again is an error of this step.
SwitchToReplacement ==
    /\ tail.pc = "switch"
    /\ tail' = IF path = 0
               THEN [tail EXCEPT !.pc = "idle"]
               ELSE [NewTailer EXCEPT !.file = path, !.initialized = TRUE]
    /\ UNCHANGED <<fileVars, acked, taken>>

\* The agent is started again.
StopAgent ==
    /\ tail' = NewTailer
    /\ taken' = acked
    /\ UNCHANGED <<fileVars, acked>>

FileStep == WriteLine \/ Rotate \/ CreateFile \/ Truncate

=============================================================================
