------------------------------ MODULE FileSink -------------------------------
(***************************************************************************)
(* The sink that writes uploads into a directory (sinks.py, filesystem).   *)
(* Each upload has a coroutine on the event loop and at most one file      *)
(* operation in a shared pool of threads; the two overlap only when the    *)
(* coroutine is cancelled under an operation.  Uploads meet in the         *)
(* directory, when their names collide, and in the pool.                   *)
(*                                                                         *)
(* A file is named by the upload that wrote it.  The directory may lose    *)
(* what was not synced when the power fails: `mayBe` holds what each name  *)
(* can refer to afterwards.                                                *)
(***************************************************************************)
EXTENDS Naturals, FiniteSets

CONSTANTS
  Uploads,    \* the uploads, which are also the files
  Names,      \* the final names
  NoFile,     \* what a name refers to when there is no such file
  Numbers,    \* the descriptor numbers the process may use for temporary files
  NoFd,       \* -1
  MaxChunks,  \* bound: the chunks of a file at most
  Threads,    \* max_threads
  Overwrite,  \* overwrite
  Fsync       \* fsync

ASSUME FileSinkAssumption ==
  /\ NoFile \notin Uploads
  /\ NoFd \notin Numbers
  /\ MaxChunks \in Nat
  /\ Threads \in Nat \ {0}
  /\ Overwrite \in BOOLEAN
  /\ Fsync \in BOOLEAN

VARIABLES
  at,       \* where the coroutine is: start, creating, reading, working, ok, failed, killed
  taken,    \* chunks read from the upload
  whole,    \* history: the iteration ended normally after `taken` chunks
  final,    \* the final name of each upload
  job,      \* the operation last submitted: `created` and then `pending`
  phase,    \* how far it is: queued, running, linked, moved, finished, raised, cancelled
  deferred, \* a discard waits for the operation to be over
  fd,       \* spool.fd, a number
  table,    \* the file each number refers to in this process
  misclosed, \* history: the uploads whose seal could not close their descriptor
  written,  \* chunks in the file
  linked,   \* spool.linked
  synced,   \* the uploads whose data cannot be lost any more
  temps,    \* the uploads whose .part file exists
  entry,    \* what each final name refers to
  mayBe,    \* what it may refer to after a power loss
  torn,     \* the files damaged by a power loss, or by another upload's thread
  outage    \* history: the uploads during or after which the process or the power failed

coroutineVars == <<at, taken, whole>>
poolVars == <<job, phase, deferred>>
numberVars == <<fd, table, misclosed>>
spoolVars == <<numberVars, written, linked, synced>>
diskVars == <<temps, entry, mayBe>>
outageVars == <<torn, outage>>
vars == <<coroutineVars, final, poolVars, spoolVars, diskVars, outageVars>>

Over(u) == phase[u] \in {"finished", "raised", "cancelled"}
InThread == {"running", "linked", "moved"}
Awaiting == {"creating", "working"}

FileSinkTypeOK ==
  /\ at \in [Uploads -> {"start", "creating", "reading", "working", "ok", "failed", "killed"}]
  /\ taken \in [Uploads -> 0..MaxChunks]
  /\ whole \in [Uploads -> BOOLEAN]
  /\ final \in [Uploads -> Names]
  /\ job \in [Uploads -> {"none", "mkstemp", "write", "seal", "commit"}]
  /\ phase \in [Uploads -> {"idle", "queued", "finished", "raised", "cancelled"} \cup InThread]
  /\ deferred \in [Uploads -> BOOLEAN]
  /\ fd \in [Uploads -> Numbers \cup {NoFd}]
  /\ table \in [Numbers -> Uploads \cup {NoFile}]
  /\ misclosed \subseteq Uploads
  /\ written \in [Uploads -> 0..MaxChunks]
  /\ linked \in [Uploads -> BOOLEAN]
  /\ synced \subseteq Uploads
  /\ temps \subseteq Uploads
  /\ entry \in [Names -> Uploads \cup {NoFile}]
  /\ mayBe \in [Names -> SUBSET (Uploads \cup {NoFile})]
  /\ torn \subseteq Uploads
  /\ outage \subseteq Uploads

Init ==
  /\ at = [u \in Uploads |-> "start"]
  /\ taken = [u \in Uploads |-> 0]
  /\ whole = [u \in Uploads |-> FALSE]
  /\ final \in [Uploads -> Names]
  /\ job = [u \in Uploads |-> "none"]
  /\ phase = [u \in Uploads |-> "idle"]
  /\ deferred = [u \in Uploads |-> FALSE]
  /\ fd = [u \in Uploads |-> NoFd]
  /\ table = [n \in Numbers |-> NoFile]
  /\ misclosed = {}
  /\ written = [u \in Uploads |-> 0]
  /\ linked = [u \in Uploads |-> FALSE]
  /\ synced = {}
  /\ temps = {}
  /\ entry = [n \in Names |-> NoFile]
  /\ mayBe = [n \in Names |-> {NoFile}]
  /\ torn = {}
  /\ outage = {}

Goes(u, place) == at' = [at EXCEPT ![u] = place]
Phase(u, p) == phase' = [phase EXCEPT ![u] = p]
Submit(u, op) == job' = [job EXCEPT ![u] = op] /\ Phase(u, "queued")

(* A final name changes at once; until the directory is synced, a power    *)
(* loss may bring back what was there.                                     *)
SetEntry(n, file) ==
  /\ entry' = [entry EXCEPT ![n] = file]
  /\ mayBe' = [mayBe EXCEPT ![n] = @ \cup {file}]

----------------------------------------------------------------------------
(* Descriptors: os.close frees the number, whichever file it refers to by  *)
(* now, and even where it raises.                                          *)
Refers(u) == IF fd[u] = NoFd THEN NoFile ELSE table[fd[u]]
Free(number) == table' = [n \in Numbers |-> IF n = number THEN NoFile ELSE table[n]]
CloseFd(u) == fd' = [fd EXCEPT ![u] = NoFd] /\ Free(fd[u]) /\ UNCHANGED misclosed

(* _Spool.discard: close the descriptor if there is a number, delete the   *)
(* temporary file, and the final one if this upload had put it there.      *)
(* Before the spool exists it finds nothing to undo.                       *)
Mutant_Discard(u) ==
  /\ CloseFd(u)
  /\ temps' = temps \ {u}
  /\ UNCHANGED <<entry, mayBe, linked, written, synced>>
Discard(u) ==
  /\ CloseFd(u)
  /\ temps' = temps \ {u}
  /\ IF linked[u] THEN SetEntry(final[u], NoFile) ELSE UNCHANGED <<entry, mayBe>>
  /\ linked' = [linked EXCEPT ![u] = FALSE]
  /\ UNCHANGED <<written, synced>>

----------------------------------------------------------------------------
(* The coroutine.                                                          *)

Begin(u) ==
  /\ at[u] = "start"
  /\ Goes(u, "creating")
  /\ Submit(u, "mkstemp")
  /\ UNCHANGED <<taken, whole, final, deferred, spoolVars, diskVars, outageVars>>

(* _final_path refuses the name, or the sink is cancelled before it runs.  *)
NeverBegins(u) ==
  /\ at[u] = "start"
  /\ Goes(u, "failed")
  /\ UNCHANGED <<taken, whole, final, poolVars, spoolVars, diskVars, outageVars>>

(* The chunk just read goes to a thread; the next is asked for only when   *)
(* it is written.                                                          *)
ReadChunk(u) ==
  /\ at[u] = "reading"
  /\ taken[u] < MaxChunks
  /\ taken' = [taken EXCEPT ![u] = @ + 1]
  /\ Goes(u, "working")
  /\ Submit(u, "write")
  /\ UNCHANGED <<whole, final, deferred, spoolVars, diskVars, outageVars>>

ReadEnd(u) ==
  /\ at[u] = "reading"
  /\ whole' = [whole EXCEPT ![u] = TRUE]
  /\ Goes(u, "working")
  /\ Submit(u, "seal")
  /\ UNCHANGED <<taken, final, deferred, spoolVars, diskVars, outageVars>>

(* UploadAborted, or a cancellation, out of the read.  No operation is in  *)
(* a thread then.                                                          *)
Mutant_ReadAborts(u) ==
  /\ at[u] = "reading"
  /\ Goes(u, "working")
  /\ Submit(u, "seal")
  /\ UNCHANGED <<taken, whole, final, deferred, spoolVars, diskVars, outageVars>>
ReadAborts(u) ==
  /\ at[u] = "reading"
  /\ Goes(u, "failed")
  /\ Discard(u)
  /\ UNCHANGED <<taken, whole, final, poolVars, outageVars>>

(* The coroutine resumes with the result of its operation.                 *)
Resumes(u) == at[u] \in Awaiting /\ phase[u] \in {"finished", "raised"}

Resume(u) ==
  /\ Resumes(u)
  /\ phase[u] = "finished"
  /\ \/ /\ job[u] \in {"mkstemp", "write"}
        /\ Goes(u, "reading")
        /\ UNCHANGED poolVars
     \/ /\ job[u] = "seal"
        /\ Submit(u, "commit")
        /\ UNCHANGED <<at, deferred>>
     \/ /\ job[u] = "commit"
        /\ Goes(u, "ok")
        /\ UNCHANGED poolVars
  /\ UNCHANGED <<taken, whole, final, spoolVars, diskVars, outageVars>>

ResumeRaised(u) ==
  /\ Resumes(u)
  /\ phase[u] = "raised"
  /\ Goes(u, "failed")
  /\ Discard(u)
  /\ UNCHANGED <<taken, whole, final, poolVars, outageVars>>

(* The gateway cancels the sink (its timeout, a shutdown) while it awaits  *)
(* an operation.  One still in the pool's queue is cancelled with it; one  *)
(* already in a thread goes on, and the discard waits for it.              *)
Mutant_CancelSink(u) ==
  /\ at[u] \in Awaiting
  /\ Goes(u, "failed")
  /\ IF phase[u] = "queued" THEN Phase(u, "cancelled") ELSE UNCHANGED phase
  /\ Discard(u)
  /\ UNCHANGED <<taken, whole, final, job, deferred, outageVars>>
CancelSink(u) ==
  /\ at[u] \in Awaiting
  /\ Goes(u, "failed")
  /\ IF phase[u] = "queued" THEN Phase(u, "cancelled") ELSE UNCHANGED phase
  /\ IF phase[u] \in InThread
       THEN deferred' = [deferred EXCEPT ![u] = TRUE] /\ UNCHANGED <<spoolVars, diskVars>>
       ELSE Discard(u) /\ UNCHANGED deferred
  /\ UNCHANGED <<taken, whole, final, job, outageVars>>

----------------------------------------------------------------------------
(* The pool's threads.                                                     *)

StartJob(u) ==
  /\ phase[u] = "queued"
  /\ Cardinality({v \in Uploads : phase[v] \in InThread}) < Threads
  /\ Phase(u, "running")
  /\ UNCHANGED <<coroutineVars, final, job, deferred, spoolVars, diskVars, outageVars>>

Running(u, op) == job[u] = op /\ phase[u] = "running"

MakeTemp(u) ==
  /\ Running(u, "mkstemp")
  /\ temps' = temps \cup {u}
  /\ \E n \in Numbers : /\ table[n] = NoFile
                        /\ table' = [table EXCEPT ![n] = u]
                        /\ fd' = [fd EXCEPT ![u] = n]
  /\ Phase(u, "finished")
  /\ UNCHANGED <<coroutineVars, final, job, deferred, misclosed, written, linked, synced, entry,
                 mayBe, outageVars>>

(* A write goes to the file its number refers to, whosever that is.        *)
Write(u) ==
  /\ Running(u, "write")
  /\ \/ Refers(u) = u /\ written' = [written EXCEPT ![u] = taken[u]] /\ UNCHANGED torn
     \/ Refers(u) \notin {u, NoFile} /\ torn' = torn \cup {Refers(u)} /\ UNCHANGED written
  /\ Phase(u, "finished")
  /\ UNCHANGED <<coroutineVars, final, job, deferred, numberVars, linked, synced, diskVars, outage>>

Seal(u) ==
  /\ Running(u, "seal")
  /\ Refers(u) # NoFile
  /\ synced' = IF Fsync THEN synced \cup {Refers(u)} ELSE synced
  /\ CloseFd(u)
  /\ Phase(u, "finished")
  /\ UNCHANGED <<coroutineVars, final, job, deferred, written, linked, diskVars, outageVars>>

(* commit: a rename, or a link that fails if the name is taken ...         *)
Mutant_Move(u) ==
  /\ Running(u, "commit")
  /\ SetEntry(final[u], u)
  /\ temps' = temps \ {u}
  /\ linked' = [linked EXCEPT ![u] = TRUE]
  /\ Phase(u, "moved")
  /\ UNCHANGED <<coroutineVars, final, job, deferred, numberVars, written, synced, outageVars>>
Move(u) ==
  /\ Running(u, "commit")
  /\ \/ Overwrite /\ temps' = temps \ {u} /\ Phase(u, "moved")
     \/ ~Overwrite /\ entry[final[u]] = NoFile /\ UNCHANGED temps /\ Phase(u, "linked")
  /\ SetEntry(final[u], u)
  /\ linked' = [linked EXCEPT ![u] = TRUE]
  /\ UNCHANGED <<coroutineVars, final, job, deferred, numberVars, written, synced, outageVars>>

(* ... after which the temporary name goes ...                             *)
UnlinkTemp(u) ==
  /\ phase[u] = "linked"
  /\ temps' = temps \ {u}
  /\ Phase(u, "moved")
  /\ UNCHANGED <<coroutineVars, final, job, deferred, spoolVars, entry, mayBe, outageVars>>

(* ... and the directory is synced.                                        *)
SyncDirectory(u) ==
  /\ phase[u] = "moved"
  /\ mayBe' = IF Fsync THEN [n \in Names |-> {entry[n]}] ELSE mayBe
  /\ Phase(u, "finished")
  /\ UNCHANGED <<coroutineVars, final, job, deferred, spoolVars, temps, entry, outageVars>>

(* Any operation may raise, a link because the name is taken.  A seal      *)
(* whose sync raises closes the descriptor even so; but one whose close    *)
(* raises skips `self.fd = -1`, and the number is closed again by discard. *)
JobRaises(u) ==
  /\ phase[u] \in InThread
  /\ Phase(u, "raised")
  /\ \/ job[u] # "seal" /\ UNCHANGED numberVars
     \/ job[u] = "seal" /\ CloseFd(u)
     \/ job[u] = "seal" /\ Free(fd[u]) /\ misclosed' = misclosed \cup {u} /\ UNCHANGED fd
  /\ UNCHANGED <<coroutineVars, final, job, deferred, written, linked, synced, diskVars,
                 outageVars>>

(* The thread that ended the operation runs the discard left for it.       *)
RunDeferred(u) ==
  /\ deferred[u]
  /\ Over(u)
  /\ deferred' = [deferred EXCEPT ![u] = FALSE]
  /\ Discard(u)
  /\ UNCHANGED <<coroutineVars, final, job, phase, outageVars>>

----------------------------------------------------------------------------
(* The process dies, with or without the machine.  Uploads not begun may   *)
(* come to the process that replaces it.                                   *)

Busy(u) == at[u] \in Awaiting \cup {"reading"} \/ deferred[u]
Begun == {u \in Uploads : at[u] # "start"}

Dies ==
  /\ at' = [u \in Uploads |-> IF at[u] \in Awaiting \cup {"reading"} THEN "killed" ELSE at[u]]
  /\ phase' = [u \in Uploads |-> IF Busy(u) THEN "idle" ELSE phase[u]]
  /\ deferred' = [u \in Uploads |-> FALSE]
  /\ fd' = [u \in Uploads |-> NoFd]
  /\ table' = [n \in Numbers |-> NoFile]

Kill ==
  /\ \E u \in Uploads : Busy(u)
  /\ Dies
  /\ outage' = outage \cup {u \in Uploads : Busy(u)}
  /\ UNCHANGED <<taken, whole, final, job, misclosed, written, linked, synced, diskVars, torn>>

(* What was not synced may be lost: a name may refer to what it did        *)
(* before, a file may lack data.  What is there after the restart stays.   *)
PowerLoss ==
  /\ Begun # {}
  /\ Dies
  /\ entry' \in {e \in [Names -> Uploads \cup {NoFile}] : \A n \in Names : e[n] \in mayBe[n]}
  /\ mayBe' = [n \in Names |-> {entry'[n]}]
  /\ \E lost \in SUBSET (Begun \ synced) : torn' = torn \cup lost
  /\ synced' = synced \cup Begun
  /\ outage' = outage \cup Begun
  /\ UNCHANGED <<taken, whole, final, job, misclosed, written, linked, temps>>

----------------------------------------------------------------------------
Coroutine(u) ==
  \/ Begin(u) \/ NeverBegins(u)
  \/ ReadChunk(u) \/ ReadEnd(u) \/ ReadAborts(u)
  \/ Resume(u) \/ ResumeRaised(u) \/ CancelSink(u)

Thread(u) ==
  \/ StartJob(u)
  \/ MakeTemp(u) \/ Write(u) \/ Seal(u)
  \/ Move(u) \/ UnlinkTemp(u) \/ SyncDirectory(u)
  \/ JobRaises(u)
  \/ RunDeferred(u)

Next ==
  \/ \E u \in Uploads : Coroutine(u) \/ Thread(u)
  \/ Kill
  \/ PowerLoss

Spec == Init /\ [][Next]_vars

(* The pool works and the event loop resumes what can run; whoever sends   *)
(* the chunks, or cancels, need not.                                       *)
Fairness == \A u \in Uploads : WF_vars(Thread(u)) /\ WF_vars(Resume(u) \/ ResumeRaised(u))
FairSpec == Spec /\ Fairness
==============================================================================
