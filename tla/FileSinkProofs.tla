---------------------------- MODULE FileSinkProofs ----------------------------
(***************************************************************************)
(* Proofs about the filesystem sink, for any number of uploads, names,     *)
(* chunks and threads.                                                     *)
(***************************************************************************)
EXTENDS FileSinkProperties, TLAPS

(* An operation may still run for the upload.                              *)
Live(u) == at[u] \in Awaiting \/ deferred[u]

Making(u) == job[u] = "mkstemp" /\ phase[u] \in {"queued", "running"}

(* What the coroutine, its operation and the descriptor know of one        *)
(* another.                                                                *)
Control(u) ==
  /\ phase[u] \in InThread \cup {"queued"} => Live(u)
  /\ deferred[u] => at[u] = "failed" /\ phase[u] \in InThread \cup {"finished", "raised"}
  /\ at[u] = "start" => job[u] = "none" /\ u \notin temps /\ fd[u] = NoFd
  /\ at[u] = "creating" => job[u] = "mkstemp"
  /\ at[u] = "reading" => job[u] \in {"mkstemp", "write"} /\ phase[u] = "finished"
  /\ at[u] = "working" => job[u] \in {"write", "seal", "commit"}
  /\ at[u] = "ok" => job[u] = "commit" /\ phase[u] = "finished"
  /\ phase[u] \in {"linked", "moved"} => job[u] = "commit"
  /\ Making(u) => fd[u] = NoFd

(* The spool has a number from the end of mkstemp to the end of seal,      *)
(* unless the upload is over.                                              *)
Descriptor(u) ==
  \/ at[u] = "reading"
  \/ /\ Live(u)
     /\ \/ job[u] = "mkstemp" /\ phase[u] = "finished"
        \/ job[u] = "write"
        \/ job[u] = "seal" /\ phase[u] \in {"queued", "running"}
  => fd[u] # NoFd

(* A number that refers to a file is the number of that file's spool, and  *)
(* a spool's number refers to its file, until some close has raised.       *)
Numbered ==
  /\ \A n \in Numbers : table[n] # NoFile => fd[table[n]] = n
  /\ misclosed = {} => \A u \in Uploads : fd[u] # NoFd => table[fd[u]] = u

(* The file holds what was read, but while a chunk is on its way; until    *)
(* some close has raised.                                                  *)
Content(u) ==
  /\ misclosed = {} => written[u] = taken[u] \/ (job[u] = "write" /\ phase[u] # "finished")
  /\ job[u] \in {"seal", "commit"} => whole[u]

(* A file is damaged only if it was not synced, and then never committed;  *)
(* until some close has raised.                                            *)
Safe(u) ==
  misclosed = {} =>
  /\ u \in torn => at[u] \in {"failed", "killed"} /\ ~deferred[u] /\ job[u] # "commit"
  /\ job[u] = "commit" \/ (job[u] = "seal" /\ phase[u] = "finished") => u \in synced

(* What discard has left behind, and what it will find.                    *)
Clean(u) ==
  /\ linked[u] => job[u] = "commit"
  /\ at[u] = "failed" /\ ~deferred[u] /\ u \notin outage =>
       ~linked[u] /\ u \notin temps /\ fd[u] = NoFd

(* Only commit gives a file a name, its own.                               *)
Naming ==
  /\ \A n \in Names : entry[n] \in mayBe[n]
  /\ \A n \in Names : \A u \in mayBe[n] \ {NoFile} : n = final[u] /\ job[u] = "commit"
  /\ \A n \in Names : entry[n] # NoFile => linked[entry[n]] \/ entry[n] \in outage

(* Without overwrite a name, once taken, is its taker's: until the discard *)
(* of that upload, or a power loss before the directory was synced.        *)
Committed(u) == job[u] = "commit" /\ phase[u] = "finished" /\ at[u] \in {"working", "ok"}
Placed(u) ==
  /\ phase[u] \in {"linked", "moved"} \/ Committed(u) => linked[u]
  /\ linked[u] /\ (Live(u) \/ at[u] = "ok") => entry[final[u]] = u
  /\ Committed(u) => mayBe[final[u]] = {u}

Base == FileSinkTypeOK /\ \A u \in Uploads : Control(u) /\ Descriptor(u) /\ Content(u) /\ Clean(u)
AllSafe == \A u \in Uploads : Safe(u)
AllPlaced == \A u \in Uploads : Placed(u)

----------------------------------------------------------------------------
(* Types.                                                                  *)
LEMMA FileSinkInit == Init => Base /\ Numbered /\ AllSafe /\ Naming /\ AllPlaced
BY FileSinkAssumption
   DEF Init, FileSinkAssumption, Base, Numbered, AllSafe, Naming, AllPlaced, FileSinkTypeOK, Control,
       Making, Live, Descriptor, Content, Clean, Safe, Placed, Committed, Awaiting, InThread

(* A close frees one number.                                               *)
LEMMA Freeing ==
  ASSUME FileSinkTypeOK, NEW number, Free(number)
  PROVE  /\ table' \in [Numbers -> Uploads \cup {NoFile}]
         /\ \A n \in Numbers : table'[n] = IF n = number THEN NoFile ELSE table[n]
BY DEF FileSinkTypeOK, Free

LEMMA Closing ==
  ASSUME FileSinkTypeOK, NEW u \in Uploads, CloseFd(u)
  PROVE  /\ fd' \in [Uploads -> Numbers \cup {NoFd}]
         /\ table' \in [Numbers -> Uploads \cup {NoFile}]
         /\ misclosed' = misclosed /\ fd'[u] = NoFd
         /\ \A v \in Uploads \ {u} : fd'[v] = fd[v]
         /\ \A n \in Numbers : table'[n] = IF n = fd[u] THEN NoFile ELSE table[n]
BY Freeing DEF FileSinkTypeOK, CloseFd

LEMMA DiscardTypes ==
  ASSUME FileSinkTypeOK, NEW u \in Uploads, Discard(u)
  PROVE  /\ fd' \in [Uploads -> Numbers \cup {NoFd}]
         /\ table' \in [Numbers -> Uploads \cup {NoFile}]
         /\ misclosed' = misclosed
         /\ linked' \in [Uploads -> BOOLEAN]
         /\ temps' \subseteq Uploads
         /\ entry' \in [Names -> Uploads \cup {NoFile}]
         /\ mayBe' \in [Names -> SUBSET (Uploads \cup {NoFile})]
<1> USE DEF FileSinkTypeOK, Discard
<1>1. /\ fd' \in [Uploads -> Numbers \cup {NoFd}]
      /\ table' \in [Numbers -> Uploads \cup {NoFile}]
      /\ misclosed' = misclosed
      /\ linked' \in [Uploads -> BOOLEAN]
      /\ temps' \subseteq Uploads
  BY Closing
<1>2. CASE linked[u] = TRUE
  BY <1>1, <1>2 DEF SetEntry
<1>3. CASE linked[u] = FALSE
  BY <1>1, <1>3
<1> QED BY <1>2, <1>3

LEMMA FileSinkTypeStep == FileSinkTypeOK /\ [Next]_vars => FileSinkTypeOK'
<1> SUFFICES ASSUME FileSinkTypeOK, [Next]_vars PROVE FileSinkTypeOK'
  OBVIOUS
<1> USE DEF FileSinkTypeOK, InThread, coroutineVars, poolVars, spoolVars, numberVars, diskVars, outageVars,
            Goes, Phase, Submit
<1>1. ASSUME NEW u \in Uploads, Begin(u) \/ NeverBegins(u) PROVE FileSinkTypeOK'
  BY <1>1 DEF Begin, NeverBegins
<1>2. ASSUME NEW u \in Uploads, ReadChunk(u) \/ ReadEnd(u) PROVE FileSinkTypeOK'
  <2>1. ReadChunk(u) => taken[u] + 1 \in 0..MaxChunks
    BY FileSinkAssumption DEF ReadChunk, FileSinkAssumption
  <2>2. ReadChunk(u) => taken' \in [Uploads -> 0..MaxChunks]
    BY <2>1 DEF ReadChunk
  <2>3. CASE ReadChunk(u)
    BY <2>2, <2>3 DEF ReadChunk
  <2>4. CASE ReadEnd(u)
    BY <2>4 DEF ReadEnd
  <2> QED BY <1>2, <2>3, <2>4
<1>3. ASSUME NEW u \in Uploads, ReadAborts(u) \/ ResumeRaised(u) PROVE FileSinkTypeOK'
  BY <1>3, DiscardTypes DEF ReadAborts, ResumeRaised, Discard
<1>4. ASSUME NEW u \in Uploads, Resume(u) PROVE FileSinkTypeOK'
  BY <1>4 DEF Resume
<1>5. ASSUME NEW u \in Uploads, CancelSink(u) PROVE FileSinkTypeOK'
  <2>1. CASE Discard(u)
    <3>1. deferred' \in [Uploads -> BOOLEAN]
      BY <1>5 DEF CancelSink
    <3>2. UNCHANGED <<written, synced>>
      BY <2>1 DEF Discard
    <3>3. at' \in [Uploads -> {"start", "creating", "reading", "working", "ok", "failed", "killed"}]
      BY <1>5 DEF CancelSink
    <3>4. phase' \in [Uploads -> {"idle", "queued", "finished", "raised", "cancelled"} \cup InThread]
      BY <1>5 DEF CancelSink
    <3> QED BY <1>5, <2>1, <3>1, <3>2, <3>3, <3>4, DiscardTypes DEF CancelSink
  <2>2. CASE UNCHANGED <<spoolVars, diskVars>>
    BY <1>5, <2>2 DEF CancelSink
  <2> QED BY <1>5, <2>1, <2>2 DEF CancelSink
<1>6. ASSUME NEW u \in Uploads, StartJob(u) \/ MakeTemp(u) \/ Write(u) PROVE FileSinkTypeOK'
  <2>1. Refers(u) \in Uploads \cup {NoFile}
    BY DEF Refers
  <2>2. CASE StartJob(u) \/ MakeTemp(u)
    BY <2>2 DEF StartJob, MakeTemp
  <2>3. CASE Write(u)
    BY <2>1, <2>3 DEF Write
  <2> QED BY <1>6, <2>2, <2>3
<1>7. ASSUME NEW u \in Uploads, Seal(u) \/ JobRaises(u) PROVE FileSinkTypeOK'
  <2>1. Refers(u) \in Uploads \cup {NoFile}
    BY DEF Refers
  <2>2. CASE Seal(u)
    <3>1. /\ fd' \in [Uploads -> Numbers \cup {NoFd}] /\ misclosed' = misclosed
          /\ table' \in [Numbers -> Uploads \cup {NoFile}]
      BY <2>2, Closing DEF Seal
    <3>2. synced' \subseteq Uploads
      BY <2>1, <2>2 DEF Seal
    <3> QED BY <2>2, <3>1, <3>2 DEF Seal
  <2>3. CASE JobRaises(u)
    <3>1. /\ fd' \in [Uploads -> Numbers \cup {NoFd}] /\ misclosed' \subseteq Uploads
          /\ table' \in [Numbers -> Uploads \cup {NoFile}]
      BY <2>3, Closing, Freeing DEF JobRaises
    <3> QED BY <2>3, <3>1 DEF JobRaises
  <2> QED BY <1>7, <2>2, <2>3
<1>8. ASSUME NEW u \in Uploads, Move(u) PROVE FileSinkTypeOK'
  BY <1>8 DEF Move, SetEntry
<1>9. ASSUME NEW u \in Uploads, UnlinkTemp(u) \/ SyncDirectory(u) PROVE FileSinkTypeOK'
  BY <1>9 DEF UnlinkTemp, SyncDirectory
<1>10. ASSUME NEW u \in Uploads, RunDeferred(u) PROVE FileSinkTypeOK'
  BY <1>10, DiscardTypes DEF RunDeferred, Discard
<1>11. ASSUME Kill PROVE FileSinkTypeOK'
  BY <1>11 DEF Kill, Dies
<1>12. ASSUME PowerLoss PROVE FileSinkTypeOK'
  BY <1>12 DEF PowerLoss, Dies, Begun
<1>13. CASE UNCHANGED vars
  BY <1>13 DEF vars
<1> QED BY <1>1, <1>2, <1>3, <1>4, <1>5, <1>6, <1>7, <1>8, <1>9, <1>10, <1>11, <1>12, <1>13
        DEF Next, Coroutine, Thread

----------------------------------------------------------------------------
(* The coroutine, its operation, its descriptor and its file.              *)
OneBase(u) == Control(u) /\ Descriptor(u) /\ Content(u) /\ Clean(u)

LEMMA BaseStep == Base /\ Numbered /\ [Next]_vars => Base'
<1> SUFFICES ASSUME Base, Numbered, [Next]_vars PROVE Base'
  OBVIOUS
<1>0. FileSinkTypeOK /\ FileSinkTypeOK'
  BY FileSinkTypeStep DEF Base
<1> SUFFICES ASSUME NEW w \in Uploads PROVE OneBase(w)'
  BY <1>0 DEF Base, OneBase
<1>w. OneBase(w)
  BY DEF Base, OneBase
<1> USE <1>0, <1>w
        DEF FileSinkTypeOK, OneBase, Control, Making, Descriptor, Content, Clean, Live, InThread, Awaiting,
            coroutineVars, poolVars, spoolVars, numberVars, diskVars, outageVars, Goes, Phase, Submit
<1>1. ASSUME NEW u \in Uploads, Begin(u) PROVE OneBase(w)'
  BY <1>1 DEF Begin
<1>2. ASSUME NEW u \in Uploads, NeverBegins(u) PROVE OneBase(w)'
  BY <1>2 DEF NeverBegins
<1>3. ASSUME NEW u \in Uploads, ReadChunk(u) PROVE OneBase(w)'
  BY <1>3 DEF ReadChunk
<1>4. ASSUME NEW u \in Uploads, ReadEnd(u) PROVE OneBase(w)'
  BY <1>4 DEF ReadEnd
<1>5. ASSUME NEW u \in Uploads, ReadAborts(u) PROVE OneBase(w)'
  BY <1>5, Closing DEF ReadAborts, Discard
<1>6. ASSUME NEW u \in Uploads, Resume(u) PROVE OneBase(w)'
  BY <1>6 DEF Resume, Resumes
<1>7. ASSUME NEW u \in Uploads, ResumeRaised(u) PROVE OneBase(w)'
  BY <1>7, Closing DEF ResumeRaised, Resumes, Discard
<1>8. ASSUME NEW u \in Uploads, CancelSink(u) PROVE OneBase(w)'
  BY <1>8, Closing DEF CancelSink, Discard
<1>9. ASSUME NEW u \in Uploads, StartJob(u) PROVE OneBase(w)'
  BY <1>9 DEF StartJob
<1>10. ASSUME NEW u \in Uploads, MakeTemp(u) PROVE OneBase(w)'
  <2>1. PICK m \in Numbers : fd' = [fd EXCEPT ![u] = m]
    BY <1>10 DEF MakeTemp
  <2>2. m # NoFd
    BY FileSinkAssumption DEF FileSinkAssumption
  <2>3. /\ job[u] = "mkstemp" /\ phase[u] = "running" /\ phase' = [phase EXCEPT ![u] = "finished"]
        /\ temps' = temps \cup {u}
        /\ UNCHANGED <<at, taken, whole, job, deferred, misclosed, written, linked, outage>>
    BY <1>10 DEF MakeTemp, Running
  <2>4. Control(w)'
    BY <2>1, <2>3
  <2>5. Descriptor(w)'
    BY <2>1, <2>2, <2>3
  <2>6. Content(w)' /\ Clean(w)'
    BY <2>1, <2>3
  <2> QED BY <2>4, <2>5, <2>6
<1>11. ASSUME NEW u \in Uploads, Write(u) PROVE OneBase(w)'
  <2>1. /\ job[u] = "write" /\ phase[u] = "running" /\ phase' = [phase EXCEPT ![u] = "finished"]
        /\ UNCHANGED <<at, taken, whole, job, deferred, fd, linked, temps, outage>>
        /\ \A v \in Uploads \ {u} : written'[v] = written[v]
    BY <1>11 DEF Write, Running
  <2>2. misclosed' = misclosed /\ (misclosed = {} => written'[u] = taken[u])
    <3>1. fd[u] # NoFd
      BY <2>1 DEF Base
    <3>2. misclosed = {} => Refers(u) = u
      BY <3>1 DEF Numbered, Refers
    <3> QED BY <1>11, <3>2 DEF Write
  <2>3. Control(w)' /\ Descriptor(w)' /\ Clean(w)'
    BY <2>1
  <2>4. Content(w)'
    BY <2>1, <2>2
  <2> QED BY <2>3, <2>4
<1>12. ASSUME NEW u \in Uploads, Seal(u) PROVE OneBase(w)'
  BY <1>12, Closing DEF Seal, Running
<1>13. ASSUME NEW u \in Uploads, Move(u) PROVE OneBase(w)'
  BY <1>13 DEF Move, Running, SetEntry
<1>14. ASSUME NEW u \in Uploads, UnlinkTemp(u) PROVE OneBase(w)'
  BY <1>14 DEF UnlinkTemp
<1>15. ASSUME NEW u \in Uploads, SyncDirectory(u) PROVE OneBase(w)'
  BY <1>15 DEF SyncDirectory
<1>16. ASSUME NEW u \in Uploads, JobRaises(u) PROVE OneBase(w)'
  BY <1>16, Closing DEF JobRaises
<1>17. ASSUME NEW u \in Uploads, RunDeferred(u) PROVE OneBase(w)'
  BY <1>17, Closing DEF RunDeferred, Over, Discard
<1>18. ASSUME Kill PROVE OneBase(w)'
  BY <1>18 DEF Kill, Dies, Busy
<1>19. ASSUME PowerLoss PROVE OneBase(w)'
  BY <1>19 DEF PowerLoss, Dies, Busy, Begun
<1>20. CASE UNCHANGED vars
  BY <1>20 DEF vars
<1> QED BY <1>1, <1>2, <1>3, <1>4, <1>5, <1>6, <1>7, <1>8, <1>9, <1>10, <1>11, <1>12, <1>13, <1>14, <1>15, <1>16, <1>17, <1>18, <1>19, <1>20
        DEF Next, Coroutine, Thread

----------------------------------------------------------------------------
(* Numbers.                                                                *)
LEMMA NumberedClose ==
  ASSUME FileSinkTypeOK, Numbered, NEW u \in Uploads, CloseFd(u)
  PROVE  Numbered'
<1>1. /\ misclosed' = misclosed /\ fd'[u] = NoFd
      /\ \A v \in Uploads \ {u} : fd'[v] = fd[v]
      /\ \A n \in Numbers : table'[n] = IF n = fd[u] THEN NoFile ELSE table[n]
  BY Closing
<1> USE DEF FileSinkTypeOK
<1>2. ASSUME NEW n \in Numbers, table'[n] # NoFile PROVE fd'[table'[n]] = n
  <2>1. n # fd[u] /\ table'[n] = table[n] /\ table[n] \in Uploads
    BY <1>1, <1>2
  <2>2. fd[table[n]] = n
    BY <1>2, <2>1 DEF Numbered
  <2> QED BY <1>1, <2>1, <2>2
<1>3. ASSUME misclosed = {}, NEW v \in Uploads, fd'[v] # NoFd PROVE table'[fd'[v]] = v
  <2>1. v # u /\ fd'[v] = fd[v] /\ table[fd[v]] = v
    BY <1>1, <1>3 DEF Numbered
  <2>2. fd[u] # fd[v]
    BY <1>3, <2>1, <1>1 DEF Numbered
  <2> QED BY <1>1, <1>3, <2>1, <2>2
<1> QED BY <1>1, <1>2, <1>3 DEF Numbered

LEMMA NumberedStep == Base /\ Numbered /\ [Next]_vars => Numbered'
<1> SUFFICES ASSUME Base, Numbered, [Next]_vars PROVE Numbered'
  OBVIOUS
<1>0. FileSinkTypeOK
  BY DEF Base
<1> USE DEF coroutineVars, poolVars, spoolVars, numberVars, diskVars, outageVars
<1>1. CASE UNCHANGED numberVars
  BY <1>1 DEF Numbered
<1>2. CASE \E u \in Uploads : CloseFd(u)
  BY <1>0, <1>2, NumberedClose
<1>3. ASSUME NEW u \in Uploads, MakeTemp(u) PROVE Numbered'
  <2>1. fd[u] = NoFd
    BY <1>3 DEF MakeTemp, Running, Base, Control, Making
  <2>2. PICK m \in Numbers : /\ table[m] = NoFile
                             /\ table' = [table EXCEPT ![m] = u]
                             /\ fd' = [fd EXCEPT ![u] = m]
    BY <1>3 DEF MakeTemp
  <2>3. misclosed' = misclosed /\ u # NoFile /\ NoFd \notin Numbers
    BY <1>3, FileSinkAssumption DEF MakeTemp, FileSinkAssumption
  <2>4. ASSUME NEW n \in Numbers, table'[n] # NoFile PROVE fd'[table'[n]] = n
    BY <1>0, <2>1, <2>2, <2>3, <2>4 DEF Numbered, FileSinkTypeOK
  <2>5. ASSUME misclosed = {}, NEW v \in Uploads, fd'[v] # NoFd PROVE table'[fd'[v]] = v
    <3>1. CASE v = u
      BY <1>0, <2>2, <3>1 DEF FileSinkTypeOK
    <3>2. CASE v # u
      <4>1. fd'[v] = fd[v] /\ fd[v] \in Numbers /\ table[fd[v]] = v
        BY <1>0, <2>2, <2>5, <3>2 DEF Numbered, FileSinkTypeOK
      <4>2. fd[v] # m
        BY <2>2, <4>1, FileSinkAssumption DEF FileSinkAssumption
      <4> QED BY <1>0, <2>2, <4>1, <4>2 DEF FileSinkTypeOK
    <3> QED BY <3>1, <3>2
  <2> QED BY <2>3, <2>4, <2>5 DEF Numbered
<1>4. ASSUME NEW u \in Uploads, JobRaises(u) PROVE Numbered'
  <2>1. CASE Free(fd[u]) /\ misclosed' = misclosed \cup {u} /\ UNCHANGED fd
    <3>1. \A n \in Numbers : table'[n] # NoFile => table'[n] = table[n]
      BY <1>0, <2>1, Freeing
    <3> QED BY <2>1, <3>1 DEF Numbered
  <2> QED BY <1>1, <1>2, <1>4, <2>1 DEF JobRaises
<1>5. CASE Kill \/ PowerLoss
  BY <1>5 DEF Kill, PowerLoss, Dies, Numbered
<1>6. ASSUME NEW u \in Uploads, Coroutine(u) PROVE Numbered'
  BY <1>1, <1>2, <1>6 DEF Coroutine, Begin, NeverBegins, ReadChunk, ReadEnd, ReadAborts, Resume,
                          ResumeRaised, CancelSink, Discard
<1>7. ASSUME NEW u \in Uploads, Thread(u) PROVE Numbered'
  BY <1>1, <1>2, <1>3, <1>4, <1>7 DEF Thread, StartJob, Write, Seal, Move, UnlinkTemp,
                                      SyncDirectory, RunDeferred, Discard
<1>8. CASE UNCHANGED vars
  BY <1>1, <1>8 DEF vars
<1> QED BY <1>5, <1>6, <1>7, <1>8 DEF Next

----------------------------------------------------------------------------
(* Names.                                                                  *)
LEMMA NamingDiscard ==
  ASSUME Base, Naming, NEW u \in Uploads, Discard(u), UNCHANGED <<final, job>>,
         outage \subseteq outage'
  PROVE  Naming'
<1> USE DEF Base, FileSinkTypeOK
<1>1. CASE linked[u]
  <2>1. /\ entry' = [entry EXCEPT ![final[u]] = NoFile]
        /\ mayBe' = [mayBe EXCEPT ![final[u]] = @ \cup {NoFile}]
        /\ linked' = [linked EXCEPT ![u] = FALSE]
    BY <1>1 DEF Discard, SetEntry
  <2>2. \A n \in Names : entry'[n] \in mayBe'[n]
    BY <2>1 DEF Naming
  <2>3. \A n \in Names : \A v \in mayBe'[n] \ {NoFile} : n = final[v] /\ job[v] = "commit"
    BY <2>1 DEF Naming
  <2>4. ASSUME NEW n \in Names, entry'[n] # NoFile
        PROVE  linked'[entry'[n]] \/ entry'[n] \in outage'
    <3>1. n # final[u] /\ entry'[n] = entry[n] /\ entry[n] \in Uploads
      BY <2>1, <2>4
    <3>2. entry[n] \in mayBe[n] /\ n = final[entry[n]]
      BY <2>4, <3>1 DEF Naming
    <3>3. entry[n] # u
      BY <3>1, <3>2
    <3> QED BY <2>1, <2>4, <3>1, <3>3 DEF Naming
  <2> QED BY <2>2, <2>3, <2>4 DEF Naming
<1>2. CASE ~linked[u]
  <2>1. /\ UNCHANGED <<entry, mayBe>>
        /\ \A v \in Uploads : linked'[v] = linked[v]
    BY <1>2 DEF Discard
  <2> QED BY <2>1 DEF Naming
<1> QED BY <1>1, <1>2

(* A step that gives no file a name and takes none away.                   *)
LEMMA NamingFrame ==
  ASSUME Base, Naming, UNCHANGED <<final, entry, mayBe, linked>>, outage \subseteq outage',
         \A u \in Uploads : job[u] = "commit" => job'[u] = "commit"
  PROVE  Naming'
BY DEF Base, FileSinkTypeOK, Naming

LEMMA NamingStep == Base /\ Naming /\ [Next]_vars => Naming'
<1> SUFFICES ASSUME Base, Naming, [Next]_vars PROVE Naming'
  OBVIOUS
<1> USE DEF Base, FileSinkTypeOK, coroutineVars, poolVars, spoolVars, numberVars, diskVars, outageVars
<1>1. ASSUME NEW u \in Uploads,
             \/ Begin(u) \/ NeverBegins(u) \/ ReadChunk(u) \/ ReadEnd(u) \/ Resume(u)
      PROVE  Naming'
  <2>1. \A v \in Uploads : job[v] = "commit" => job'[v] = "commit"
    BY <1>1 DEF Begin, NeverBegins, ReadChunk, ReadEnd, Resume, Resumes, Goes, Submit, Control
  <2>2. UNCHANGED <<final, entry, mayBe, linked, outage>>
    BY <1>1 DEF Begin, NeverBegins, ReadChunk, ReadEnd, Resume
  <2> QED BY <2>1, <2>2, NamingFrame
<1>2. ASSUME NEW u \in Uploads,
             \/ StartJob(u) \/ MakeTemp(u) \/ Write(u) \/ Seal(u) \/ UnlinkTemp(u) \/ JobRaises(u)
      PROVE  Naming'
  BY <1>2, NamingFrame DEF StartJob, MakeTemp, Write, Seal, UnlinkTemp, JobRaises
<1>3. ASSUME NEW u \in Uploads, ReadAborts(u) \/ ResumeRaised(u) \/ RunDeferred(u)
      PROVE  Naming'
  BY <1>3, NamingDiscard DEF ReadAborts, ResumeRaised, RunDeferred
<1>4. ASSUME NEW u \in Uploads, CancelSink(u) PROVE Naming'
  BY <1>4, NamingDiscard, NamingFrame DEF CancelSink
<1>5. ASSUME NEW u \in Uploads, Move(u) PROVE Naming'
  <2>1. /\ job[u] = "commit" /\ UNCHANGED <<final, job, outage>> /\ u # NoFile
        /\ entry' = [entry EXCEPT ![final[u]] = u]
        /\ mayBe' = [mayBe EXCEPT ![final[u]] = @ \cup {u}]
        /\ linked' = [linked EXCEPT ![u] = TRUE]
    BY <1>5, FileSinkAssumption DEF Move, Running, SetEntry, FileSinkAssumption
  <2>2. \A n \in Names : entry'[n] \in mayBe'[n]
    BY <2>1 DEF Naming
  <2>3. \A n \in Names : \A v \in mayBe'[n] \ {NoFile} : n = final[v] /\ job[v] = "commit"
    BY <2>1 DEF Naming
  <2>4. \A n \in Names : entry'[n] # NoFile => linked'[entry'[n]] \/ entry'[n] \in outage'
    BY <2>1 DEF Naming
  <2> QED BY <2>1, <2>2, <2>3, <2>4 DEF Naming
<1>6. ASSUME NEW u \in Uploads, SyncDirectory(u) PROVE Naming'
  <2>1. \A n \in Names : mayBe'[n] \subseteq mayBe[n] /\ entry[n] \in mayBe'[n]
    BY <1>6 DEF SyncDirectory, Naming
  <2> QED BY <1>6, <2>1 DEF SyncDirectory, Naming
<1>7. ASSUME Kill PROVE Naming'
  BY <1>7, NamingFrame DEF Kill
<1>8. ASSUME PowerLoss PROVE Naming'
  <2>1. /\ \A n \in Names : entry'[n] \in mayBe[n] /\ mayBe'[n] = {entry'[n]}
        /\ UNCHANGED <<final, job>> /\ outage' = outage \cup Begun
    BY <1>8 DEF PowerLoss
  <2>2. \A n \in Names : entry'[n] # NoFile => entry'[n] \in Begun
    BY <2>1 DEF Naming, Control, Begun
  <2> QED BY <2>1, <2>2 DEF Naming
<1>9. CASE UNCHANGED vars
  BY <1>9, NamingFrame DEF vars
<1> QED BY <1>1, <1>2, <1>3, <1>4, <1>5, <1>6, <1>7, <1>8, <1>9 DEF Next, Coroutine, Thread

----------------------------------------------------------------------------
(* Power losses: with fsync, a file is synced before it is committed.      *)
LEMMA SafeStep ==
  ASSUME Fsync, Base, Numbered, AllSafe, [Next]_vars
  PROVE  AllSafe'
<1> SUFFICES ASSUME NEW w \in Uploads PROVE Safe(w)'
  BY DEF AllSafe
<1>w. Safe(w) /\ Control(w)
  BY DEF AllSafe, Base
<1> USE <1>w DEF Base, FileSinkTypeOK, Safe, Control, Live, InThread, Awaiting,
                 coroutineVars, poolVars, spoolVars, numberVars, diskVars, outageVars, Goes, Phase, Submit
<1>1. ASSUME NEW u \in Uploads,
             Begin(u) \/ NeverBegins(u) \/ ReadChunk(u) \/ ReadEnd(u) \/ ReadAborts(u)
      PROVE  Safe(w)'
  BY <1>1, Closing DEF Begin, NeverBegins, ReadChunk, ReadEnd, ReadAborts, Discard
<1>2. ASSUME NEW u \in Uploads, Resume(u) \/ ResumeRaised(u) PROVE Safe(w)'
  BY <1>2, Closing DEF Resume, ResumeRaised, Resumes, Discard
<1>3. ASSUME NEW u \in Uploads, CancelSink(u) PROVE Safe(w)'
  BY <1>3, Closing DEF CancelSink, Discard
<1>11. ASSUME NEW u \in Uploads, misclosed = {}, Running(u, "write") \/ Running(u, "seal")
       PROVE  Refers(u) = u
  <2>1. Control(u) /\ Descriptor(u)
    OBVIOUS
  <2>2. fd[u] # NoFd
    BY <1>11, <2>1 DEF Running, Descriptor
  <2> QED BY <1>11, <2>2 DEF Numbered, Refers
<1>4. ASSUME NEW u \in Uploads, StartJob(u) \/ MakeTemp(u) \/ Write(u) PROVE Safe(w)'
  <2>1. CASE StartJob(u) \/ MakeTemp(u)
    BY <2>1 DEF StartJob, MakeTemp, Running
  <2>2. CASE Write(u)
    <3>1. misclosed = {} => UNCHANGED torn
      BY <2>2, <1>11 DEF Write
    <3> QED BY <2>2, <3>1 DEF Write, Running
  <2> QED BY <1>4, <2>1, <2>2
<1>5. ASSUME NEW u \in Uploads, Seal(u) \/ JobRaises(u) PROVE Safe(w)'
  <2>1. CASE Seal(u)
    <3>1. /\ misclosed' = misclosed /\ (misclosed = {} => synced' = synced \cup {u})
          /\ UNCHANGED <<torn, job, at, deferred>> /\ phase' = [phase EXCEPT ![u] = "finished"]
      BY <2>1, <1>11, Closing DEF Seal
    <3> QED BY <2>1, <3>1 DEF Running, Seal
  <2>2. CASE JobRaises(u)
    <3>1. /\ misclosed' = {} => misclosed = {}
          /\ UNCHANGED <<torn, synced, job, at, deferred>>
          /\ phase' = [phase EXCEPT ![u] = "raised"]
      BY <2>2, Closing DEF JobRaises
    <3> QED BY <3>1
  <2> QED BY <1>5, <2>1, <2>2
<1>6. ASSUME NEW u \in Uploads, Move(u) \/ UnlinkTemp(u) \/ SyncDirectory(u) PROVE Safe(w)'
  BY <1>6 DEF Move, UnlinkTemp, SyncDirectory, Running
<1>7. ASSUME NEW u \in Uploads, RunDeferred(u) PROVE Safe(w)'
  BY <1>7, Closing DEF RunDeferred, Discard
<1>8. ASSUME Kill PROVE Safe(w)'
  BY <1>8 DEF Kill, Dies, Busy
<1>9. ASSUME PowerLoss PROVE Safe(w)'
  BY <1>9 DEF PowerLoss, Dies, Busy, Begun
<1>10. CASE UNCHANGED vars
  BY <1>10 DEF vars
<1> QED BY <1>1, <1>2, <1>3, <1>4, <1>5, <1>6, <1>7, <1>8, <1>9, <1>10 DEF Next, Coroutine, Thread

(* For any number of uploads, threads and descriptors: as long as no close *)
(* has raised in a seal, no thread ever uses a number that some upload has *)
(* closed, or that another has taken since; and every variable is typed.   *)
THEOREM NoThreadWritesAstray == Spec => []NoStrayWrite
<1>1. Base /\ Numbered => NoStrayWrite
  <2> SUFFICES ASSUME Base, Numbered, misclosed = {}, NEW u \in Uploads,
                      job[u] \in {"write", "seal"}, phase[u] = "running"
               PROVE  Refers(u) = u
    BY DEF Base, NoStrayWrite
  <2>1. fd[u] # NoFd
    BY DEF Base, Control, Descriptor, InThread
  <2> QED BY <2>1 DEF Numbered, Refers
<1> QED BY FileSinkInit, BaseStep, NumberedStep, <1>1, PTL DEF Spec

(* A failed upload leaves nothing behind once its last operation is over,  *)
(* unless the process died under it, or the power failed then or later.    *)
THEOREM FailuresLeaveNothing == Spec => []FailedLeavesNothing
<1>1. Base /\ Numbered /\ Naming => FailedLeavesNothing
  <2> SUFFICES ASSUME Base, Numbered, Naming,
                      NEW u \in Uploads, at[u] = "failed", ~deferred[u], u \notin outage
               PROVE  /\ u \notin temps /\ \A n \in Names : entry[n] # u
                      /\ \A n \in Numbers : table[n] # u
    BY DEF FailedLeavesNothing
  <2>1. ~linked[u] /\ u \notin temps /\ fd[u] = NoFd /\ u # NoFile /\ NoFd \notin Numbers
    BY FileSinkAssumption DEF FileSinkAssumption, Base, Clean
  <2> QED BY <2>1 DEF Naming, Numbered
<1> QED BY FileSinkInit, BaseStep, NumberedStep, NamingStep, <1>1, PTL DEF Spec

(* With fsync, a final name refers to a whole validated upload or to       *)
(* nothing, whatever was cancelled, raised or killed and whenever the      *)
(* power failed.                                                           *)
THEOREM WholeFilesAreVisible ==
  ASSUME Fsync
  PROVE  Spec => []VisibleIsWhole
<1>1. Base /\ AllSafe /\ Naming => VisibleIsWhole
  <2> SUFFICES ASSUME Base, AllSafe, Naming, misclosed = {}, NEW n \in Names, entry[n] # NoFile
               PROVE  Complete(entry[n])
    BY DEF VisibleIsWhole
  <2>1. entry[n] \in Uploads /\ job[entry[n]] = "commit"
    BY DEF Base, FileSinkTypeOK, Naming
  <2> QED BY <2>1 DEF Base, AllSafe, Safe, Content, Complete
<1>2. Base /\ Numbered /\ AllSafe /\ [Next]_vars => AllSafe'
  BY SafeStep
<1> QED BY FileSinkInit, BaseStep, NumberedStep, NamingStep, <1>1, <1>2, PTL DEF Spec

----------------------------------------------------------------------------
(* Names without overwrite.  A discard runs only for a live upload, whose  *)
(* name is still its own: so it takes no other upload's name away.         *)
LEMMA PlacedDiscard ==
  ASSUME Base, AllPlaced, NEW u \in Uploads, Live(u) \/ ~linked[u], Discard(u),
         UNCHANGED <<final, job>>,
         at'[u] = "failed", ~deferred'[u], phase'[u] \notin InThread,
         \A v \in Uploads \ {u} : /\ at'[v] = at[v] /\ phase'[v] = phase[v]
                                  /\ deferred'[v] = deferred[v]
  PROVE  AllPlaced'
<1> USE DEF Base, FileSinkTypeOK
<1>1. Placed(u)'
  BY DEF Placed, Committed, Live, Awaiting, Discard, InThread
<1>2. ASSUME NEW v \in Uploads \ {u} PROVE Placed(v)'
  <2>1. Placed(v) /\ Placed(u)
    BY DEF AllPlaced
  <2>2. linked'[v] = linked[v] /\ (Live(v)' <=> Live(v)) /\ (Committed(v)' <=> Committed(v))
    BY DEF Discard, Live, Committed
  <2>3. CASE linked[v] /\ (Live(v) \/ at[v] = "ok")
    <3>1. entry[final[v]] = v
      BY <2>1, <2>3 DEF Placed
    <3>2. linked[u] => final[u] # final[v]
      BY <2>1, <3>1 DEF Placed
    <3>3. entry'[final[v]] = entry[final[v]] /\ mayBe'[final[v]] = mayBe[final[v]]
      BY <3>2 DEF Discard, SetEntry
    <3> QED BY <2>1, <2>2, <3>1, <3>3 DEF Placed
  <2>4. CASE ~(linked[v] /\ (Live(v) \/ at[v] = "ok"))
    <3>1. ~Committed(v)
      BY <2>1, <2>4 DEF Placed, Committed, Live, Awaiting
    <3> QED BY <2>1, <2>2, <2>4, <3>1 DEF Placed
  <2> QED BY <2>3, <2>4
<1> QED BY <1>1, <1>2 DEF AllPlaced

(* A step that leaves the directory alone.                                 *)
LEMMA PlacedFrame ==
  ASSUME Base, AllPlaced, UNCHANGED <<final, entry, mayBe, linked>>,
         \A v \in Uploads : /\ Live(v)' \/ at'[v] = "ok" => Live(v) \/ at[v] = "ok" \/ ~linked[v]
                            /\ Committed(v)' => Committed(v)
                            /\ phase'[v] \in {"linked", "moved"} => phase[v] = phase'[v]
  PROVE  AllPlaced'
BY DEF AllPlaced, Placed

LEMMA PlacedStep ==
  ASSUME ~Overwrite, Fsync, Base, Naming, AllPlaced, [Next]_vars
  PROVE  AllPlaced'
<1> USE DEF Base, FileSinkTypeOK, coroutineVars, poolVars, spoolVars, numberVars, diskVars, outageVars,
            Goes, Phase, Submit, Awaiting, InThread
<1>1. ASSUME NEW u \in Uploads,
             \/ Begin(u) \/ NeverBegins(u) \/ ReadChunk(u) \/ ReadEnd(u) \/ Resume(u)
      PROVE  AllPlaced'
  <2>1. UNCHANGED <<final, entry, mayBe, linked>>
    BY <1>1 DEF Begin, NeverBegins, ReadChunk, ReadEnd, Resume
  <2>2. ASSUME NEW v \in Uploads
        PROVE  /\ Live(v)' \/ at'[v] = "ok" => Live(v) \/ at[v] = "ok" \/ ~linked[v]
               /\ Committed(v)' => Committed(v)
               /\ phase'[v] \in {"linked", "moved"} => phase[v] = phase'[v]
    <3>1. Control(v) /\ Clean(v)
      OBVIOUS
    <3> QED BY <1>1, <3>1 DEF Begin, NeverBegins, ReadChunk, ReadEnd, Resume, Resumes, Live,
                              Committed, Control, Clean
  <2> QED BY <2>1, <2>2, PlacedFrame
<1>2. ASSUME NEW u \in Uploads,
             \/ StartJob(u) \/ MakeTemp(u) \/ Write(u) \/ Seal(u) \/ JobRaises(u)
      PROVE  AllPlaced'
  <2>1. UNCHANGED <<final, entry, mayBe, linked>>
    BY <1>2 DEF StartJob, MakeTemp, Write, Seal, JobRaises
  <2>2. ASSUME NEW v \in Uploads
        PROVE  /\ Live(v)' \/ at'[v] = "ok" => Live(v) \/ at[v] = "ok" \/ ~linked[v]
               /\ Committed(v)' => Committed(v)
               /\ phase'[v] \in {"linked", "moved"} => phase[v] = phase'[v]
    BY <1>2 DEF StartJob, MakeTemp, Write, Seal, JobRaises, Running, Live, Committed
  <2> QED BY <2>1, <2>2, PlacedFrame
<1>3. ASSUME NEW u \in Uploads, ReadAborts(u) \/ ResumeRaised(u) \/ RunDeferred(u)
      PROVE  AllPlaced'
  <2>1. Control(u) /\ Clean(u)
    OBVIOUS
  <2>2. /\ Live(u) \/ ~linked[u]
        /\ at'[u] = "failed" /\ ~deferred'[u] /\ phase'[u] \notin InThread
    BY <1>3, <2>1 DEF ReadAborts, ResumeRaised, Resumes, RunDeferred, Over, Live, Control, Clean
  <2>3. /\ Discard(u) /\ UNCHANGED <<final, job>>
        /\ \A v \in Uploads \ {u} : /\ at'[v] = at[v] /\ phase'[v] = phase[v]
                                    /\ deferred'[v] = deferred[v]
    BY <1>3 DEF ReadAborts, ResumeRaised, RunDeferred
  <2> QED BY <2>2, <2>3, PlacedDiscard
<1>4. ASSUME NEW u \in Uploads, CancelSink(u) PROVE AllPlaced'
  <2>1. CASE phase[u] \in InThread
    <3>1. UNCHANGED <<final, entry, mayBe, linked, phase>>
      BY <1>4, <2>1 DEF CancelSink
    <3>2. \A v \in Uploads : /\ Live(v)' \/ at'[v] = "ok" => Live(v) \/ at[v] = "ok" \/ ~linked[v]
                             /\ Committed(v)' => Committed(v)
      BY <1>4, <2>1 DEF CancelSink, Live, Committed
    <3> QED BY <3>1, <3>2, PlacedFrame
  <2>2. CASE phase[u] \notin InThread
    <3>1. Control(u)
      OBVIOUS
    <3>2. /\ Live(u) /\ Discard(u) /\ UNCHANGED <<final, job>>
          /\ at'[u] = "failed" /\ ~deferred'[u] /\ phase'[u] \notin InThread
          /\ \A v \in Uploads \ {u} : /\ at'[v] = at[v] /\ phase'[v] = phase[v]
                                      /\ deferred'[v] = deferred[v]
      BY <1>4, <2>2, <3>1 DEF CancelSink, Live, Control
    <3> QED BY <3>2, PlacedDiscard
  <2> QED BY <2>1, <2>2
<1>5. ASSUME NEW u \in Uploads, Move(u) PROVE AllPlaced'
  <2>1. /\ entry[final[u]] = NoFile /\ job[u] = "commit" /\ phase[u] = "running"
        /\ entry' = [entry EXCEPT ![final[u]] = u]
        /\ mayBe' = [mayBe EXCEPT ![final[u]] = @ \cup {u}]
        /\ linked' = [linked EXCEPT ![u] = TRUE]
        /\ phase' = [phase EXCEPT ![u] = "linked"]
        /\ UNCHANGED <<final, job, at, deferred>>
    BY <1>5 DEF Move, Running, SetEntry
  <2>2. Placed(u)'
    BY <2>1 DEF Placed, Committed
  <2>3. ASSUME NEW v \in Uploads \ {u} PROVE Placed(v)'
    <3>1. Placed(v) /\ v # NoFile
      BY FileSinkAssumption DEF AllPlaced, FileSinkAssumption
    <3>2. linked[v] /\ (Live(v) \/ at[v] = "ok") => final[v] # final[u]
      BY <2>1, <3>1 DEF Placed
    <3>3. Committed(v) => linked[v] /\ (Live(v) \/ at[v] = "ok")
      BY <3>1 DEF Placed, Committed, Live
    <3>4. (Committed(v)' <=> Committed(v)) /\ (Live(v)' <=> Live(v))
      BY <2>1 DEF Committed, Live
    <3> QED BY <2>1, <3>1, <3>2, <3>3, <3>4 DEF Placed
  <2> QED BY <2>2, <2>3 DEF AllPlaced
<1>6. ASSUME NEW u \in Uploads, UnlinkTemp(u) PROVE AllPlaced'
  <2> SUFFICES ASSUME NEW v \in Uploads PROVE Placed(v)'
    BY DEF AllPlaced
  <2>1. Placed(v)
    BY DEF AllPlaced
  <2> QED BY <1>6, <2>1 DEF UnlinkTemp, Placed, Committed, Live
<1>7. ASSUME NEW u \in Uploads, SyncDirectory(u) PROVE AllPlaced'
  <2> SUFFICES ASSUME NEW v \in Uploads PROVE Placed(v)'
    BY DEF AllPlaced
  <2>1. Placed(v)
    BY DEF AllPlaced
  <2>2. Committed(v)' => linked[v] /\ (Live(v) \/ at[v] = "ok")
    BY <1>7, <2>1 DEF SyncDirectory, Placed, Committed, Live
  <2>3. mayBe' = [n \in Names |-> {entry[n]}] /\ UNCHANGED <<entry, linked, final>>
    BY <1>7 DEF SyncDirectory
  <2>4. phase'[v] \in {"linked", "moved"} => phase'[v] = phase[v]
    BY <1>7 DEF SyncDirectory
  <2>5. Live(v)' <=> Live(v)
    BY <1>7 DEF SyncDirectory, Live
  <2> QED BY <1>7, <2>1, <2>2, <2>3, <2>4, <2>5 DEF SyncDirectory, Placed
<1>8. ASSUME Kill PROVE AllPlaced'
  <2>1. UNCHANGED <<final, entry, mayBe, linked>>
    BY <1>8 DEF Kill
  <2>2. \A v \in Uploads : /\ Live(v)' \/ at'[v] = "ok" => Live(v) \/ at[v] = "ok" \/ ~linked[v]
                           /\ Committed(v)' => Committed(v)
                           /\ phase'[v] \in {"linked", "moved"} => phase[v] = phase'[v]
    BY <1>8 DEF Kill, Dies, Busy, Live, Committed
  <2> QED BY <2>1, <2>2, PlacedFrame
<1>9. ASSUME PowerLoss PROVE AllPlaced'
  <2> SUFFICES ASSUME NEW v \in Uploads PROVE Placed(v)'
    BY DEF AllPlaced
  <2>1. Placed(v) /\ Control(v)
    BY DEF AllPlaced
  <2>2. /\ ~Live(v)' /\ phase'[v] \notin {"linked", "moved"}
        /\ at'[v] = "ok" => at[v] = "ok" /\ Committed(v)
        /\ Committed(v)' => at'[v] = "ok"
    BY <1>9, <2>1 DEF PowerLoss, Dies, Busy, Live, Committed, Control
  <2>3. at'[v] = "ok" => mayBe[final[v]] = {v} /\ linked[v]
    BY <2>1, <2>2 DEF Placed
  <2>4. /\ entry'[final[v]] \in mayBe[final[v]] /\ mayBe'[final[v]] = {entry'[final[v]]}
        /\ UNCHANGED <<linked, final>>
    BY <1>9 DEF PowerLoss
  <2> QED BY <2>2, <2>3, <2>4 DEF Placed
<1>10. CASE UNCHANGED vars
  BY <1>10 DEF vars, AllPlaced, Placed, Committed, Live
<1> QED BY <1>1, <1>2, <1>3, <1>4, <1>5, <1>6, <1>7, <1>8, <1>9, <1>10 DEF Next, Coroutine, Thread

(* Without overwrite and with fsync, an upload reported as written stays   *)
(* under its name for good, through the discards of others that wanted the *)
(* same name and through power losses.                                     *)
THEOREM ReportedFilesAreKept ==
  ASSUME ~Overwrite, Fsync
  PROVE  Spec => []ReportedIsKept
<1>1. Base /\ AllPlaced => ReportedIsKept
  BY DEF Base, Control, AllPlaced, Placed, Committed, ReportedIsKept
<1>2. Base /\ Naming /\ AllPlaced /\ [Next]_vars => AllPlaced'
  BY PlacedStep
<1> QED BY FileSinkInit, BaseStep, NumberedStep, NamingStep, <1>1, <1>2, PTL DEF Spec
==============================================================================
