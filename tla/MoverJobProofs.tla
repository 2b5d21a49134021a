--------------------------- MODULE MoverJobProofs ---------------------------
(* The data mover's job for any set of files and any number of retries.      *)
EXTENDS MoverJob, TLAPS

-----------------------------------------------------------------------------
(* The inductive invariant *)

\* A migration by tar whose destination could not be prepared.
Excused == unprepared /\ job.mover = "tar"

\* The loop is left with success on this status.
Passes == rc = 0 \/ rc \in Tolerated(job)

\* The jobs whose destination is empty once it is prepared.
Clears(j) == Empties(j) \/ (j.mover = "file" /\ j.dir = "backup")

\* What was at the source all the while has been passed on and is there.
Complete == src \subseteq sent /\ (~DryRun(job) => \A f \in sent : dest[f] = "new")

\* With no file missed, there is nothing else where nothing else should be.
Exact ==
    Replaces(job) /\ ~DryRun(job) /\ planned \subseteq sent =>
        \A f \in Files \ planned : dest[f] = "none"

\* The attempt while it copies.
Copying ==
    /\ pc # "start" => src \subseteq planned
    /\ pc = "copy" /\ ~Buffered => \A f \in sent : dest[f] = "new"
    /\ pc = "copy" /\ unprepared => job.mover = "tar"
    /\ pc = "copy" /\ ~unprepared /\ Clears(job) => \A f \in Files \ planned : dest[f] = "none"

\* The status the script looks at, and what it says about the destination.
Copied ==
    /\ pc = "exit" /\ rc = 0 => planned \subseteq sent
    /\ pc = "exit" /\ job.mover = "rsync" /\ rc \in Tolerated(job) => ~(planned \subseteq sent)
    /\ pc = "exit" /\ Passes /\ ~Excused => Complete /\ Exact

\* Past the loop: the status is that of the data until the sidecar has its own.
Left ==
    /\ pc = "metadata" => rc = 0 /\ WithMetadata(job)
    /\ pc = "metadata" \/ (pc = "end" /\ rc = 0) =>
           /\ ~Excused => Complete /\ Exact
           /\ ~marker => planned \subseteq sent
    /\ marker => Tolerated(job) # {} /\ pc \in {"metadata", "end"}
    /\ marker /\ job.mover = "rsync" => ~(planned \subseteq sent)
    /\ pc = "end" /\ rc = 0 /\ WithMetadata(job) => sidecar = "new"
    /\ sidecar = "new" => pc = "end" /\ rc = 0 /\ WithMetadata(job)
    /\ verdict = "succeeded" => pc = "end" /\ rc = 0

\* What the client has said.
Told ==
    /\ report = "quiet" => verdict = "succeeded" /\ (job.mover = "rsync" => ~marker)
    /\ report = "warned" => marker

\* An attempt, or an upload of the sidecar, is begun only while retries are left.
Counted == pc # "end" => n <= MaxRetries

IInv == TypeOK /\ Copying /\ Copied /\ Left /\ Told /\ Counted

-----------------------------------------------------------------------------
(* Lemmas about the operators *)

\* What the command builders can be asked for.
LEMMA JobFacts ==
    ASSUME NEW j \in Jobs
    PROVE  /\ j.mover \in {"rsync", "tar", "rclone", "file", "stream"}
           /\ j.dir \in {"migrate", "backup", "restore"}
           /\ j.delete \in BOOLEAN /\ j.dry \in BOOLEAN
           /\ j.dir = "migrate" <=> j.mover \in {"rsync", "tar"}
           /\ DryRun(j) => j.mover \in {"rclone", "stream"} /\ ~Prepares(j)
           /\ j.dir = "backup" => ~j.delete
BY DEF Jobs, MigrateJobs, BackupJobs, RestoreJobs, Job, DryRun, Prepares

\* A mover that came to the end says 0 only when it has missed nothing.
LEMMA FinishStatus ==
    ASSUME NEW j \in Jobs, NEW missed \in BOOLEAN, NEW s \in FinishStatuses(j, missed)
    PROVE  /\ PipeStatus(s[1], s[2]) \in Codes
           /\ PipeStatus(s[1], s[2]) = 0 => ~missed
           /\ j.mover \in {"rsync", "rclone"} /\ ~missed => PipeStatus(s[1], s[2]) = 0
<1>1. CASE j.mover = "rsync"
  BY <1>1 DEF FinishStatuses, PipeStatus, Codes
<1>2. CASE j.mover = "rclone"
  BY <1>2 DEF FinishStatuses, PipeStatus, Codes
<1>3. CASE j.mover \notin {"rsync", "rclone"}
  <2>1. s[2] = 0 /\ s[1] \in {0, 1} /\ (missed => s[1] = 1)
    BY <1>3 DEF FinishStatuses
  <2> QED BY <1>3, <2>1 DEF PipeStatus, Codes
<1> QED BY <1>1, <1>2, <1>3

\* A mover that broke off never exits with a status its policy tolerates.
LEMMA BreakStatus ==
    ASSUME NEW j \in Jobs, NEW s \in BreakStatuses(j)
    PROVE  /\ PipeStatus(s[1], s[2]) \in Codes \ {0}
           /\ PipeStatus(s[1], s[2]) \notin Tolerated(j)
<1>1. CASE j.mover = "rsync"
  <2>1. s[2] \in {23, 255}
    BY <1>1 DEF BreakStatuses
  <2> QED BY <1>1, <2>1 DEF PipeStatus, Codes, Tolerated
<1>2. CASE j.mover = "tar"
  <2>1. (s[1] \in {2, 255} /\ s[2] \in {0, 2}) \/ s[2] \in {2, 255}
    BY <1>2 DEF BreakStatuses
  <2> QED BY <1>2, <2>1 DEF PipeStatus, Codes, Tolerated
<1>3. CASE j.mover = "rclone"
  <2>1. s[2] = 1
    BY <1>3 DEF BreakStatuses
  <2> QED BY <1>3, <2>1 DEF PipeStatus, Codes, Tolerated
<1>4. CASE j.mover = "file"
  <2>1. s[2] = 2
    BY <1>4 DEF BreakStatuses
  <2> QED BY <1>4, <2>1 DEF PipeStatus, Codes, Tolerated
<1>5. CASE j.mover = "stream"
  <2>1. (s[1] \in {1, 2} /\ s[2] = 0) \/ s[2] \in {1, 2}
    BY <1>5 DEF BreakStatuses
  <2> QED BY <1>5, <2>1 DEF PipeStatus, Codes, Tolerated
<1> QED BY <1>1, <1>2, <1>3, <1>4, <1>5, JobFacts

\* The destination keeps its type whatever is emptied, cut short or uploaded.
LEMMA DestTyped ==
    ASSUME TypeOK
    PROVE  /\ \A gone : Without(gone) \in [Files \cup {LostFound} -> Contents]
           /\ \A gone, f : f \in Files \cup {LostFound} =>
                  Without(gone)[f] = IF f \in gone THEN "none" ELSE dest[f]
           /\ Uploaded \in [Files \cup {LostFound} -> Contents]
           /\ \A f \in Files \cup {LostFound} :
                  Uploaded[f] = IF f \in sent THEN "new" ELSE "none"
           /\ \A d \in CutShort :
                  /\ d \in [Files \cup {LostFound} -> Contents]
                  /\ \A f \in Files \cup {LostFound} : f \notin planned \ sent => d[f] = dest[f]
<1>1. dest \in [Files \cup {LostFound} -> Contents] /\ planned \subseteq Files
  BY DEF TypeOK
<1>2. /\ \A gone : Without(gone) \in [Files \cup {LostFound} -> Contents]
      /\ \A gone, f : f \in Files \cup {LostFound} =>
             Without(gone)[f] = IF f \in gone THEN "none" ELSE dest[f]
  BY <1>1 DEF Without, Contents
<1>3. /\ Uploaded \in [Files \cup {LostFound} -> Contents]
      /\ \A f \in Files \cup {LostFound} : Uploaded[f] = IF f \in sent THEN "new" ELSE "none"
  BY <1>1 DEF Uploaded, Contents
<1>4. ASSUME NEW d \in CutShort
      PROVE  /\ d \in [Files \cup {LostFound} -> Contents]
             /\ \A f \in Files \cup {LostFound} : f \notin planned \ sent => d[f] = dest[f]
  <2>1. d = dest \/ \E g \in planned \ sent : d = [dest EXCEPT ![g] = "part"]
    BY DEF CutShort
  <2> QED BY <1>1, <2>1 DEF Contents
<1> QED BY <1>2, <1>3, <1>4

-----------------------------------------------------------------------------
(* The steps of the script and of the movers *)

LEMMA InitIInv == Init => IInv
<1> SUFFICES ASSUME Init PROVE IInv
  OBVIOUS
<1>1. dest \in [Files \cup {LostFound} -> Contents]
  BY DEF Init, Contents
<1>2. TypeOK
  <2>1. sidecar \in Contents
    BY DEF Init, Contents
  <2>2. n \in 0 .. (MaxRetries + 1)
    BY MaxRetriesAssumption DEF Init
  <2> QED BY <1>1, <2>1, <2>2 DEF Init, TypeOK, Codes, PCs, Reports
<1>3. Copying /\ Copied /\ Told /\ Counted
  BY MaxRetriesAssumption DEF Init, Copying, Copied, Told, Counted
<1>4. Left
  BY DEF Init, Left
<1> QED BY <1>2, <1>3, <1>4 DEF IInv

LEMMA StartIInv == IInv /\ Start => IInv'
<1> SUFFICES ASSUME IInv, Start PROVE IInv'
  OBVIOUS
<1> USE DEF IInv
<1> DEFINE gone == IF Empties(job) \/ (job.mover = "file" /\ job.dir = "backup") THEN Emptied ELSE {}
<1>1. /\ pc = "start" /\ pc' = "copy" /\ planned' = src /\ sent' = {} /\ unprepared' = FALSE
      /\ dest' = Without(gone)
      /\ UNCHANGED <<job, src, sidecar, n, rc, marker, verdict, report>>
  BY DEF Start
<1>2. /\ dest' \in [Files \cup {LostFound} -> Contents]
      /\ Clears(job) => \A f \in Files : dest'[f] = "none"
  BY <1>1, DestTyped DEF Clears, Emptied
<1>3. TypeOK'
  BY <1>1, <1>2 DEF TypeOK, PCs
<1>4. Copying'
  BY <1>1, <1>2 DEF Copying, Clears, Buffered
<1>5. Copied' /\ Counted'
  BY <1>1 DEF Copied, Counted
<1>6. Left'
  BY <1>1 DEF Left
<1>7. Told'
  BY <1>1 DEF Told
<1> QED BY <1>3, <1>4, <1>5, <1>6, <1>7

LEMMA PrepareFailsIInv == IInv /\ PrepareFails => IInv'
<1> SUFFICES ASSUME IInv, PrepareFails PROVE IInv'
  OBVIOUS
<1> USE DEF IInv
<1>1. /\ pc = "start" /\ planned' = src /\ sent' = {} /\ unprepared' = TRUE
      /\ UNCHANGED <<job, src, sidecar, n, marker, verdict, report>>
      /\ \/ pc' = "exit" /\ rc' = 1
         \/ pc' = "copy" /\ rc' = rc /\ job.mover = "tar"
  BY DEF PrepareFails, PreparationGuards
<1>2. dest' \in [Files \cup {LostFound} -> Contents]
  BY DestTyped DEF PrepareFails
<1>3. TypeOK'
  BY <1>1, <1>2 DEF TypeOK, PCs, Codes
<1>4. Copying'
  BY <1>1 DEF Copying
<1>5. Copied'
  BY <1>1 DEF Copied, Passes, Tolerated, Excused
<1>6. Left'
  BY <1>1 DEF Left
<1>7. Told' /\ Counted'
  BY <1>1 DEF Told, Counted
<1> QED BY <1>3, <1>4, <1>5, <1>6, <1>7

LEMMA CarryIInv == IInv /\ Carry => IInv'
<1> SUFFICES ASSUME IInv, Carry PROVE IInv'
  OBVIOUS
<1> USE DEF IInv
<1>1. PICK f \in (planned \cap src) \ sent :
        /\ sent' = sent \cup {f}
        /\ dest' = IF Buffered THEN dest ELSE [dest EXCEPT ![f] = "new"]
  BY DEF Carry
<1>2. /\ pc = "copy"
      /\ UNCHANGED <<job, src, sidecar, pc, n, rc, planned, marker, verdict, report, unprepared>>
  BY DEF Carry
<1>3. f \in Files /\ planned \subseteq Files
  BY DEF TypeOK
<1>4. TypeOK'
  BY <1>1, <1>2, <1>3 DEF TypeOK, Contents
<1>5. Copying'
  <2>1. Buffered' = Buffered
    BY <1>2 DEF Buffered
  <2>2. ~Buffered => \A g \in sent' : dest'[g] = "new"
    BY <1>1, <1>2, <1>3 DEF Copying, TypeOK
  <2>3. ~unprepared /\ Clears(job) => \A g \in Files \ planned : dest'[g] = "none"
    BY <1>1, <1>2, <1>3 DEF Copying, TypeOK
  <2> QED BY <1>2, <2>1, <2>2, <2>3 DEF Copying
<1>6. Copied'
  BY <1>2 DEF Copied
<1>7. Left'
  BY <1>2 DEF Left
<1>8. Told' /\ Counted'
  BY <1>2 DEF Told, Counted
<1> QED BY <1>4, <1>5, <1>6, <1>7, <1>8

LEMMA FinishIInv == IInv /\ Finish => IInv'
<1> SUFFICES ASSUME IInv, Finish PROVE IInv'
  OBVIOUS
<1> USE DEF IInv
<1> DEFINE missed == ~(planned \subseteq sent)
<1>1. /\ pc = "copy" /\ pc' = "exit" /\ planned \cap src \subseteq sent
      /\ UNCHANGED <<job, src, sidecar, n, planned, sent, marker, verdict, report, unprepared>>
  BY DEF Finish
<1>2. job \in Jobs /\ planned \subseteq Files /\ sent \subseteq planned
      /\ dest \in [Files \cup {LostFound} -> Contents]
  BY DEF TypeOK
<1>3. /\ rc' \in Codes
      /\ rc' = 0 => planned \subseteq sent
      /\ job.mover \in {"rsync", "rclone"} /\ planned \subseteq sent => rc' = 0
  <2>1. PICK s \in FinishStatuses(job, missed) : rc' = PipeStatus(s[1], s[2])
    BY DEF Finish
  <2>2. missed \in BOOLEAN
    OBVIOUS
  <2> QED BY <1>2, <2>1, <2>2, FinishStatus
<1>4. \/ /\ ~DryRun(job) /\ job.mover \in {"rsync", "rclone"} /\ Replaces(job)
         /\ dest' = Without(Extraneous) \/ (rc' # 0 /\ dest' = dest)
      \/ /\ ~DryRun(job) /\ job.mover = "stream" /\ job.dir = "backup"
         /\ dest' = Uploaded
      \/ /\ DryRun(job) \/ job.mover \notin {"rsync", "rclone"} \/ ~Replaces(job)
         /\ DryRun(job) \/ ~(job.mover = "stream" /\ job.dir = "backup")
         /\ dest' = dest
  BY DEF Finish
<1>5. dest' \in [Files \cup {LostFound} -> Contents]
  BY <1>2, <1>4, DestTyped
<1>6. TypeOK'
  BY <1>1, <1>3, <1>5 DEF TypeOK, PCs
<1>7. src \subseteq planned /\ src \subseteq sent
  BY <1>1 DEF Copying
<1>8. ~DryRun(job) => \A f \in sent : dest'[f] = "new"
  <2> SUFFICES ASSUME ~DryRun(job), NEW f \in sent PROVE dest'[f] = "new"
    OBVIOUS
  <2>1. f \in Files \cup {LostFound} /\ f \notin Extraneous
    BY <1>2 DEF Extraneous
  <2>2. CASE job.mover = "stream" /\ job.dir = "backup"
    BY <1>4, <2>1, <2>2, DestTyped
  <2>3. CASE ~(job.mover = "stream" /\ job.dir = "backup")
    <3>1. dest[f] = "new"
      BY <1>1, <2>3 DEF Copying, Buffered
    <3>2. dest' = Without(Extraneous) \/ dest' = dest
      BY <1>4, <2>3
    <3> QED BY <2>1, <3>1, <3>2, DestTyped
  <2> QED BY <2>2, <2>3
<1>9. ASSUME ~unprepared, Replaces(job), ~DryRun(job), planned \subseteq sent, NEW f \in Files \ planned
      PROVE  dest'[f] = "none"
  <2>1. f \in Files \cup {LostFound} /\ f \in Extraneous /\ f \notin sent
    BY <1>2 DEF Extraneous
  <2>2. CASE job.mover \in {"rsync", "rclone"}
    <3>1. dest' = Without(Extraneous)
      BY <1>3, <1>4, <1>9, <2>2
    <3> QED BY <2>1, <3>1, DestTyped
  <2>3. CASE job.mover = "stream" /\ job.dir = "backup"
    BY <1>4, <1>9, <2>1, <2>3, DestTyped
  <2>4. CASE job.mover \notin {"rsync", "rclone"} /\ ~(job.mover = "stream" /\ job.dir = "backup")
    <3>1. Clears(job)
      BY <1>2, <1>9, <2>4, JobFacts DEF Clears, Empties, Prepares, Replaces
    <3>2. dest' = dest
      BY <1>4, <2>4
    <3> QED BY <1>1, <1>9, <3>1, <3>2 DEF Copying
  <2> QED BY <2>2, <2>3, <2>4
<1>10. ~Excused => ~unprepared
  BY <1>1 DEF Copying, Excused
<1>11. job.mover = "rsync" /\ rc' \in Tolerated(job) => ~(planned \subseteq sent)
  BY <1>3 DEF Tolerated
<1>12. Copying'
  BY <1>1, <1>7 DEF Copying
<1>13. Copied'
  <2>1. Complete'
    BY <1>1, <1>7, <1>8 DEF Complete
  <2>2. ~Excused => Exact'
    BY <1>1, <1>9, <1>10 DEF Exact, Replaces
  <2>3. Excused' = Excused /\ Tolerated(job)' = Tolerated(job)
    BY <1>1 DEF Excused, Tolerated
  <2> QED BY <1>1, <1>3, <1>11, <2>1, <2>2, <2>3 DEF Copied
<1>14. Left'
  BY <1>1 DEF Left
<1>15. Told' /\ Counted'
  BY <1>1 DEF Told, Counted
<1> QED BY <1>6, <1>12, <1>13, <1>14, <1>15

LEMMA BreakIInv == IInv /\ Break => IInv'
<1> SUFFICES ASSUME IInv, Break PROVE IInv'
  OBVIOUS
<1> USE DEF IInv
<1>1. /\ pc = "copy" /\ pc' = "exit"
      /\ UNCHANGED <<job, src, sidecar, n, planned, sent, marker, verdict, report, unprepared>>
  BY DEF Break
<1>2. PICK s \in BreakStatuses(job) :
        rc' = PipeStatus(s[1], s[2]) /\ (dest' = Uploaded \/ dest' \in CutShort)
  BY DEF Break
<1>3. rc' \in Codes \ {0} /\ rc' \notin Tolerated(job)
  BY <1>2, BreakStatus DEF TypeOK
<1>4. TypeOK'
  BY <1>1, <1>2, <1>3, DestTyped DEF TypeOK, PCs
<1>5. Copying'
  BY <1>1 DEF Copying
<1>6. Copied'
  BY <1>1, <1>3 DEF Copied, Passes, Tolerated
<1>7. Left'
  BY <1>1 DEF Left
<1>8. Told' /\ Counted'
  BY <1>1 DEF Told, Counted
<1> QED BY <1>4, <1>5, <1>6, <1>7, <1>8

LEMMA UsageErrorIInv == IInv /\ UsageError => IInv'
<1> SUFFICES ASSUME IInv, UsageError PROVE IInv'
  OBVIOUS
<1> USE DEF IInv
<1>1. /\ pc = "copy" /\ pc' = "exit" /\ rc' = 1 /\ job.mover = "rsync"
      /\ UNCHANGED <<job, src, dest, sidecar, n, planned, sent, marker, verdict, report, unprepared>>
  BY DEF UsageError
<1>2. TypeOK'
  BY <1>1 DEF TypeOK, PCs, Codes
<1>3. Copying' /\ Copied'
  BY <1>1 DEF Copying, Copied, Passes, Tolerated
<1>4. Left'
  BY <1>1 DEF Left
<1>5. Told' /\ Counted'
  BY <1>1 DEF Told, Counted
<1> QED BY <1>2, <1>3, <1>4, <1>5

LEMMA SettleIInv == IInv /\ Settle => IInv'
<1> SUFFICES ASSUME IInv, Settle PROVE IInv'
  OBVIOUS
<1> USE DEF IInv
<1>1. /\ pc = "exit" /\ verdict = "running"
      /\ UNCHANGED <<job, src, dest, sidecar, planned, sent, unprepared, verdict, report>>
  BY DEF Settle, data, attempt
<1>2. n \in Nat /\ n <= MaxRetries /\ MaxRetries \in Nat
  BY <1>1, MaxRetriesAssumption DEF TypeOK, Counted
<1>3. /\ Complete' = Complete /\ Exact' = Exact /\ Excused' = Excused
      /\ Tolerated(job)' = Tolerated(job) /\ WithMetadata(job)' = WithMetadata(job)
  BY <1>1 DEF Complete, Exact, Excused, Replaces, Tolerated, WithMetadata, ShouldUploadMetadata
<1>4. pc' # "start" /\ pc' # "copy" /\ pc' # "exit" /\ pc' \in PCs
  BY DEF Settle, AfterLoop, PCs
<1>5. Copying' /\ Copied'
  BY <1>1, <1>4 DEF Copying, Copied
<1>6. sidecar # "new"
  BY <1>1 DEF Left
<1>7. CASE rc = 0
  <2>1. pc' = AfterLoop(0) /\ n' = (IF pc' = "metadata" THEN 0 ELSE n) /\ rc' = rc /\ marker' = marker
    BY <1>7 DEF Settle
  <2>2. pc' = IF WithMetadata(job) THEN "metadata" ELSE "end"
    BY <2>1 DEF AfterLoop
  <2>3. TypeOK'
    BY <1>1, <1>2, <1>4, <2>1 DEF TypeOK
  <2>4. Counted'
    BY <1>2, <2>1 DEF Counted
  <2>5. Left'
    BY <1>1, <1>3, <1>6, <1>7, <2>1, <2>2 DEF Left, Copied, Passes
  <2>6. Told'
    BY <1>1, <1>3, <2>1 DEF Told
  <2> QED BY <1>5, <2>3, <2>4, <2>5, <2>6
<1>8. CASE rc # 0 /\ rc \in Tolerated(job)
  <2>1. pc' = AfterLoop(0) /\ n' = n /\ rc' = 0 /\ marker' = TRUE
    BY <1>8 DEF Settle
  <2>2. pc' = IF WithMetadata(job) THEN "metadata" ELSE "end"
    BY <2>1 DEF AfterLoop
  <2>3. TypeOK'
    BY <1>1, <1>4, <2>1 DEF TypeOK, Codes
  <2>4. Counted'
    BY <1>2, <2>1 DEF Counted
  <2>5. Left'
    BY <1>1, <1>3, <1>6, <1>8, <2>1, <2>2 DEF Left, Copied, Passes
  <2>6. Told'
    BY <1>1, <1>3, <2>1 DEF Told, Left
  <2> QED BY <1>5, <2>3, <2>4, <2>5, <2>6
<1>9. CASE rc # 0 /\ rc \notin Tolerated(job)
  <2>1. /\ rc' = rc /\ marker' = marker /\ pc' \in {"end", "sleep"}
        /\ n' \in {n, n + 1} /\ (pc' = "sleep" => n' <= MaxRetries)
    BY <1>2, <1>9 DEF Settle, AfterLoop, Exhausted, Incremented
  <2>2. TypeOK'
    BY <1>1, <1>2, <1>4, <2>1 DEF TypeOK
  <2>3. Counted'
    BY <2>1 DEF Counted
  <2>4. Left'
    BY <1>1, <1>3, <1>6, <1>9, <2>1 DEF Left
  <2>5. Told'
    BY <1>1, <1>3, <2>1 DEF Told
  <2> QED BY <1>5, <2>2, <2>3, <2>4, <2>5
<1> QED BY <1>7, <1>8, <1>9

LEMMA MetadataIInv == IInv /\ Metadata => IInv'
<1> SUFFICES ASSUME IInv, Metadata PROVE IInv'
  OBVIOUS
<1> USE DEF IInv
<1>1. /\ pc = "metadata" /\ verdict = "running" /\ rc = 0 /\ WithMetadata(job) /\ sidecar # "new"
      /\ UNCHANGED <<job, src, dest, planned, sent, unprepared, marker, verdict, report>>
  BY DEF Metadata, attempt, Left
<1>2. n \in Nat /\ n <= MaxRetries /\ MaxRetries \in Nat
  BY <1>1, MaxRetriesAssumption DEF TypeOK, Counted
<1>3. \/ sidecar' = "new" /\ pc' = "end" /\ n' = n /\ rc' = rc
      \/ sidecar' \in {sidecar, "part"} /\ rc' = 1 /\ pc' = "end" /\ n' = n
      \/ sidecar' = sidecar /\ rc' = 1 /\ pc' = "end" /\ n' = n + 1
      \/ sidecar' = sidecar /\ rc' = rc /\ pc' = "metadata" /\ n' = n + 1 /\ n' <= MaxRetries
  BY <1>2 DEF Metadata, Exhausted, Incremented
<1>4. /\ Complete' = Complete /\ Exact' = Exact /\ Excused' = Excused
      /\ Tolerated(job)' = Tolerated(job) /\ WithMetadata(job)' = WithMetadata(job)
  BY <1>1 DEF Complete, Exact, Excused, Replaces, Tolerated, WithMetadata, ShouldUploadMetadata
<1>5. TypeOK'
  BY <1>1, <1>2, <1>3 DEF TypeOK, PCs, Codes, Contents
<1>6. Copying' /\ Copied' /\ Counted'
  BY <1>1, <1>3 DEF Copying, Copied, Counted
<1>7. Left'
  BY <1>1, <1>3, <1>4 DEF Left
<1>8. Told'
  BY <1>1, <1>4 DEF Told
<1> QED BY <1>5, <1>6, <1>7, <1>8

LEMMA SleepIInv == IInv /\ Sleep => IInv'
<1> SUFFICES ASSUME IInv, Sleep PROVE IInv'
  OBVIOUS
<1> USE DEF IInv
<1>1. /\ pc = "sleep" /\ pc' = "start"
      /\ UNCHANGED <<job, src, dest, sidecar, planned, sent, unprepared, n, rc, marker, verdict, report>>
  BY DEF Sleep, data, attempt
<1>2. TypeOK'
  BY <1>1 DEF TypeOK, PCs
<1>3. Copying' /\ Copied' /\ Counted'
  BY <1>1 DEF Copying, Copied, Counted
<1>4. Left'
  BY <1>1 DEF Left
<1>5. Told'
  BY <1>1 DEF Told
<1> QED BY <1>2, <1>3, <1>4, <1>5

\* Steps that change neither the attempt nor the status of the script.
LEMMA QuietIInv ==
    ASSUME IInv, UNCHANGED <<job, dest, sidecar, planned, sent, unprepared, pc, n, rc, marker>>,
           src' \subseteq src, verdict' \in {"running", "succeeded", "failed"},
           verdict' = "succeeded" => pc = "end" /\ rc = 0, report' \in Reports,
           report' = "quiet" => verdict' = "succeeded" /\ (job.mover = "rsync" => ~marker),
           report' = "warned" => marker
    PROVE  IInv'
<1> USE DEF IInv
<1>1. TypeOK'
  BY DEF TypeOK
<1>2. Exact' = Exact /\ Excused' = Excused /\ (Complete => Complete')
  BY DEF Exact, Excused, Replaces, Complete
<1>3. Copying'
  BY DEF Copying, Buffered, Clears
<1>4. Copied'
  BY <1>2 DEF Copied, Passes
<1>5. Left'
  BY <1>2 DEF Left
<1>6. Told' /\ Counted'
  BY DEF Told, Counted
<1> QED BY <1>1, <1>3, <1>4, <1>5, <1>6

LEMMA ExitIInv == IInv /\ Exit => IInv'
<1> SUFFICES ASSUME IInv, Exit PROVE IInv'
  OBVIOUS
<1>1. /\ pc = "end" /\ verdict = "running" /\ verdict' = IF rc = 0 THEN "succeeded" ELSE "failed"
      /\ UNCHANGED <<job, src, dest, sidecar, planned, sent, unprepared, pc, n, rc, marker, report>>
  BY DEF Exit, data, attempt
<1>2. report \in Reports /\ report # "quiet" /\ (report = "warned" => marker)
  BY <1>1 DEF IInv, TypeOK, Told
<1> QED BY <1>1, <1>2, QuietIInv

LEMMA VanishIInv == IInv /\ Vanish => IInv'
<1> SUFFICES ASSUME IInv, Vanish PROVE IInv'
  OBVIOUS
<1>1. /\ verdict = "running" /\ src' \subseteq src
      /\ UNCHANGED <<job, dest, sidecar, planned, sent, unprepared, pc, n, rc, marker, verdict, report>>
  BY DEF Vanish, attempt
<1>2. report \in Reports /\ report # "quiet" /\ (report = "warned" => marker)
  BY <1>1 DEF IInv, TypeOK, Told
<1> QED BY <1>1, <1>2, QuietIInv

LEMMA ClientIInv == IInv /\ ClientStep => IInv'
<1> SUFFICES ASSUME IInv, ClientStep PROVE IInv'
  OBVIOUS
<1>1. /\ UNCHANGED <<job, src, dest, sidecar, planned, sent, unprepared, pc, n, rc, marker, verdict>>
      /\ \/ /\ verdict = "succeeded"
            /\ report' \in {"unread", IF marker /\ job.mover = "rsync" THEN "warned" ELSE "quiet"}
         \/ verdict = "failed" /\ report' \in {JobSuffix(job), "status"}
  BY DEF ClientStep, WarnIfSourceFilesVanished, ExplainFailure, data, attempt
<1>2. verdict \in {"running", "succeeded", "failed"} /\ (verdict = "succeeded" => pc = "end" /\ rc = 0)
  BY DEF IInv, TypeOK, Left
<1>3. JobSuffix(job) \in {"rsync", "rclone", "tar"}
  BY DEF JobSuffix
<1> QED BY <1>1, <1>2, <1>3, QuietIInv DEF Reports

LEMMA KilledIInv == IInv /\ Killed => IInv'
<1> SUFFICES ASSUME IInv, Killed PROVE IInv'
  OBVIOUS
<1> USE DEF IInv
<1>1. /\ verdict = "running" /\ verdict' = "failed"
      /\ UNCHANGED <<job, src, planned, sent, unprepared, pc, n, rc, marker, report>>
  BY DEF Killed, attempt
<1>2. /\ dest' \in [Files \cup {LostFound} -> Contents]
      /\ pc = "copy" => \A f \in Files : f \notin planned \ sent => dest'[f] = dest[f]
      /\ pc \notin {"copy", "start"} => dest' = dest
  <2>1. CASE pc = "copy"
    <3>1. dest' \in CutShort
      BY <2>1 DEF Killed
    <3> QED BY <2>1, <3>1, DestTyped
  <2>2. CASE pc # "copy"
    <3>1. dest' = dest \/ (pc = "start" /\ \E gone : dest' = Without(gone))
      BY <2>2 DEF Killed
    <3>2. dest \in [Files \cup {LostFound} -> Contents]
      BY DEF TypeOK
    <3> QED BY <2>2, <3>1, <3>2, DestTyped
  <2> QED BY <2>1, <2>2
<1>3. sidecar' = sidecar \/ (pc = "metadata" /\ sidecar' = "part")
  BY DEF Killed
<1>4. TypeOK'
  BY <1>1, <1>2, <1>3 DEF TypeOK, Contents
<1>5. Copying'
  <2>1. sent \subseteq Files /\ Buffered' = Buffered
    BY <1>1 DEF TypeOK, Buffered
  <2> QED BY <1>1, <1>2, <2>1 DEF Copying
<1>6. pc \notin {"copy", "start"} => Exact' = Exact /\ Excused' = Excused /\ Complete' = Complete
  BY <1>1, <1>2 DEF Exact, Excused, Replaces, Complete
<1>7. Copied'
  BY <1>1, <1>6 DEF Copied, Passes
<1>8. Left'
  BY <1>1, <1>3, <1>6 DEF Left
<1>9. Told' /\ Counted'
  BY <1>1 DEF Told, Counted
<1> QED BY <1>4, <1>5, <1>7, <1>8, <1>9

LEMMA NextIInv == IInv /\ [Next]_vars => IInv'
<1> SUFFICES ASSUME IInv, [Next]_vars PROVE IInv'
  OBVIOUS
<1>1. CASE UNCHANGED vars
  <2>1. UNCHANGED <<job, src, dest, sidecar, planned, sent, unprepared, pc, n, rc, marker, verdict, report>>
    BY <1>1 DEF vars
  <2>2. /\ verdict \in {"running", "succeeded", "failed"} /\ report \in Reports
        /\ verdict = "succeeded" => pc = "end" /\ rc = 0
        /\ report = "quiet" => verdict = "succeeded" /\ (job.mover = "rsync" => ~marker)
        /\ report = "warned" => marker
    BY DEF IInv, TypeOK, Left, Told
  <2> QED BY <2>1, <2>2, QuietIInv
<1>2. CASE ScriptStep
  BY <1>2, StartIInv, PrepareFailsIInv, SettleIInv, SleepIInv, MetadataIInv, ExitIInv DEF ScriptStep
<1>3. CASE MoverStep
  BY <1>3, CarryIInv, FinishIInv, BreakIInv, UsageErrorIInv DEF MoverStep
<1>4. CASE ClientStep
  BY <1>4, ClientIInv
<1>5. CASE Killed \/ Vanish
  BY <1>5, KilledIInv, VanishIInv
<1> QED BY <1>1, <1>2, <1>3, <1>4, <1>5 DEF Next, Done

LEMMA Invariance == Spec => []IInv
BY InitIInv, NextIInv, PTL DEF Spec

-----------------------------------------------------------------------------
(* Theorems *)

\* The script and the movers keep every variable in its type; no attempt is made
\* beyond the retries of the chart.
THEOREM TypeCorrect == Spec => []TypeOK
<1>1. IInv => TypeOK
  BY DEF IInv
<1> QED BY <1>1, Invariance, PTL

\* A job succeeds only with every file that was at the source all the while whole
\* at its destination (pipefail, the exit policies, the retry loops).
THEOREM SuccessIsCopied == Spec => []SuccessMeansCopied
<1>1. IInv => SuccessMeansCopied
  BY DEF IInv, Left, Complete, Excused, SuccessMeansCopied
<1> QED BY <1>1, Invariance, PTL

\* Where a job is to replace its destination and has missed no file, a success
\* leaves nothing there but what its last attempt carried (cleanCmd, --delete,
\* rclone sync).
THEOREM SuccessIsExact == Spec => []SuccessMeansExact
<1>1. IInv => SuccessMeansExact
  <2> SUFFICES ASSUME IInv, verdict = "succeeded", ~DryRun(job), ~Excused, Replaces(job),
                      planned \subseteq sent, NEW f \in Files
               PROVE  dest[f] = IF f \in planned THEN "new" ELSE "none"
    BY DEF SuccessMeansExact, Excused
  <2>1. Complete /\ Exact
    BY DEF IInv, Left
  <2> QED BY <2>1 DEF Complete, Exact
<1> QED BY <1>1, Invariance, PTL

\* A new sidecar stands next to the whole of the data it describes, and a backup
\* that is to have one does not succeed without (templates/rclone/job.yaml).
THEOREM SidecarIsLast == Spec => []SidecarFollowsData
<1>1. IInv => SidecarFollowsData
  <2> SUFFICES ASSUME IInv PROVE SidecarFollowsData
    OBVIOUS
  <2>1. job \in Jobs /\ sent \subseteq planned
    BY DEF IInv, TypeOK
  <2>2. WithMetadata(job) => ~DryRun(job) /\ Tolerated(job) = {} /\ ~Excused
    BY <2>1, JobFacts DEF WithMetadata, ShouldUploadMetadata, Tolerated, Excused, DryRun
  <2>3. sidecar = "new" => Complete /\ planned \subseteq sent /\ WithMetadata(job)
    BY <2>2 DEF IInv, Left
  <2>4. sidecar = "new" => planned = sent /\ \A f \in planned : dest[f] = "new"
    BY <2>1, <2>2, <2>3 DEF Complete
  <2>5. verdict = "succeeded" => (sidecar = "new" <=> WithMetadata(job))
    BY DEF IInv, Left
  <2> QED BY <2>4, <2>5 DEF SidecarFollowsData
<1> QED BY <1>1, Invariance, PTL

\* Of a migration by rsync that succeeded and whose log was read, the user is
\* warned exactly when the attempt that succeeded has skipped a file (the exit
\* policy and marker of templates/rsync/job.yaml, warnIfSourceFilesVanished).
THEOREM ReportIsHonest == Spec => []HonestReport
<1>1. IInv => HonestReport
  <2> SUFFICES ASSUME IInv, job.mover = "rsync"
               PROVE  /\ report = "quiet" => planned = sent
                      /\ report = "warned" => planned # sent
    BY DEF HonestReport
  <2>1. sent \subseteq planned
    BY DEF IInv, TypeOK
  <2>2. report = "quiet" => planned \subseteq sent
    BY DEF IInv, Told, Left
  <2>3. report = "warned" => ~(planned \subseteq sent)
    BY DEF IInv, Told, Left
  <2> QED BY <2>1, <2>2, <2>3
<1> QED BY <1>1, Invariance, PTL

\* What a step may not touch, for the steps that write at all.
Untouched ==
    /\ job.mover # "rclone" => dest'[LostFound] = dest[LostFound]
    /\ ~job.delete /\ job.dir # "backup" =>
           \A f \in (Files \cup {LostFound}) \ planned' : dest'[f] = dest[f]
    /\ DryRun(job) => UNCHANGED <<dest, sidecar>>

\* Emptying, cutting short and uploading leave lost+found alone, a file that is
\* not at the source is not cut short, and a dry run empties and cuts nothing.
LEMMA WritesLeaveAlone ==
    ASSUME TypeOK
    PROVE  /\ \A gone \in SUBSET Files : Without(gone)[LostFound] = dest[LostFound]
           /\ Without({}) = dest
           /\ \A d \in CutShort :
                  /\ d[LostFound] = dest[LostFound]
                  /\ \A f \in (Files \cup {LostFound}) \ planned : d[f] = dest[f]
                  /\ DryRun(job) => d = dest
           /\ DryRun(job) \/ ~job.delete => ~Empties(job)
           /\ DryRun(job) => job.mover # "file"
<1>1. dest \in [Files \cup {LostFound} -> Contents] /\ planned \subseteq Files /\ job \in Jobs
  BY DEF TypeOK
<1>2. Without({}) = dest
  BY <1>1 DEF Without
<1>3. \A d \in CutShort : \A f \in (Files \cup {LostFound}) \ planned : d[f] = dest[f]
  BY DestTyped
<1>4. LostFound \in (Files \cup {LostFound}) \ planned
  BY <1>1, FilesAssumption
<1>5. DryRun(job) => CutShort = {dest}
  BY DEF CutShort, Buffered
<1>6. (DryRun(job) \/ ~job.delete => ~Empties(job)) /\ (DryRun(job) => job.mover # "file")
  BY <1>1, JobFacts DEF Empties
<1>7. \A gone \in SUBSET Files : Without(gone)[LostFound] = dest[LostFound]
  BY DestTyped, FilesAssumption
<1> QED BY <1>2, <1>3, <1>4, <1>5, <1>6, <1>7

\* A bucket has no lost+found, so an uploaded archive takes none away.
Rootless == job.mover = "stream" /\ job.dir = "backup" => dest[LostFound] = "none"

LEMMA StepLeavesAlone == IInv /\ Rootless /\ [Next]_vars => [Untouched]_vars
<1> SUFFICES ASSUME IInv, Rootless, Next PROVE Untouched
  OBVIOUS
<1>0. TypeOK /\ LostFound \notin Files /\ job \in Jobs
  BY FilesAssumption DEF IInv, TypeOK
<1>1. CASE UNCHANGED <<dest, sidecar>>
  BY <1>1 DEF Untouched
<1>2. CASE Start
  <2>1. sidecar' = sidecar
        /\ dest' = Without(IF Empties(job) \/ (job.mover = "file" /\ job.dir = "backup")
                           THEN Emptied ELSE {})
    BY <1>2 DEF Start
  <2> QED BY <1>0, <2>1, WritesLeaveAlone DEF Untouched, Emptied
<1>3. CASE PrepareFails
  <2>1. PICK gone \in SUBSET (IF Empties(job) THEN Emptied ELSE {}) : dest' = Without(gone)
    BY <1>3 DEF PrepareFails
  <2>2. gone \in SUBSET Files /\ (~Empties(job) => gone = {})
    BY DEF Emptied
  <2>3. sidecar' = sidecar
    BY <1>3 DEF PrepareFails
  <2> QED BY <1>0, <2>1, <2>2, <2>3, WritesLeaveAlone DEF Untouched
<1>4. CASE Carry
  <2>1. PICK f \in (planned \cap src) \ sent :
          dest' = IF Buffered THEN dest ELSE [dest EXCEPT ![f] = "new"]
    BY <1>4 DEF Carry
  <2>2. f \in Files /\ f # LostFound /\ sidecar' = sidecar /\ planned' = planned
    BY <1>0, <1>4 DEF TypeOK, Carry
  <2> QED BY <1>0, <2>1, <2>2 DEF Untouched, Buffered, TypeOK
<1>5. CASE Finish
  <2>1. sidecar' = sidecar
    BY <1>5 DEF Finish
  <2>2. (DryRun(job) \/ (~job.delete /\ job.dir # "backup")) => dest' = dest
    BY <1>5 DEF Finish, Replaces
  <2>3. job.mover # "rclone" =>
            \/ dest' = dest \/ dest' = Without(Files \ planned)
            \/ dest' = Uploaded /\ job.mover = "stream" /\ job.dir = "backup"
    BY <1>5 DEF Finish, Extraneous
  <2>4. Without(Files \ planned)[LostFound] = dest[LostFound]
    BY <1>0, WritesLeaveAlone
  <2>5. Uploaded[LostFound] = "none"
    BY <1>0, DestTyped DEF TypeOK
  <2> QED BY <2>1, <2>2, <2>3, <2>4, <2>5 DEF Untouched, Rootless
<1>6. CASE Break
  <2>1. sidecar' = sidecar /\ planned' = planned
    BY <1>6 DEF Break
  <2>2. \/ dest' \in CutShort
        \/ dest' = Uploaded /\ ~DryRun(job) /\ job.mover = "stream" /\ job.dir = "backup"
    BY <1>6 DEF Break
  <2>3. Uploaded[LostFound] = "none"
    BY <1>0, DestTyped DEF TypeOK
  <2> QED BY <1>0, <2>1, <2>2, <2>3, WritesLeaveAlone DEF Untouched, Rootless
<1>7. CASE Metadata
  <2>1. dest' = dest /\ WithMetadata(job)
    BY <1>7 DEF Metadata, IInv, Left
  <2>2. ~DryRun(job)
    BY <1>0, <2>1, JobFacts DEF WithMetadata, ShouldUploadMetadata, DryRun
  <2> QED BY <2>1, <2>2 DEF Untouched
<1>8. CASE Killed
  <2>1. planned' = planned /\ (sidecar' = sidecar \/ job.mover = "file")
    BY <1>8 DEF Killed, attempt
  <2>2. \/ dest' \in CutShort \/ dest' = dest
        \/ Empties(job) /\ \E gone \in SUBSET Files : dest' = Without(gone)
    BY <1>8 DEF Killed, Emptied
  <2> QED BY <1>0, <2>1, <2>2, WritesLeaveAlone DEF Untouched
<1>9. CASE UsageError \/ Settle \/ Sleep \/ Exit \/ ClientStep \/ Vanish \/ Done
  <2>1. UNCHANGED <<dest, sidecar>>
    BY <1>9 DEF UsageError, Settle, Sleep, Exit, ClientStep, WarnIfSourceFilesVanished,
               ExplainFailure, Vanish, Done, data, vars
  <2> QED BY <1>1, <2>1
<1> QED BY <1>2, <1>3, <1>4, <1>5, <1>6, <1>7, <1>8, <1>9 DEF Next, ScriptStep, MoverStep

\* No step of a job touches the volume's own lost+found where the mover is not
\* rclone, a file the source does not have where none may be deleted, or anything
\* in a dry run (cleanCmd, lostFoundExclude, sync or copy in rclone.Cmd, the
\* dry-run checks of the sidecar).
THEOREM LeftAlone == Spec => LeavesAlone
<1>1. Init => Rootless
  <2> SUFFICES ASSUME Init, job.dir = "backup" PROVE dest[LostFound] = "none"
    BY DEF Rootless
  <2> QED BY FilesAssumption DEF Init
<1>2. IInv /\ Rootless /\ [Next]_vars => Rootless'
  <2> SUFFICES ASSUME IInv, Rootless, [Next]_vars PROVE Rootless'
    OBVIOUS
  <2>1. CASE UNCHANGED vars
    BY <2>1 DEF Rootless, vars
  <2>2. CASE Next /\ Untouched
    <3>1. job' = job
      BY <2>2 DEF Next, ScriptStep, MoverStep, ClientStep, Start, PrepareFails, Settle, Sleep,
                 Metadata, Exit, Carry, Finish, Break, UsageError, WarnIfSourceFilesVanished,
                 ExplainFailure, Killed, Vanish, Done, vars
    <3> QED BY <2>2, <3>1 DEF Untouched, Rootless
  <2> QED BY <2>1, <2>2, StepLeavesAlone
<1>3. [Untouched]_vars =>
        [/\ job.mover # "rclone" => dest'[LostFound] = dest[LostFound]
         /\ ~job.delete /\ job.dir # "backup" =>
                \A f \in (Files \cup {LostFound}) \ planned' : dest'[f] = dest[f]
         /\ DryRun(job) => UNCHANGED <<dest, sidecar>>]_vars
  BY DEF Untouched
<1> QED BY <1>1, <1>2, <1>3, StepLeavesAlone, Invariance, PTL DEF Spec, LeavesAlone

=============================================================================
