---------------------------- MODULE CleanupProofs ---------------------------
(* Any number of cleanups against any number of operations.                  *)
EXTENDS Cleanup, TLAPS

-----------------------------------------------------------------------------
(* The inductive invariant *)

\* An operation installs its release once.  Whatever a cleanup has heard of was
\* installed, so neither the release nor its leftovers can be made again.
Installed(r) == owner[r] \notin {"idle", "making"}

Once ==
    /\ \A r \in release : Installed(r)
    /\ \A c \in Cleaners : \A r \in listed[c] \cup todo[c] \cup current[c] : Installed(r)
    /\ \A r \in Releases : ~Installed(r) => job[r] = "none"
    /\ \A r \in Releases : left[r] # {} => r.snap /\ owner[r] # "idle"

\* The release whose leftovers a cleanup is removing.
InHand(c) == IF pc[c] \in {"claims", "snapshots"} THEN current[c] ELSE {}

\* A cleanup that removes is through with what it listed, but for what is still
\* to do and for the leftovers of the release in hand.
Through(c) ==
    /\ pc[c] = "idle" => listed[c] = {}
    /\ pc[c] = "check" => todo[c] = listed[c]
    /\ pc[c] \in {"next", "claims", "snapshots"} =>
           \A r \in listed[c] \ todo[c] :
               r \notin release /\ (r \notin InHand(c) => left[r] = {})
    /\ pc[c] = "snapshots" => \A r \in current[c] : "claim" \notin left[r]
    /\ pc[c] = "done" /\ ~failed[c] =>
           \A r \in listed[c] : r \notin release /\ left[r] = {}

\* A job that has been active since the listing is still to be looked at, or is
\* not where the check looks.
Looked(c) ==
    /\ \A r \in busy[c] : job[r] = "active"
    /\ pc[c] = "check" => \A r \in busy[c] : r \in unchecked[c] \/ r.jobNs # r.ns
    /\ pc[c] \in {"next", "claims", "snapshots"} /\ ~cmd[c].force =>
           \A r \in busy[c] : r.jobNs # r.ns

IInv ==
    /\ TypeOK /\ Once /\ StrandedOnlyByError
    /\ \A c \in Cleaners : Through(c) /\ Looked(c)

-----------------------------------------------------------------------------
(* Initially *)

LEMMA Initially == Init => IInv
<1> SUFFICES ASSUME Init PROVE IInv
  OBVIOUS
<1> USE DEF Init
<1>1. TypeOK
  BY CommandsAssumption DEF TypeOK, PCs
<1>2. Once
  BY DEF Once, Installed
<1>3. StrandedOnlyByError
  BY DEF StrandedOnlyByError
<1>4. \A c \in Cleaners : Through(c) /\ Looked(c)
  BY DEF Through, Looked
<1> QED BY <1>1, <1>2, <1>3, <1>4 DEF IInv

-----------------------------------------------------------------------------
(* The steps of a cleanup *)

\* The command lists, and what it lists is installed.
LEMMA ListStep ==
    ASSUME IInv, NEW c \in Cleaners, List(c)
    PROVE  IInv'
<1> USE DEF IInv
<1> PICK q \in Commands :
        LET found == {r \in release : Matches(q, r)}
        IN  /\ cmd' = [cmd EXCEPT ![c] = q]
            /\ \/ /\ found # {}
                  /\ pc' = [pc EXCEPT ![c] = IF q.force THEN "next" ELSE "check"]
                  /\ unchecked' = [unchecked EXCEPT ![c] = IF q.force THEN {} ELSE found]
                  /\ todo' = [todo EXCEPT ![c] = found]
                  /\ listed' = [listed EXCEPT ![c] = found]
                  /\ busy' = [busy EXCEPT ![c] = {r \in found : job[r] = "active"}]
                  /\ UNCHANGED failed
               \/ /\ found = {}
                  /\ pc' = [pc EXCEPT ![c] = "done"]
                  /\ failed' = [failed EXCEPT ![c] = ~q.all]
                  /\ UNCHANGED <<unchecked, todo, listed, busy>>
  BY DEF List
<1> DEFINE found == {r \in release : Matches(q, r)}
<1>0. /\ pc[c] = "idle" /\ UNCHANGED <<release, job, left, owner, current, stranded>>
      /\ found \subseteq release /\ found \subseteq Releases
  BY DEF List, TypeOK
<1>a. CASE /\ pc' = [pc EXCEPT ![c] = IF q.force THEN "next" ELSE "check"]
           /\ unchecked' = [unchecked EXCEPT ![c] = IF q.force THEN {} ELSE found]
           /\ todo' = [todo EXCEPT ![c] = found]
           /\ listed' = [listed EXCEPT ![c] = found]
           /\ busy' = [busy EXCEPT ![c] = {r \in found : job[r] = "active"}]
           /\ UNCHANGED failed
  <2> HIDE DEF found
  <2>1. TypeOK'
    BY <1>0, <1>a DEF TypeOK, PCs
  <2>2. Once'
    BY <1>0, <1>a DEF TypeOK, Once, Installed
  <2>3. StrandedOnlyByError'
    BY <1>0, <1>a DEF TypeOK, StrandedOnlyByError
  <2>4. ASSUME NEW d \in Cleaners PROVE Through(d)' /\ Looked(d)'
    <3>1. CASE d = c
      BY <1>0, <1>a, <3>1 DEF TypeOK, Through, Looked, InHand
    <3>2. CASE d # c
      BY <1>0, <1>a, <3>2 DEF TypeOK, Through, Looked, InHand
    <3> QED BY <3>1, <3>2
  <2> QED BY <2>1, <2>2, <2>3, <2>4
<1>b. CASE /\ pc' = [pc EXCEPT ![c] = "done"]
           /\ failed' = [failed EXCEPT ![c] = ~q.all]
           /\ UNCHANGED <<unchecked, todo, listed, busy>>
  <2>1. TypeOK'
    <3>1. (~q.all) \in BOOLEAN
      BY Zenon
    <3> QED BY <1>0, <1>b, <3>1 DEF TypeOK, PCs
  <2>2. Once'
    BY <1>0, <1>b DEF TypeOK, Once, Installed
  <2>3. StrandedOnlyByError'
    BY <1>0, <1>b DEF TypeOK, StrandedOnlyByError
  <2>4. ASSUME NEW d \in Cleaners PROVE Through(d)' /\ Looked(d)'
    BY <1>0, <1>b DEF TypeOK, Through, Looked, InHand
  <2> QED BY <2>1, <2>2, <2>3, <2>4
<1> QED BY <1>a, <1>b

\* A command that gives up removes nothing more and reports no success.
LEMMA GiveUpStep ==
    ASSUME IInv, NEW c \in Cleaners, GiveUp(c),
           UNCHANGED <<release, job, left, owner, cmd>>,
           stranded' \in SUBSET Releases
    PROVE  TypeOK' /\ Once' /\ \A d \in Cleaners : Through(d)' /\ Looked(d)'
<1> USE DEF IInv, GiveUp
<1>1. TypeOK'
  BY DEF TypeOK, PCs
<1>2. Once'
  BY DEF TypeOK, Once, Installed
<1>3. ASSUME NEW d \in Cleaners PROVE Through(d)' /\ Looked(d)'
  <2>1. CASE d = c
    BY <2>1 DEF TypeOK, Through, Looked, InHand
  <2>2. CASE d # c
    BY <2>2 DEF TypeOK, Through, Looked, InHand
  <2> QED BY <2>1, <2>2
<1> QED BY <1>1, <1>2, <1>3

\* It strands nothing when it has no release in hand.
LEMMA GiveUpEarly ==
    ASSUME IInv, NEW c \in Cleaners, GiveUp(c), pc[c] \in {"check", "next"},
           UNCHANGED <<release, job, left, owner, cmd, stranded>>
    PROVE  IInv'
<1>1. TypeOK' /\ Once' /\ \A d \in Cleaners : Through(d)' /\ Looked(d)'
  <2>1. stranded' \in SUBSET Releases
    BY DEF IInv, TypeOK
  <2> QED BY <2>1, GiveUpStep
<1>2. StrandedOnlyByError'
  BY DEF IInv, TypeOK, StrandedOnlyByError, GiveUp
<1> QED BY <1>1, <1>2 DEF IInv

\* The check takes a release off the list only when its job is not active there.
LEMMA CheckJobsStep ==
    ASSUME IInv, NEW c \in Cleaners, CheckJobs(c)
    PROVE  IInv'
<1> USE DEF IInv
<1>0. pc[c] = "check" /\ UNCHANGED <<release, job, left, owner, cmd, stranded>>
  BY DEF CheckJobs
<1>1. CASE /\ unchecked[c] = {}
           /\ pc' = [pc EXCEPT ![c] = "next"]
           /\ UNCHANGED <<unchecked, failed, todo, current, listed, busy>>
  <2>1. TypeOK'
    BY <1>0, <1>1 DEF TypeOK, PCs
  <2>2. Once'
    BY <1>0, <1>1 DEF Once, Installed
  <2>3. StrandedOnlyByError'
    BY <1>0, <1>1 DEF TypeOK, StrandedOnlyByError
  <2>4. ASSUME NEW d \in Cleaners PROVE Through(d)' /\ Looked(d)'
    BY <1>0, <1>1 DEF TypeOK, Through, Looked, InHand
  <2> QED BY <2>1, <2>2, <2>3, <2>4
<1>2. CASE \E r \in unchecked[c] :
            /\ ~(job[r] = "active" /\ r.jobNs = r.ns)
            /\ unchecked' = CheckedRest(c, r)
            /\ UNCHANGED <<pc, failed, todo, current, listed, busy>>
  <2> PICK r \in unchecked[c] :
            /\ ~(job[r] = "active" /\ r.jobNs = r.ns)
            /\ unchecked' = [unchecked EXCEPT ![c] = @ \ {r}]
            /\ UNCHANGED <<pc, failed, todo, current, listed, busy>>
    BY <1>2 DEF CheckedRest
  <2>1. TypeOK'
    BY <1>0 DEF TypeOK, PCs
  <2>2. Once'
    BY <1>0 DEF Once, Installed
  <2>3. StrandedOnlyByError'
    BY <1>0 DEF StrandedOnlyByError
  <2>4. ASSUME NEW d \in Cleaners PROVE Through(d)' /\ Looked(d)'
    <3>1. Through(d)'
      BY <1>0 DEF Through, InHand
    <3>2. Looked(d)'
      BY <1>0 DEF TypeOK, Looked
    <3> QED BY <3>1, <3>2
  <2> QED BY <2>1, <2>2, <2>3, <2>4
<1>3. CASE GiveUp(c)
  BY <1>0, <1>3, GiveUpEarly
<1> QED BY <1>1, <1>2, <1>3 DEF CheckJobs

\* A release goes and becomes the one in hand.
LEMMA UninstallStep ==
    ASSUME IInv, NEW c \in Cleaners, UninstallRelease(c)
    PROVE  IInv'
<1> USE DEF IInv
<1>0. pc[c] = "next" /\ UNCHANGED <<left, owner, cmd, stranded>>
  BY DEF UninstallRelease
<1> PICK r \in todo[c] :
        \/ /\ IF r \in release THEN DropRelease(r) ELSE UNCHANGED <<release, job, busy>>
           /\ todo' = [todo EXCEPT ![c] = @ \ {r}]
           /\ current' = [current EXCEPT ![c] = {r}]
           /\ pc' = [pc EXCEPT ![c] = "claims"]
           /\ UNCHANGED <<failed, unchecked, listed>>
        \/ /\ r \in release
           /\ GiveUp(c)
           /\ UNCHANGED <<release, job>>
  BY DEF UninstallRelease, Now, AfterUninstall
<1>1. CASE GiveUp(c) /\ UNCHANGED <<release, job>>
  BY <1>0, <1>1, GiveUpEarly
<1>2. CASE /\ IF r \in release THEN DropRelease(r) ELSE UNCHANGED <<release, job, busy>>
           /\ todo' = [todo EXCEPT ![c] = @ \ {r}]
           /\ current' = [current EXCEPT ![c] = {r}]
           /\ pc' = [pc EXCEPT ![c] = "claims"]
           /\ UNCHANGED <<failed, unchecked, listed>>
  <2>0. r \in Releases
    BY DEF TypeOK
  <2>1. /\ release' = release \ {r}
        /\ job' \in [Releases -> {"none", "created", "active"}]
        /\ busy' \in [Cleaners -> SUBSET Releases]
        /\ \A s \in Releases : job'[s] = job[s] \/ (s = r /\ job'[s] = "none")
        /\ \A d \in Cleaners : busy'[d] \subseteq busy[d]
        /\ \A d \in Cleaners : \A s \in busy'[d] : job'[s] = job[s]
    BY <1>2, <2>0 DEF TypeOK, DropRelease
  <2>2. TypeOK'
    <3>1. /\ current' \in [Cleaners -> SUBSET Releases]
          /\ current'[c] = {r} /\ \A d \in Cleaners : d # c => current'[d] = current[d]
      BY <1>2, <2>0 DEF TypeOK
    <3>2. \A d \in Cleaners : \A r1, r2 \in current'[d] : r1 = r2
      BY <3>1 DEF TypeOK
    <3>3. todo' \in [Cleaners -> SUBSET Releases] /\ pc' \in [Cleaners -> PCs]
      BY <1>2 DEF TypeOK, PCs
    <3> QED BY <1>0, <1>2, <2>1, <3>1, <3>2, <3>3 DEF TypeOK
  <2>3. Once'
    BY <1>0, <1>2, <2>0, <2>1 DEF TypeOK, Once, Installed
  <2>4. StrandedOnlyByError'
    BY <1>0, <1>2, <2>0, <2>1 DEF TypeOK, StrandedOnlyByError
  <2>5. ASSUME NEW d \in Cleaners PROVE Through(d)' /\ Looked(d)'
    <3>1. Looked(d)'
      BY <1>0, <1>2, <2>1 DEF TypeOK, Looked
    <3>2. CASE d = c
      BY <1>0, <1>2, <2>0, <2>1, <3>1, <3>2 DEF TypeOK, Through, InHand
    <3>3. CASE d # c
      BY <1>0, <1>2, <2>0, <2>1, <3>1, <3>3 DEF TypeOK, Through, InHand
    <3> QED BY <3>2, <3>3
  <2> QED BY <2>2, <2>3, <2>4, <2>5
<1> QED BY <1>1, <1>2

\* The end of the loop.
LEMMA FinishStep ==
    ASSUME IInv, NEW c \in Cleaners, Finish(c)
    PROVE  IInv'
<1> USE DEF IInv, Finish
<1>1. TypeOK'
  BY DEF TypeOK, PCs
<1>2. Once'
  BY DEF TypeOK, Once, Installed
<1>3. StrandedOnlyByError'
  BY DEF TypeOK, StrandedOnlyByError
<1>4. ASSUME NEW d \in Cleaners PROVE Through(d)' /\ Looked(d)'
  <2>1. CASE d = c
    BY <2>1 DEF TypeOK, Through, Looked, InHand
  <2>2. CASE d # c
    BY <2>2 DEF TypeOK, Through, Looked, InHand
  <2> QED BY <2>1, <2>2
<1> QED BY <1>1, <1>2, <1>3, <1>4

\* One kind of leftover goes: the claims, then the snapshots, which are the rest.
LEMMA RemoveLabelledStep ==
    ASSUME IInv, NEW c \in Cleaners,
           NEW at, NEW kind, NEW after, RemoveLabelled(c, at, kind, after),
           \/ at = "claims" /\ kind = "claim" /\ after = "snapshots"
           \/ at = "snapshots" /\ kind = "snapshot" /\ after = "next"
    PROVE  IInv'
<1> USE DEF IInv
<1>0. pc[c] = at /\ UNCHANGED <<release, job, owner, cmd>>
  BY DEF RemoveLabelled
<1> PICK r \in current[c] :
        \/ /\ left' = [left EXCEPT ![r] = @ \ {kind}]
           /\ pc' = [pc EXCEPT ![c] = after]
           /\ UNCHANGED <<failed, unchecked, todo, current, listed, busy, stranded>>
        \/ /\ GiveUp(c)
           /\ stranded' = IF left[r] = {} THEN stranded ELSE stranded \union {r}
           /\ UNCHANGED left
  BY DEF RemoveLabelled
<1>r. r \in Releases /\ \A s \in current[c] : s = r
  BY DEF TypeOK
<1>1. CASE /\ left' = [left EXCEPT ![r] = @ \ {kind}]
           /\ pc' = [pc EXCEPT ![c] = after]
           /\ UNCHANGED <<failed, unchecked, todo, current, listed, busy, stranded>>
  <2>0. /\ \A s \in Releases : left'[s] \subseteq left[s]
        /\ \A s \in Releases : s # r => left'[s] = left[s]
        /\ after = "snapshots" => "claim" \notin left'[r]
        /\ after = "next" => left'[r] = {}
    BY <1>0, <1>1, <1>r DEF TypeOK, Through
  <2>1. TypeOK'
    BY <1>0, <1>1, <1>r DEF TypeOK, PCs
  <2>2. Once'
    BY <1>0, <1>1, <2>0 DEF TypeOK, Once, Installed
  <2>3. StrandedOnlyByError'
    <3> SUFFICES ASSUME NEW s \in Releases, left'[s] # {}, s \notin release'
                 PROVE  \/ owner'[s] \in {"making", "releasing"}
                        \/ s \in stranded'
                        \/ \E d \in Cleaners :
                              s \in current'[d] /\ pc'[d] \in {"claims", "snapshots"}
      BY DEF StrandedOnlyByError
    <3>1. left[s] # {} /\ s \notin release
      BY <1>0, <2>0
    <3>2. CASE owner[s] \in {"making", "releasing"} \/ s \in stranded
      BY <1>0, <1>1, <3>2
    <3>3. ASSUME NEW d \in Cleaners, s \in current[d], pc[d] \in {"claims", "snapshots"}
          PROVE  \E e \in Cleaners : s \in current'[e] /\ pc'[e] \in {"claims", "snapshots"}
      <4>1. CASE d # c
        BY <1>1, <3>3, <4>1 DEF TypeOK
      <4>2. CASE d = c
        <5>1. s = r /\ after = "snapshots"
          BY <1>r, <2>0, <3>3, <4>2
        <5> QED BY <1>1, <3>3, <4>2, <5>1 DEF TypeOK
      <4> QED BY <4>1, <4>2
    <3> QED BY <3>1, <3>2, <3>3 DEF StrandedOnlyByError
  <2>4. ASSUME NEW d \in Cleaners PROVE Through(d)' /\ Looked(d)'
    <3>1. Looked(d)'
      BY <1>0, <1>1 DEF TypeOK, Looked
    <3>2. listed[d] \subseteq Releases /\ current[d] \subseteq Releases
      BY DEF TypeOK
    <3>3. CASE d = c
      BY <1>0, <1>1, <1>r, <2>0, <3>1, <3>2, <3>3 DEF TypeOK, Through, InHand
    <3>4. CASE d # c
      <4>1. /\ pc'[d] = pc[d] /\ InHand(d)' = InHand(d)
            /\ \A s \in Releases : left[s] = {} => left'[s] = {}
        BY <1>1, <2>0, <3>4 DEF TypeOK, InHand
      <4> QED BY <1>0, <1>1, <2>0, <3>1, <3>2, <4>1 DEF Through
    <3> QED BY <3>3, <3>4
  <2> QED BY <2>1, <2>2, <2>3, <2>4
<1>2. CASE /\ GiveUp(c)
           /\ stranded' = IF left[r] = {} THEN stranded ELSE stranded \union {r}
           /\ UNCHANGED left
  <2>1. TypeOK' /\ Once' /\ \A d \in Cleaners : Through(d)' /\ Looked(d)'
    <3>1. stranded' \in SUBSET Releases
      BY <1>2, <1>r DEF TypeOK
    <3> QED BY <1>0, <1>2, <3>1, GiveUpStep
  <2>2. StrandedOnlyByError'
    BY <1>0, <1>2, <1>r DEF TypeOK, StrandedOnlyByError, GiveUp
  <2> QED BY <2>1, <2>2
<1> QED BY <1>1, <1>2

-----------------------------------------------------------------------------
(* The steps of an operation *)

\* A step of an operation leaves the cleanups where they are.  It cannot disturb
\* them as long as it installs nothing they have heard of.
LEMMA OperationKeeps ==
    ASSUME IInv, UNCHANGED cleanerVars,
           \A s \in Releases : Installed(s) =>
               (s \in release' => s \in release) /\ left'[s] \subseteq left[s],
           \A d \in Cleaners : busy'[d] \subseteq busy[d]
                               /\ \A s \in busy'[d] : job'[s] = "active"
    PROVE  \A d \in Cleaners : Through(d)' /\ Looked(d)'
<1> USE DEF IInv
<1> TAKE d \in Cleaners
<1>0. /\ listed[d] \subseteq Releases /\ current[d] \subseteq Releases
      /\ \A s \in listed[d] \cup current[d] : Installed(s)
  BY DEF TypeOK, Once
<1>1. Through(d)'
  <2>1. InHand(d)' = InHand(d)
    BY DEF InHand, cleanerVars
  <2> QED BY <1>0, <2>1 DEF Through, cleanerVars
<1>2. Looked(d)'
  BY DEF Looked, cleanerVars
<1> QED BY <1>1, <1>2

LEMMA OperationStep ==
    ASSUME IInv, NEW r \in Releases, Operation(r)
    PROVE  IInv'
<1> USE DEF IInv
<1>1. CASE MakeSource(r)
  <2> USE <1>1 DEF MakeSource, cleanerVars
  <2>0. left'[r] # {} /\ \A s \in Releases : s # r => left'[s] = left[s]
    <3>1. CASE left' = [left EXCEPT ![r] = {"claim"}]
      BY <3>1 DEF TypeOK
    <3>2. CASE left' = [left EXCEPT ![r] = {"claim", "snapshot"}]
      BY <3>2 DEF TypeOK
    <3> QED BY <3>1, <3>2
  <2>1. TypeOK'
    BY DEF TypeOK
  <2>2. Once'
    BY <2>0 DEF TypeOK, Once, Installed
  <2>3. StrandedOnlyByError'
    BY <2>0 DEF TypeOK, StrandedOnlyByError
  <2>4. \A d \in Cleaners : Through(d)' /\ Looked(d)'
    BY <2>0, OperationKeeps DEF TypeOK, Installed, Looked
  <2> QED BY <2>1, <2>2, <2>3, <2>4
<1>2. CASE InstallRelease(r)
  <2> USE <1>2 DEF InstallRelease, cleanerVars
  <2>0. ~Installed(r)
    BY DEF Installed
  <2>1. TypeOK'
    BY DEF TypeOK
  <2>2. Once'
    BY <2>0 DEF TypeOK, Once, Installed
  <2>3. StrandedOnlyByError'
    BY DEF TypeOK, StrandedOnlyByError
  <2>4. \A d \in Cleaners : Through(d)' /\ Looked(d)'
    <3>1. ASSUME NEW d \in Cleaners, NEW s \in busy[d] PROVE job'[s] = "active"
      BY <2>0 DEF TypeOK, Looked, Once
    <3> QED BY <2>0, <3>1, OperationKeeps
  <2> QED BY <2>1, <2>2, <2>3, <2>4
<1>3. CASE JobChanges(r)
  <2> USE <1>3 DEF JobChanges, cleanerVars
  <2>0. /\ \A d \in Cleaners : busy'[d] \subseteq busy[d]
        /\ \A d \in Cleaners : \A s \in busy'[d] : job'[s] = "active"
    BY DEF TypeOK, Looked
  <2>1. TypeOK'
    BY DEF TypeOK
  <2>2. Once'
    BY DEF TypeOK, Once, Installed
  <2>3. StrandedOnlyByError'
    BY DEF TypeOK, StrandedOnlyByError
  <2>4. \A d \in Cleaners : Through(d)' /\ Looked(d)'
    BY <2>0, OperationKeeps
  <2> QED BY <2>1, <2>2, <2>3, <2>4
<1>4. CASE OwnerUninstalls(r)
  <2> USE <1>4 DEF OwnerUninstalls, cleanerVars
  <2>0. /\ release' = release \/ release' = release \ {r}
        /\ job' \in [Releases -> {"none", "created", "active"}]
        /\ busy' \in [Cleaners -> SUBSET Releases]
        /\ \A s \in Releases : job[s] = "none" => job'[s] = "none"
        /\ \A d \in Cleaners : busy'[d] \subseteq busy[d]
        /\ \A d \in Cleaners : \A s \in busy'[d] : job'[s] = "active"
    BY DEF TypeOK, DropRelease, Looked
  <2>1. TypeOK'
    BY <2>0 DEF TypeOK
  <2>2. Once'
    BY <2>0 DEF TypeOK, Once, Installed
  <2>3. StrandedOnlyByError'
    BY <2>0 DEF TypeOK, StrandedOnlyByError, Once
  <2>4. \A d \in Cleaners : Through(d)' /\ Looked(d)'
    BY <2>0, OperationKeeps
  <2> QED BY <2>1, <2>2, <2>3, <2>4
<1>5. CASE OwnerRemovesSource(r)
  <2> USE <1>5 DEF OwnerRemovesSource, cleanerVars
  <2>0. \A s \in Releases : left'[s] = {} \/ (s # r /\ left'[s] = left[s])
    BY DEF TypeOK
  <2>1. TypeOK'
    BY DEF TypeOK
  <2>2. Once'
    BY <2>0 DEF TypeOK, Once, Installed
  <2>3. StrandedOnlyByError'
    BY <2>0 DEF TypeOK, StrandedOnlyByError
  <2>4. \A d \in Cleaners : Through(d)' /\ Looked(d)'
    BY <2>0, OperationKeeps DEF Looked
  <2> QED BY <2>1, <2>2, <2>3, <2>4
<1>6. CASE OwnerLeaves(r)
  <2> USE <1>6 DEF OwnerLeaves, cleanerVars
  <2>1. TypeOK'
    BY DEF TypeOK
  <2>2. Once'
    BY DEF TypeOK, Once, Installed
  <2>3. StrandedOnlyByError'
    BY DEF TypeOK, StrandedOnlyByError
  <2>4. \A d \in Cleaners : Through(d)' /\ Looked(d)'
    BY OperationKeeps DEF Looked
  <2> QED BY <2>1, <2>2, <2>3, <2>4
<1> QED BY <1>1, <1>2, <1>3, <1>4, <1>5, <1>6 DEF Operation

-----------------------------------------------------------------------------
(* Theorems *)

LEMMA Invariance == Spec => []IInv
<1>1. ASSUME IInv, Next PROVE IInv'
  <2>1. ASSUME NEW c \in Cleaners, Cleaner(c) PROVE IInv'
    <3>1. CASE RemoveClaims(c)
      <4>1. RemoveLabelled(c, "claims", "claim", "snapshots")
        BY <3>1 DEF RemoveClaims, AfterClaims
      <4> QED BY <1>1, <4>1, RemoveLabelledStep
    <3>2. CASE RemoveSnapshots(c)
      <4>1. RemoveLabelled(c, "snapshots", "snapshot", "next")
        BY <3>2 DEF RemoveSnapshots
      <4> QED BY <1>1, <4>1, RemoveLabelledStep
    <3> QED BY <1>1, <2>1, <3>1, <3>2, ListStep, CheckJobsStep, UninstallStep, FinishStep
            DEF Cleaner
  <2> QED BY <1>1, <2>1, OperationStep DEF Next
<1>2. ASSUME IInv, UNCHANGED vars PROVE IInv'
  <2> USE <1>2 DEF vars, IInv
  <2>1. TypeOK'
    BY DEF TypeOK
  <2>2. Once'
    BY DEF Once, Installed
  <2>3. StrandedOnlyByError'
    BY DEF StrandedOnlyByError
  <2>4. \A d \in Cleaners : Through(d)' /\ Looked(d)'
    BY DEF Through, Looked, InHand
  <2> QED BY <2>1, <2>2, <2>3, <2>4
<1> QED BY <1>1, <1>2, Initially, PTL DEF Spec

\* The cleanups' state keeps its types; a cleanup has one release in hand at most
\* (the loop of runCleanup).
THEOREM TypeCorrect == Spec => []TypeOK
<1>1. IInv => TypeOK
  BY DEF IInv
<1> QED BY <1>1, Invariance, PTL

\* No release whose job, in the release's namespace, has been active since the
\* listing is removed without --force (checkNoActiveJobs), whatever other
\* cleanups and the operations do meanwhile.
THEOREM CheckIsComplete == Spec => []CheckCoversList
<1>1. IInv => CheckCoversList
  BY DEF IInv, Looked, CheckCoversList
<1> QED BY <1>1, Invariance, PTL

\* A cleanup that reports success has left nothing of what it listed, however
\* many others were removing the same releases (uninstallRelease, DeleteLabeled).
THEOREM SuccessIsGone == Spec => []SuccessMeansGone
<1>1. IInv => SuccessMeansGone
  BY DEF IInv, Through, SuccessMeansGone
<1> QED BY <1>1, Invariance, PTL

\* Labelled leftovers lose the release they are found through only while someone
\* is about to remove them, or where an owner or a cleanup gave up.
THEOREM StrandedByErrorOnly == Spec => []StrandedOnlyByError
<1>1. IInv => StrandedOnlyByError
  BY DEF IInv
<1> QED BY <1>1, Invariance, PTL

=============================================================================
