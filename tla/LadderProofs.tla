---------------------------- MODULE LadderProofs ----------------------------
(* The invariants of the ladder for every set of requests, every placement of  *)
(* the claims and any number of runs.                                           *)
EXTENDS Ladder, TLAPS

\* The control points at which there is a current attempt.
Attempting == InAttempt \union {"advance"}

\* A control point of an attempt has a rung that exists, and the attempt's names
\* are the strategy's, or none yet.
Control ==
    pc \in Attempting =>
        /\ rung <= Len(req.strategies)
        /\ names \in {<<>>, ReleaseNames(Current)}
        /\ pc \in {"first", "target", "second", "session", "wait", "cleanup"}
              => names = ReleaseNames(Current)
        /\ pc \in {"target", "second", "session"} => Current \notin {"mount", "clusterip"}
        /\ pc = "target" => Current # "local"
        /\ pc = "session" => Current = "local"
        /\ pc = "cleanup" => next <= Len(names)

\* The types, with the control facts they rest on.
TInv == TypeOK /\ Control

\* The names an attempt uses: their types, and that they cover the strategy's
\* releases.
LEMMA ReleaseNamesFacts ==
    ASSUME NEW s \in Strategies
    PROVE  /\ ReleaseNames(s) \in Seq(Parts)
           /\ ReleaseNames(s) # <<>>
           /\ s \in {"mount", "clusterip"} => Len(ReleaseNames(s)) = 1
           /\ s \notin {"mount", "clusterip"} => Len(ReleaseNames(s)) = 2
           /\ \A i \in 1..Len(ReleaseNames(s)) : <<s, ReleaseNames(s)[i]>> \in Releases
           /\ \A r \in Releases : r[1] = s => 
                \E i \in 1..Len(ReleaseNames(s)) : r = <<s, ReleaseNames(s)[i]>>
<1>1. CASE s \in {"mount", "clusterip"}
  <2>1. ReleaseNames(s) = <<"only">>
    BY <1>1 DEF ReleaseNames, TwoReleases
  <2> QED BY <1>1, <2>1 DEF Releases, Parts
<1>2. CASE s \in TwoReleases \union {"local"}
  <2>1. ReleaseNames(s) \in {<<"src", "dest">>, <<"dest", "src">>}
    BY <1>2 DEF ReleaseNames, TwoReleases
  <2>2. CASE ReleaseNames(s) = <<"src", "dest">>
    BY <1>2, <2>2 DEF Releases, Parts, TwoReleases
  <2>3. CASE ReleaseNames(s) = <<"dest", "src">>
    BY <1>2, <2>3 DEF Releases, Parts, TwoReleases
  <2> QED BY <2>1, <2>2, <2>3
<1> QED BY <1>1, <1>2 DEF Strategies, TwoReleases

\* A list that is kept, emptied or extended keeps its type.
LEMMA SeqStep ==
    ASSUME NEW S, NEW x \in Seq(S), NEW e \in S, NEW y,
           y = x \/ y = <<>> \/ y = Append(x, e)
    PROVE  y \in Seq(S)
<1>1. CASE y = x
  BY <1>1
<1>2. CASE y = <<>>
  BY <1>2
<1>3. CASE y = Append(x, e)
  BY <1>3
<1> QED BY <1>1, <1>2, <1>3

\* A run starts well typed, before any attempt.
LEMMA InitTInv == Init => TInv
<1> SUFFICES ASSUME Init PROVE TInv
  OBVIOUS
<1> USE DEF Init
<1>1. req.strategies \in Seq(Strategies)
  BY RequestsAssumption DEF RequestType
<1>2. Len(req.strategies) \in Nat
  BY <1>1
<1>3. /\ rung \in 1..(Len(req.strategies) + 1)
      /\ next \in 1..2
      /\ run \in 1..MaxRuns
      /\ release \in [Releases -> 0..MaxRuns]
      /\ watched \in 0..MaxRuns
  BY <1>2, MaxRunsAssumption
<1>4. /\ names \in Seq(Parts)
      /\ outcomes \in Seq(Errors)
      /\ mover \in [Releases -> MoverPhases]
  BY DEF MoverPhases
<1>5. TypeOK
  BY <1>3, <1>4 DEF TypeOK, PCs, Errors, Sides, Results
<1>6. Control
  BY DEF Control, Attempting, InAttempt
<1> QED BY <1>5, <1>6 DEF TInv

\* Facts about the current request that every step below uses.
LEMMA LadderFacts ==
    ASSUME TInv
    PROVE  /\ req.strategies \in Seq(Strategies)
           /\ Len(req.strategies) \in Nat
           /\ pc \in Attempting => Current \in Strategies
<1>1. req.strategies \in Seq(Strategies)
  BY RequestsAssumption DEF TInv, TypeOK, RequestType
<1>2. ASSUME pc \in Attempting PROVE Current \in Strategies
  <2>1. rung \in 1..Len(req.strategies)
    BY <1>1, <1>2 DEF TInv, TypeOK, Control
  <2> QED BY <1>1, <2>1 DEF Current
<1> QED BY <1>1, <1>2

\* Every step of the CLI, the pods and the signals keeps the types and the control
\* facts.
LEMMA NextTInv == TInv /\ [Next]_vars => TInv'
<1> SUFFICES ASSUME TInv, [Next]_vars PROVE TInv'
  OBVIOUS
<1> DEFINE L == Len(req.strategies)
<1>0. /\ req.strategies \in Seq(Strategies)
      /\ L \in Nat
      /\ pc \in Attempting => Current \in Strategies
  BY LadderFacts
<1> USE DEF TInv
<1>1. CASE Prepare
  <2>1. TypeOK'
    <3>1. rung' \in 1..(L + 1) /\ req' = req
      BY <1>1, <1>0 DEF Prepare, TypeOK, attemptVars
    <3>2. names' \in Seq(Parts)
      <4>1. names' = names \/ names' = <<>>
        BY <1>1 DEF Prepare, FreshAttempt, attemptVars
      <4>2. names \in Seq(Parts) /\ "src" \in Parts
        BY DEF TypeOK, Parts
      <4> QED BY <4>1, <4>2, SeqStep
    <3>5. watched' \in 0..MaxRuns
      <4>1. watched' = watched \/ watched' = 0
        BY <1>1 DEF Prepare, FreshAttempt, attemptVars
      <4> QED BY <4>1, MaxRunsAssumption DEF TypeOK
    <3>3. /\ targets' \in SUBSET Sides
          /\ detached' \in BOOLEAN
          /\ err' \in Errors
          /\ pc' \in PCs
          /\ result' \in Results
      BY <1>1 DEF Prepare, TypeOK, FreshAttempt, attemptVars, PCs, Errors, Results
    <3> QED
      BY <1>1, <3>1, <3>2, <3>3, <3>5 DEF Prepare, TypeOK, cleanupVars, clusterVars, historyVars
  <2>2. Control'
    BY <1>1, <1>0 DEF Prepare, TypeOK, Control, IsRung, FreshAttempt, Current, ReleaseNames,
       Attempting, InAttempt, attemptVars
  <2> QED BY <2>1, <2>2
<1>2. CASE BeginAttempt
  <2>1. names' \in {<<>>, ReleaseNames(Current)} /\ Current \in Strategies
    BY <1>2, <1>0 DEF BeginAttempt, Control, Attempting, InAttempt
  <2>2. names' \in Seq(Parts)
    <3>1. ReleaseNames(Current) \in Seq(Parts) /\ <<>> \in Seq(Parts)
      BY <2>1, ReleaseNamesFacts
    <3> QED BY <2>1, <3>1
  <2>3. TypeOK'
    BY <1>2, <2>2 DEF BeginAttempt, Return, TypeOK, PCs, Errors, cleanupVars, clusterVars, historyVars
  <2>4. Control'
    BY <1>2, <1>0, <2>1 DEF BeginAttempt, Return, Control, Current, ReleaseNames, Attempting,
       InAttempt
  <2> QED BY <2>3, <2>4
<1>3. CASE InstallHelmChart
  <2> DEFINE r == <<Current, Part>>
  <2>1. Current \in Strategies /\ names = ReleaseNames(Current) /\ pc \in {"first", "second"}
    BY <1>3, <1>0 DEF InstallHelmChart, Control, Attempting, InAttempt
  <2>2. r \in Releases
    BY <2>1, ReleaseNamesFacts DEF Part, Control, Attempting, InAttempt
  <2>3. SideOf(Current, Part) \in Sides
    BY <2>2 DEF SideOf, Releases, Sides
  <2>4. release' \in [Releases -> 0..MaxRuns] /\ mover' \in [Releases -> MoverPhases]
    <3>1. \/ UNCHANGED <<release, mover>>
          \/ /\ release' = [release EXCEPT ![r] = run]
             /\ \E phase \in MoverPhases : mover' = [mover EXCEPT ![r] = phase]
      BY <1>3 DEF InstallHelmChart, Create, MoverPhases, clusterVars
    <3>2. CASE UNCHANGED <<release, mover>>
      BY <3>2 DEF TypeOK
    <3>3. CASE /\ release' = [release EXCEPT ![r] = run]
               /\ \E phase \in MoverPhases : mover' = [mover EXCEPT ![r] = phase]
      BY <2>2, <3>3, MaxRunsAssumption DEF TypeOK
    <3> QED BY <3>1, <3>2, <3>3
  <2>5. targets' \in SUBSET Sides /\ watched' \in 0..MaxRuns /\ leftovers' = leftovers
    <3>1. targets' \in SUBSET Sides
      BY <1>3, <2>3 DEF InstallHelmChart, Recorded, TypeOK, Sides
    <3>2. watched' \in 0..MaxRuns
      <4>1. watched' = watched \/ watched' \in MoverPods(Current)
        BY <1>3 DEF InstallHelmChart
      <4>2. run \in 1..MaxRuns /\ watched \in 0..MaxRuns
        BY DEF TypeOK
      <4> QED BY <4>1, <4>2, MaxRunsAssumption DEF MoverPods
    <3>3. leftovers' = leftovers
      BY <1>3 DEF InstallHelmChart, Create, clusterVars
    <3> QED BY <3>1, <3>2, <3>3
  <2>6. pc' \in {"ended", "session", "wait", "target", "second"} /\ err' \in Errors
    BY <1>3 DEF InstallHelmChart, Return, AfterInstall, TypeOK, Errors
  <2>7. TypeOK'
    BY <1>3, <2>4, <2>5, <2>6 DEF InstallHelmChart, TypeOK, PCs, cleanupVars, historyVars
  <2>8. Control'
    BY <1>3, <2>1, <2>6 DEF InstallHelmChart, Return, AfterInstall, Control, Current, ReleaseNames,
       TwoReleases, Strategies, Attempting, InAttempt
  <2> QED BY <2>7, <2>8
<1>4. CASE ResolveTarget
  <2>1. TypeOK'
    BY <1>4 DEF ResolveTarget, Return, TypeOK, PCs, Errors, cleanupVars, clusterVars, historyVars
  <2>2. Control'
    BY <1>4 DEF ResolveTarget, Return, Control, Current, ReleaseNames, Attempting, InAttempt
  <2> QED BY <2>1, <2>2
<1>5. CASE StartSession
  <2>1. TypeOK'
    BY <1>5, MaxRunsAssumption DEF StartSession, Return, TypeOK, PCs, Errors, MoverPhases, cleanupVars,
       historyVars
  <2>2. Control'
    BY <1>5 DEF StartSession, Return, Control, Current, ReleaseNames, Attempting, InAttempt
  <2> QED BY <2>1, <2>2
<1>6. CASE WaitForMover \/ WaitBreaks
  <2>1. TypeOK'
    BY <1>6, RequestsAssumption DEF WaitForMover, WaitBreaks, Return, TypeOK, RequestType, PCs, Errors,
       cleanupVars, clusterVars, historyVars
  <2>2. Control'
    BY <1>6 DEF WaitForMover, WaitBreaks, Return, Control, Current, ReleaseNames, Attempting,
       InAttempt
  <2> QED BY <2>1, <2>2
<1>7. CASE CleanupAttempt
  <2>1. Current \in Strategies
    BY <1>7, <1>0 DEF CleanupAttempt, Attempting, InAttempt
  <2>2. TypeOK'
    BY <1>7, <2>1 DEF CleanupAttempt, TypeOK, PCs, Sides, attemptVars, clusterVars
  <2>3. Control'
    <3>1. names # <<>> => Len(names) \in Nat /\ Len(names) >= 1
      BY DEF TypeOK
    <3> QED
    BY <1>7, <3>1 DEF CleanupAttempt, Control, Current, ReleaseNames, Attempting,
       InAttempt, attemptVars
  <2> QED BY <2>2, <2>3
<1>8. CASE Uninstall
  <2> DEFINE r == <<Current, names[next]>>
  <2>1. /\ Current \in Strategies
        /\ names = ReleaseNames(Current)
        /\ next \in 1..Len(names)
        /\ Len(names) \in 1..2
    BY <1>8, <1>0, ReleaseNamesFacts DEF Uninstall, Control, TypeOK, Attempting, InAttempt
  <2>2. r \in Releases
    BY <2>1, ReleaseNamesFacts
  <2>3. release' \in [Releases -> 0..MaxRuns] /\ mover' \in [Releases -> MoverPhases]
        /\ stuck' \in SUBSET Releases /\ leftovers' \in SUBSET Pods
    <3>1. release' \in [Releases -> 0..MaxRuns]
      <4>1. release' = release \/ release' = [release EXCEPT ![r] = 0]
        BY <1>8 DEF Uninstall, clusterVars
      <4>2. CASE release' = release
        BY <4>2 DEF TypeOK
      <4>3. CASE release' = [release EXCEPT ![r] = 0]
        BY <2>2, <4>3, MaxRunsAssumption DEF TypeOK
      <4> QED BY <4>1, <4>2, <4>3
    <3>2. mover' \in [Releases -> MoverPhases]
      BY <1>8, <2>2 DEF Uninstall, DeleteWorkloads, TypeOK, MoverPhases, clusterVars
    <3>4. leftovers' \in SUBSET Pods
      <4>1. leftovers' = leftovers \/ leftovers' = leftovers \union {<<r, release[r]>>}
        BY <1>8 DEF Uninstall, DeleteWorkloads, clusterVars
      <4>2. <<r, release[r]>> \in Pods
        BY <2>2 DEF TypeOK, Pods
      <4> QED BY <4>1, <4>2 DEF TypeOK
    <3>3. stuck' \in SUBSET Releases
      BY <1>8, <2>2 DEF Uninstall, TypeOK, clusterVars
    <3> QED BY <3>1, <3>2, <3>3, <3>4
  <2>4. /\ next' \in 1..Len(names)
        /\ side' \in Sides
        /\ pc' \in {"cleanup", "advance"}
    BY <1>8, <2>1 DEF Uninstall, NextUninstall, TypeOK, Sides
  <2>5. UNCHANGED <<place, req, run, rung, names, targets, detached, err, watched, outcomes,
                    cancelled, result, copied, inherited, kept>>
    BY <1>8 DEF Uninstall, attemptVars
  <2>6. TypeOK'
    <3>1. next' \in 1..2
      <4>1. Len(names) = 1 \/ Len(names) = 2
        BY <2>1
      <4>2. CASE Len(names) = 1
        BY <2>4, <4>2
      <4>3. CASE Len(names) = 2
        BY <2>4, <4>3
      <4> QED BY <4>1, <4>2, <4>3
    <3>2. pc' \in PCs
      BY <2>4 DEF PCs
    <3> QED BY <2>3, <2>4, <2>5, <3>1, <3>2 DEF TypeOK
  <2>7. Control'
    <3>1. pc = "cleanup" /\ pc \in Attempting
      BY <1>8 DEF Uninstall, Attempting, InAttempt
    <3>2. rung <= L
      BY <3>1 DEF Control
    <3>3. Current' = Current /\ ReleaseNames(Current)' = ReleaseNames(Current)
      BY <2>5 DEF Current, ReleaseNames
    <3>4. next' <= Len(names')
      BY <2>1, <2>4, <2>5
    <3> QED
      BY <2>1, <2>4, <2>5, <3>2, <3>3, <3>4 DEF Control
  <2> QED BY <2>6, <2>7
<1>9. CASE Advance
  <2>1. TypeOK'
    <3>1. rung' \in 1..(L + 1) /\ req' = req
      BY <1>9, <1>0 DEF Advance, TypeOK, attemptVars
    <3>2. names' \in Seq(Parts)
      <4>1. names' = names \/ names' = <<>>
        BY <1>9 DEF Advance, FreshAttempt, attemptVars
      <4>2. names \in Seq(Parts) /\ "src" \in Parts
        BY DEF TypeOK, Parts
      <4> QED BY <4>1, <4>2, SeqStep
    <3>3. outcomes' \in Seq(Errors)
      <4>1. outcomes' = outcomes \/ outcomes' = Append(outcomes, err)
        BY <1>9 DEF Advance
      <4>2. outcomes \in Seq(Errors) /\ err \in Errors
        BY DEF TypeOK
      <4> QED BY <4>1, <4>2, SeqStep
    <3>5. watched' \in 0..MaxRuns
      <4>1. watched' = watched \/ watched' = 0
        BY <1>9 DEF Advance, FreshAttempt, attemptVars
      <4> QED BY <4>1, MaxRunsAssumption DEF TypeOK
    <3>4. /\ targets' \in SUBSET Sides
          /\ detached' \in BOOLEAN
          /\ err' \in Errors
          /\ pc' \in PCs
          /\ result' \in Results
      BY <1>9 DEF Advance, TypeOK, FreshAttempt, attemptVars, PCs, Errors, Results
    <3> QED
      BY <1>9, <3>1, <3>2, <3>3, <3>4, <3>5 DEF Advance, TypeOK, cleanupVars, clusterVars, historyVars
  <2>2. Control'
    BY <1>9, <1>0 DEF Advance, TypeOK, Control, IsRung, FreshAttempt, Current, ReleaseNames,
       Attempting, InAttempt, attemptVars
  <2> QED BY <2>1, <2>2
<1>10. CASE Interrupt \/ Kill
  BY <1>10 DEF Interrupt, Kill, TypeOK, Control, Current, ReleaseNames, Attempting, InAttempt,
     Active, PCs, attemptVars, cleanupVars, clusterVars, historyVars
<1>11. CASE Rerun
  <2>1. Control'
    BY <1>11 DEF Rerun, Control, Attempting, InAttempt
  <2>2. req'.strategies \in Seq(Strategies)
    BY <1>11, RequestsAssumption DEF Rerun, RequestType
  <2>3. /\ run' \in 1..MaxRuns
        /\ rung' \in 1..(Len(req'.strategies) + 1)
        /\ next' \in 1..2
    BY <1>11, <2>2, MaxRunsAssumption DEF Rerun, TypeOK
  <2>4. /\ names' \in Seq(Parts) /\ outcomes' \in Seq(Errors)
        /\ watched' \in 0..MaxRuns /\ copied' \in SUBSET Pods
    BY <1>11, MaxRunsAssumption DEF Rerun, FreshAttempt, TypeOK
  <2>5. TypeOK'
    BY <1>11, <2>3, <2>4 DEF Rerun, TypeOK, FreshAttempt, PCs, Errors, Results, Sides, clusterVars
  <2> QED BY <2>1, <2>5
<1>12. ASSUME NEW r \in Releases, PodChanges(r) PROVE TInv'
  <2>1. mover' \in [Releases -> MoverPhases] /\ copied' \in SUBSET Pods
    <3>1. mover' \in [Releases -> MoverPhases]
      BY <1>12 DEF PodChanges, TypeOK, MoverPhases
    <3>2. copied' = copied \/ copied' = copied \union {<<r, release[r]>>}
      BY <1>12 DEF PodChanges
    <3>3. <<r, release[r]>> \in Pods
      BY DEF TypeOK, Pods
    <3> QED BY <3>1, <3>2, <3>3 DEF TypeOK
  <2> QED
    BY <1>12, <2>1 DEF PodChanges, TypeOK, Control, Current, ReleaseNames, Attempting, InAttempt,
       attemptVars, cleanupVars
<1>14. ASSUME NEW x \in leftovers, LeftoverChanges(x) PROVE TInv'
  BY <1>14 DEF LeftoverChanges, TypeOK, Control, Current, ReleaseNames, Attempting, InAttempt,
     attemptVars, cleanupVars
<1>13. CASE UNCHANGED vars
  BY <1>13 DEF vars, TypeOK, Control, Current, ReleaseNames
<1> QED
  BY <1>1, <1>2, <1>3, <1>4, <1>5, <1>6, <1>7, <1>8, <1>9, <1>10, <1>11, <1>12, <1>13, <1>14
  DEF Next, Cli, Bounded, Session, Environment

\* Every reachable state is well typed: the state of the CLI and of the cluster
\* stays in its domain through every attempt, interrupt, kill and rerun.
THEOREM TypeCorrect == Spec => []TypeOK
<1>1. Init => TInv
  BY InitTInv
<1>2. TInv /\ [Next]_vars => TInv'
  BY NextTInv
<1>3. TInv => TypeOK
  BY DEF TInv
<1> QED BY <1>1, <1>2, <1>3, PTL DEF Spec

-----------------------------------------------------------------------------
\* A release of this run that nothing excuses from being removed.
Owned(r) == release[r] = run /\ r \notin stuck /\ r[1] \notin kept

\* Cleanup has still to visit the release, at its position in the list of names
\* on this side, or on the other side.
Ahead(r) ==
    \E j \in 1..Len(names) :
        /\ r = <<Current, names[j]>>
        /\ \/ SameStore(side, SideOf(Current, names[j])) /\ j >= next
           \/ side = "source" /\ SideOf(Current, names[j]) = "dest"

\* The strengthening of NoOrphanRelease: what is owned belongs to the attempt in
\* progress, which has named it, and during a cleanup it is still ahead.
Ownership ==
    /\ \A r \in Releases : release[r] <= run
    /\ pc # "killed" =>
         \A r \in Releases : Owned(r) =>
            /\ pc \in InAttempt \ {"begin"}
            /\ r[1] = Current
            /\ names # <<>>
            /\ pc = "cleanup" => Ahead(r)

\* At the start no release is this run's.
LEMMA InitOwnership == Init => Ownership
  BY DEF Init, Ownership, Owned

\* Every step keeps what is owned within reach of the attempt's own cleanup.
LEMMA NextOwnership == TInv /\ Ownership /\ [Next]_vars => Ownership'
<1> SUFFICES ASSUME TInv, Ownership, [Next]_vars PROVE Ownership'
  OBVIOUS
<1>0. pc \in Attempting => Current \in Strategies
  BY LadderFacts
<1>1. CASE Prepare \/ Advance
  BY <1>1 DEF Prepare, Advance, Ownership, Owned, InAttempt, clusterVars, historyVars
<1>2. CASE BeginAttempt
  BY <1>2 DEF BeginAttempt, Ownership, Owned, clusterVars, historyVars
<1>3. CASE InstallHelmChart
  <2> DEFINE r == <<Current, Part>>
  <2>1. pc \in {"first", "second"} /\ names = ReleaseNames(Current) /\ Current \in Strategies
    BY <1>3, <1>0 DEF InstallHelmChart, TInv, Control, Attempting, InAttempt
  <2>2. names # <<>>
    BY <2>1, ReleaseNamesFacts
  <2>3. /\ pc' \in {"ended", "session", "wait", "target", "second"}
        /\ UNCHANGED <<req, run, rung, names, stuck, kept>>
    BY <1>3 DEF InstallHelmChart, Return, AfterInstall, historyVars
  <2>4. release' = release \/ release' = [release EXCEPT ![r] = run]
    BY <1>3 DEF InstallHelmChart, Create, clusterVars
  <2>5. ASSUME NEW q \in Releases, q # r PROVE release'[q] = release[q]
    BY <2>4, <2>5 DEF TInv, TypeOK
  <2>6. run \in Nat /\ (r \in Releases => release'[r] <= run)
    BY <2>4 DEF TInv, TypeOK, Ownership
  <2>7. \A q \in Releases : release'[q] <= run'
    BY <2>3, <2>5, <2>6 DEF Ownership
  <2>8. ASSUME NEW q \in Releases, Owned(q)' PROVE q[1] = Current
    BY <2>3, <2>5, <2>8, <2>1 DEF Ownership, Owned
  <2> QED BY <2>2, <2>3, <2>7, <2>8 DEF Ownership, Current, InAttempt
<1>4. CASE ResolveTarget \/ StartSession \/ WaitForMover \/ WaitBreaks
  <2>1. /\ pc \in InAttempt \ {"begin", "cleanup"}
        /\ pc' \in InAttempt \ {"begin", "cleanup"}
        /\ UNCHANGED <<req, run, rung, names, release, stuck, kept>>
    BY <1>4 DEF ResolveTarget, StartSession, WaitForMover, WaitBreaks, Return, InAttempt, clusterVars,
       historyVars
  <2>2. pc # "killed" /\ pc' # "cleanup"
    BY <2>1 DEF InAttempt
  <2>3. \A r \in Releases : Owned(r)' => Owned(r)
    BY <2>1 DEF Owned
  <2>4. Current' = Current
    BY <2>1 DEF Current
  <2> QED BY <2>1, <2>2, <2>3, <2>4 DEF Ownership
<1>5. CASE CleanupAttempt
  <2>1. /\ pc = "ended" /\ pc' \in {"advance", "cleanup"}
        /\ UNCHANGED <<place, req, run, rung, names, release, stuck>>
        /\ side' = "source" /\ next' = 1
        /\ kept \subseteq kept'
    BY <1>5 DEF CleanupAttempt, attemptVars, clusterVars
  <2>2. Current \in Strategies /\ names \in {<<>>, ReleaseNames(Current)}
    BY <1>0, <2>1 DEF TInv, Control, Attempting, InAttempt
  <2>3. ASSUME NEW r \in Releases, Owned(r)' PROVE Owned(r) /\ r[1] = Current /\ names # <<>>
    BY <2>1, <2>3 DEF Ownership, Owned
  <2>4. ASSUME NEW r \in Releases, Owned(r)' PROVE pc' = "cleanup"
    <3>1. pc' = "advance" => names = <<>> \/ Current \in kept'
      BY <1>5 DEF CleanupAttempt
    <3> QED BY <2>1, <2>3, <2>4, <3>1 DEF Owned
  <2>5. ASSUME NEW r \in Releases, Owned(r)' PROVE Ahead(r)'
    <3>1. PICK j \in 1..Len(names) : r = <<Current, names[j]>>
      BY <2>2, <2>3, <2>5, ReleaseNamesFacts
    <3>2. SideOf(Current, names[j]) \in Sides
      BY <3>1 DEF SideOf, Sides, Releases
    <3>3. j >= 1
      BY <3>1
    <3> QED BY <2>1, <3>1, <3>2, <3>3 DEF Ahead, Current, SameStore, SideOf, Sides
  <2>6. Current' = Current
    BY <2>1 DEF Current
  <2> QED BY <2>1, <2>3, <2>4, <2>5, <2>6 DEF Ownership, InAttempt
<1>6. CASE Uninstall
  <2> DEFINE r == <<Current, names[next]>>
             home(j) == SideOf(Current, names[j])
  <2>1. /\ pc = "cleanup"
        /\ UNCHANGED <<place, req, run, rung, names, kept>>
    BY <1>6 DEF Uninstall, attemptVars
  <2>2. /\ Current \in Strategies
        /\ names = ReleaseNames(Current)
        /\ names # <<>>
        /\ next \in 1..Len(names)
        /\ Len(names) \in Nat
        /\ r \in Releases
    BY <1>0, <2>1, ReleaseNamesFacts DEF TInv, TypeOK, Control, Attempting, InAttempt
  <2>3. /\ \A q \in Releases : q # r => release'[q] = release[q] /\ (q \in stuck' <=> q \in stuck)
        /\ release'[r] \in {0, release[r]}
    BY <1>6, <2>2 DEF Uninstall, TInv, TypeOK, clusterVars
  <2>4. \A q \in Releases : release'[q] <= run'
    <3>1. run \in Nat /\ run' = run /\ \A q \in Releases : release[q] <= run
      BY <2>1 DEF Ownership, TInv, TypeOK
    <3>2. release'[r] <= run
      BY <2>2, <2>3, <3>1
    <3> QED BY <2>3, <3>1, <3>2
  <2>5. ASSUME NEW q \in Releases, q = r, SameStore(side, home(next)) PROVE ~Owned(q)'
    <3>1. release'[q] = 0 \/ q \in stuck' \/ release[q] = 0
      BY <1>6, <2>5 DEF Uninstall, TInv, TypeOK
    <3>2. release'[q] = 0 \/ q \in stuck'
      BY <2>3, <2>5, <3>1
    <3>3. run' # 0
      BY <2>1 DEF TInv, TypeOK
    <3> QED BY <3>2, <3>3 DEF Owned
  <2>6. ASSUME NEW q \in Releases, Owned(q)' PROVE Owned(q)
    <3>1. CASE q # r
      BY <2>1, <2>3, <2>6, <3>1 DEF Owned
    <3>2. CASE q = r
      <4>1. CASE SameStore(side, home(next))
        BY <2>5, <2>6, <3>2, <4>1
      <4>2. CASE ~SameStore(side, home(next))
        <5>1. UNCHANGED <<release, stuck>>
          BY <1>6, <4>2 DEF Uninstall, clusterVars
        <5> QED BY <2>1, <2>6, <5>1 DEF Owned
      <4> QED BY <4>1, <4>2
    <3> QED BY <3>1, <3>2
  <2>7. ASSUME NEW q \in Releases, Owned(q)' PROVE pc' = "cleanup" /\ Ahead(q)'
    <3>1. PICK j \in 1..Len(names) :
             /\ q = <<Current, names[j]>>
             /\ \/ SameStore(side, home(j)) /\ j >= next
                \/ side = "source" /\ home(j) = "dest"
      BY <2>1, <2>6, <2>7 DEF Ownership, Ahead
    <3>2. j # next \/ (side = "source" /\ home(j) = "dest")
      <4>1. CASE j = next
        BY <2>5, <2>7, <3>1, <4>1
      <4> QED BY <4>1
    <3>3. /\ q = <<Current', names'[j]>> /\ j \in 1..Len(names')
          /\ SideOf(Current, names[j])' = home(j)
          /\ \A x \in Sides : SameStore(x, home(j))' <=> SameStore(x, home(j))
      BY <2>1, <3>1 DEF Current, SideOf, SameStore
    <3>4. CASE next < Len(names)
      <4>1. next' = next + 1 /\ UNCHANGED <<side, pc>>
        BY <1>6, <3>4 DEF Uninstall, NextUninstall
      <4>2. \/ SameStore(side, home(j))' /\ j >= next'
            \/ side' = "source" /\ home(j) = "dest"
        <5>1. CASE side = "source" /\ home(j) = "dest"
          BY <4>1, <5>1
        <5>2. CASE SameStore(side, home(j)) /\ j >= next /\ j # next
          <6>1. j >= next'
            BY <2>2, <3>1, <4>1, <5>2
          <6>2. SameStore(side, home(j))'
            BY <2>1, <4>1, <5>2, <3>3 DEF SameStore
          <6> QED BY <6>1, <6>2
        <5> QED BY <3>1, <3>2, <5>1, <5>2
      <4> QED BY <2>1, <3>3, <4>1, <4>2 DEF Ahead
    <3>5. CASE ~(next < Len(names))
      <4>1. next = Len(names) /\ next' = 1
        BY <1>6, <2>2, <3>5 DEF Uninstall, NextUninstall
      <4>2. side = "source" /\ home(j) = "dest"
        BY <2>2, <3>1, <3>2, <4>1
      <4>3. side' = "dest" /\ pc' = pc
        BY <1>6, <3>5, <4>2 DEF Uninstall, NextUninstall
      <4>4. SameStore(side, home(j))' /\ j >= next'
        BY <3>1, <3>3, <4>1, <4>2, <4>3 DEF SameStore
      <4> QED BY <2>1, <3>3, <4>3, <4>4 DEF Ahead
    <3> QED BY <3>4, <3>5
  <2>8. Current' = Current
    BY <2>1 DEF Current
  <2> QED BY <2>1, <2>2, <2>4, <2>6, <2>7, <2>8 DEF Ownership, InAttempt
<1>7. CASE Interrupt \/ Kill
  BY <1>7 DEF Interrupt, Kill, Ownership, Owned, Ahead, Current, SameStore, SideOf, attemptVars,
     cleanupVars, clusterVars, historyVars
<1>8. CASE Rerun
  <2>1. \A r \in Releases : release[r] \in Nat
    BY DEF TInv, TypeOK
  <2>2. run \in Nat /\ run' = run + 1 /\ release' = release
    BY <1>8 DEF Rerun, TInv, TypeOK, clusterVars
  <2> QED BY <2>1, <2>2 DEF Ownership, Owned
<1>9. ASSUME NEW p \in Releases, PodChanges(p) PROVE Ownership'
  BY <1>9 DEF PodChanges, Ownership, Owned, Ahead, Current, SameStore, SideOf, attemptVars, cleanupVars
<1>11. ASSUME NEW x \in leftovers, LeftoverChanges(x) PROVE Ownership'
  BY <1>11 DEF LeftoverChanges, Ownership, Owned, Ahead, Current, SameStore, SideOf, attemptVars,
     cleanupVars
<1>10. CASE UNCHANGED vars
  BY <1>10 DEF vars, Ownership, Owned, Ahead, Current, SameStore, SideOf
<1> QED
  BY <1>1, <1>2, <1>3, <1>4, <1>5, <1>6, <1>7, <1>8, <1>9, <1>10, <1>11
  DEF Next, Cli, Bounded, Session, Environment

\* Types, control and ownership hold throughout.
LEMMA OwnershipInvariant == Spec => [](TInv /\ Ownership)
  BY InitTInv, NextTInv, InitOwnership, NextOwnership, PTL DEF Spec

\* No attempt leaves a release behind that the flags did not keep and whose
\* uninstall did not fail: cleanupAttempt and strategy.Cleanup reach every release
\* the attempt installed, wherever the attempt broke off.
THEOREM NoOrphans == Spec => []NoOrphanRelease
<1>1. TInv /\ Ownership => NoOrphanRelease
  BY DEF TInv, Control, Attempting, Ownership, Owned, NoOrphanRelease, InAttempt
<1> QED BY <1>1, OwnershipInvariant, PTL

-----------------------------------------------------------------------------
\* A step that leaves the request and the rung alone is about the same attempt.
LEMMA SameAttempt ==
    ASSUME UNCHANGED <<req, rung>>
    PROVE  Current' = Current /\ Tried' = Tried
BY DEF Current, Tried

\* The rungs up to one that is left behind come before any later one.
LEMMA EarlierRungs ==
    ASSUME NEW a \in Nat, NEW b \in Nat, a + 1 <= b
    PROVE  \A j \in 1..a : j \in 1..(b - 1)
<1> SUFFICES ASSUME NEW j \in 1..a PROVE j \in 1..(b - 1)
  OBVIOUS
<1>1. j \in Nat /\ 1 <= j /\ j <= a
  OBVIOUS
<1>2. j <= b - 1 /\ b - 1 \in Nat
  BY <1>1
<1> QED BY <1>1, <1>2

\* What lies behind an attempt: its strategy was not tried before, the releases of
\* this run are of the strategies tried and of its own, and a leftover was there
\* when the run started or is of a strategy that was cleaned up since.
Past ==
    /\ pc = "start" =>
          /\ leftovers \subseteq inherited
          /\ \A r \in Releases : release[r] # run
    /\ pc \in Attempting =>
          /\ Current \notin Tried
          /\ \A r \in Releases :
                release[r] = run => r[1] \in Tried \/ (pc # "begin" /\ r[1] = Current)
          /\ \A x \in leftovers :
                \/ x \in inherited
                \/ x[1][1] \in Tried
                \/ pc \in {"cleanup", "advance"} /\ x[1][1] = Current

\* At the start nothing lies behind.
LEMMA InitPast == Init => Past
  BY DEF Init, Past, Attempting, InAttempt

\* Every step keeps the record of what lies behind.
LEMMA NextPast == TInv /\ Ownership /\ Past /\ [Next]_vars => Past'
<1> SUFFICES ASSUME TInv, Ownership, Past, [Next]_vars PROVE Past'
  OBVIOUS
<1>0. /\ req.strategies \in Seq(Strategies) /\ Len(req.strategies) \in Nat
      /\ rung \in 1..(Len(req.strategies) + 1)
      /\ release \in [Releases -> 0..MaxRuns] /\ run \in Nat \ {0}
  BY LadderFacts, MaxRunsAssumption DEF TInv, TypeOK
<1>1. CASE Prepare
  <2>1. /\ pc = "start" /\ pc' \in {"begin", "done"}
        /\ UNCHANGED <<req, run, release, leftovers, inherited>>
    BY <1>1 DEF Prepare, clusterVars, historyVars
  <2>2. ASSUME pc' = "begin" PROVE Current' \notin Tried'
    <3>1. rung' \in 1..Len(req.strategies) /\ Fresh(rung')
      BY <1>0, <1>1, <2>2 DEF Prepare, IsRung
    <3> QED BY <2>1, <3>1 DEF Fresh, Current, Tried
  <2> QED BY <2>1, <2>2 DEF Past, Attempting, InAttempt
<1>2. CASE Advance
  <2>1. /\ pc = "advance" /\ pc' \in {"begin", "done"}
        /\ UNCHANGED <<req, run, release, leftovers, inherited>>
    BY <1>2 DEF Advance, clusterVars, historyVars
  <2>2. ASSUME pc' = "begin" PROVE Current' \notin Tried' /\ Tried \union {Current} \subseteq Tried'
    <3>1. rung' \in (rung + 1)..Len(req.strategies) /\ Fresh(rung')
      BY <1>0, <1>2, <2>2 DEF Advance, IsRung
    <3>2. Current' \notin Tried'
      BY <1>0, <2>1, <3>1 DEF Fresh, Current, Tried
    <3>3. \A j \in 1..rung : j \in 1..(rung' - 1)
      <4>1. rung \in Nat /\ rung' \in Nat /\ rung + 1 <= rung'
        BY <1>0, <3>1
      <4> QED BY <4>1, EarlierRungs
    <3>4. Tried \union {Current} \subseteq Tried'
      BY <1>0, <2>1, <3>3 DEF Current, Tried
    <3> QED BY <3>2, <3>4
  <2> QED BY <2>1, <2>2 DEF Past, Attempting, InAttempt
<1>3. CASE BeginAttempt \/ ResolveTarget \/ StartSession \/ WaitForMover \/ WaitBreaks \/ CleanupAttempt
  <2>1. /\ pc \in Attempting \ {"cleanup", "advance"} /\ pc' \in Attempting \ {"begin"}
        /\ UNCHANGED <<req, run, rung, release, leftovers, inherited>>
    BY <1>3 DEF BeginAttempt, ResolveTarget, StartSession, WaitForMover, WaitBreaks, CleanupAttempt,
       Return, Attempting, InAttempt, clusterVars, historyVars
  <2> QED BY <2>1, SameAttempt DEF Past, Attempting, InAttempt
<1>4. CASE InstallHelmChart
  <2>1. /\ pc \in {"first", "second"} /\ pc' \in Attempting \ {"begin"}
        /\ UNCHANGED <<req, run, rung, leftovers, inherited>>
    BY <1>4 DEF InstallHelmChart, Create, Return, AfterInstall, Attempting, InAttempt, clusterVars,
       historyVars
  <2>2. \A q \in Releases : q[1] # Current => release'[q] = release[q]
    <3>1. release' = release \/ release' = [release EXCEPT ![<<Current, Part>>] = run]
      BY <1>4 DEF InstallHelmChart, Create, clusterVars
    <3> QED BY <1>0, <3>1
  <2> QED BY <2>1, <2>2, SameAttempt DEF Past, Attempting, InAttempt
<1>5. CASE Uninstall
  <2> DEFINE r == <<Current, names[next]>>
  <2>1. /\ pc = "cleanup" /\ pc' \in {"cleanup", "advance"}
        /\ UNCHANGED <<req, run, rung, inherited>>
    BY <1>5 DEF Uninstall, NextUninstall
  <2>2. \A q \in Releases : release'[q] \in {release[q], 0}
    BY <1>0, <1>5 DEF Uninstall, clusterVars
  <2>3. leftovers' = leftovers \/ leftovers' = leftovers \union {<<r, release[r]>>}
    BY <1>5 DEF Uninstall, DeleteWorkloads, clusterVars
  <2>4. \A x \in leftovers' : x \in leftovers \/ x[1][1] = Current
    BY <2>3
  <2> QED BY <1>0, <2>1, <2>2, <2>4, SameAttempt DEF Past, Attempting, InAttempt
<1>6. CASE Interrupt \/ Kill
  <2>1. /\ pc' = pc \/ pc' = "killed"
        /\ UNCHANGED <<req, run, rung, release, leftovers, inherited>>
    BY <1>6 DEF Interrupt, Kill, clusterVars, historyVars
  <2> QED BY <2>1, SameAttempt DEF Past, Attempting, InAttempt
<1>7. CASE Rerun
  <2>1. /\ pc' = "start" /\ run' = run + 1
        /\ release' = release /\ inherited' = leftovers /\ leftovers' = leftovers
    BY <1>7 DEF Rerun, clusterVars
  <2>2. \A r \in Releases : release[r] # run'
    BY <1>0, <2>1 DEF Ownership
  <2> QED BY <2>1, <2>2 DEF Past, Attempting, InAttempt
<1>8. ASSUME NEW p \in Releases, PodChanges(p) PROVE Past'
  <2>1. UNCHANGED <<pc, req, run, rung, release, leftovers, inherited>>
    BY <1>8 DEF PodChanges
  <2> QED BY <2>1, SameAttempt DEF Past
<1>9. ASSUME NEW x \in leftovers, LeftoverChanges(x) PROVE Past'
  <2>1. UNCHANGED <<pc, req, run, rung, release, inherited>> /\ leftovers' \subseteq leftovers
    BY <1>9 DEF LeftoverChanges
  <2> QED BY <2>1, SameAttempt DEF Past
<1>10. CASE UNCHANGED vars
  <2>1. UNCHANGED <<pc, req, run, rung, release, leftovers, inherited>>
    BY <1>10 DEF vars
  <2> QED BY <2>1, SameAttempt DEF Past
<1> QED
  BY <1>1, <1>2, <1>3, <1>4, <1>5, <1>6, <1>7, <1>8, <1>9, <1>10
  DEF Next, Cli, Bounded, Session, Environment

\* What lies behind an attempt is known throughout.
LEMMA PastInvariant == Spec => [](TInv /\ Ownership /\ Past)
  BY InitTInv, NextTInv, InitOwnership, NextOwnership, InitPast, NextPast, PTL DEF Spec

-----------------------------------------------------------------------------
\* The diagnostic targets cover what the attempt has installed so far; clusterip
\* gets to its install only within one cluster, and adds its other side after it.
Diagnosed ==
    /\ pc \in {"first", "target", "second", "session", "wait"} /\ Current = "clusterip"
          => place.sameCluster
    /\ pc \in {"first", "target", "second", "session", "wait", "ended"} =>
          \A r \in Releases :
             release[r] = run /\ r[1] = Current => SideOf(r[1], r[2]) \in targets
    /\ pc = "wait" /\ Current = "clusterip" /\ ~place.sameNamespace => "source" \in targets

\* At the start there is no attempt.
LEMMA InitDiagnosed == Init => Diagnosed
  BY DEF Init, Diagnosed

\* Every step of an attempt keeps its installs in sight of the diagnostics.
LEMMA NextDiagnosed == TInv /\ Past /\ Diagnosed /\ [Next]_vars => Diagnosed'
<1> SUFFICES ASSUME TInv, Past, Diagnosed, [Next]_vars PROVE Diagnosed'
  OBVIOUS
<1>1. CASE Prepare \/ Advance \/ CleanupAttempt \/ Uninstall \/ Rerun
  <2>1. pc' \in {"start", "begin", "cleanup", "advance", "done"}
    BY <1>1 DEF Prepare, Advance, CleanupAttempt, Uninstall, NextUninstall, Rerun
  <2> QED BY <2>1 DEF Diagnosed
<1>2. CASE BeginAttempt
  <2>1. /\ pc = "begin" /\ pc' \in {"first", "ended"}
        /\ pc' = "first" => ~Declines(Current)
        /\ UNCHANGED <<place, req, run, rung, targets, release>>
    BY <1>2 DEF BeginAttempt, Return, clusterVars
  <2>2. \A r \in Releases : release[r] = run => r[1] # Current
    BY <2>1 DEF Past, Attempting, InAttempt
  <2>3. Current = "clusterip" /\ ~Declines(Current) => place.sameCluster
    BY DEF Declines, TwoReleases
  <2> QED BY <2>1, <2>2, <2>3, SameAttempt DEF Diagnosed
<1>3. CASE InstallHelmChart
  <2> DEFINE r == <<Current, Part>>
  <2>1. /\ pc \in {"first", "second"} /\ pc' \in {"ended", "target", "second", "session", "wait"}
        /\ UNCHANGED <<place, req, run, rung>>
    BY <1>3 DEF InstallHelmChart, Return, AfterInstall
  <2>2. /\ targets' \in {Recorded(TRUE), Recorded(FALSE)}
        /\ pc' = "wait" => targets' = Recorded(TRUE)
    BY <1>3 DEF InstallHelmChart, Return
  <2>3. \A q \in Releases : q # r => release'[q] = release[q]
    <3>1. release' = release \/ release' = [release EXCEPT ![r] = run]
      BY <1>3 DEF InstallHelmChart, Create, clusterVars
    <3> QED BY <3>1 DEF TInv, TypeOK
  <2>4. targets \union {SideOf(Current, Part)} \subseteq targets'
    BY <2>2 DEF Recorded
  <2>5. \A q \in Releases :
           release'[q] = run /\ q[1] = Current => SideOf(q[1], q[2]) \in targets'
    BY <2>1, <2>3, <2>4 DEF Diagnosed
  <2>6. pc' = "wait" /\ Current = "clusterip" /\ ~place.sameNamespace => "source" \in targets'
    BY <2>2 DEF Recorded
  <2>7. \A q \in Releases : SideOf(q[1], q[2])' = SideOf(q[1], q[2])
    BY DEF SideOf
  <2> QED BY <2>1, <2>5, <2>6, <2>7, SameAttempt DEF Diagnosed
<1>4. CASE ResolveTarget \/ StartSession \/ WaitForMover \/ WaitBreaks \/ Interrupt \/ Kill
  <2>1. /\ UNCHANGED <<place, req, run, rung, targets, release>>
        /\ \/ pc \in {"target", "session", "wait"} /\ pc' \in {"ended", "second"}
           \/ pc = "session" /\ pc' = "wait"
           \/ pc' \in {pc, "killed"}
    BY <1>4 DEF ResolveTarget, StartSession, WaitForMover, WaitBreaks, Interrupt, Kill, Return,
       attemptVars, clusterVars
  <2>2. pc = "session" => Current # "clusterip"
    BY DEF TInv, Control, Attempting, InAttempt
  <2> QED BY <2>1, <2>2, SameAttempt DEF Diagnosed
<1>5. CASE (\E p \in Releases : PodChanges(p)) \/ (\E x \in leftovers : LeftoverChanges(x)) \/ UNCHANGED vars
  <2>1. UNCHANGED <<place, req, run, rung, pc, targets, release>>
    BY <1>5 DEF PodChanges, LeftoverChanges, vars, attemptVars
  <2> QED BY <2>1, SameAttempt DEF Diagnosed
<1> QED
  BY <1>1, <1>2, <1>3, <1>4, <1>5 DEF Next, Cli, Bounded, Session, Environment

\* A failed attempt is explained from everything it created: installHelmChart
\* records the release's side before it installs, so a half-made install is among
\* the targets of collectDiagnostics, and a waiting clusterip has both its sides.
THEOREM InstallsAreSeen == Spec => []DiagnosticsSeeInstalls
<1>1. TInv /\ Diagnosed => DiagnosticsSeeInstalls
  <2> SUFFICES ASSUME TInv, Diagnosed, NEW r \in Releases, release[r] = run, r[1] = Current
               PROVE  /\ pc = "ended" /\ err = "failed" => SideOf(r[1], r[2]) \in targets
                      /\ pc = "wait" =>
                           \A s \in WorkloadSides(r[1], r[2]) : \E t \in targets : SameStore(s, t)
    BY DEF DiagnosticsSeeInstalls
  <2>1. pc = "ended" => SideOf(r[1], r[2]) \in targets
    BY DEF Diagnosed
  <2>2. ASSUME pc = "wait", NEW s \in WorkloadSides(r[1], r[2])
        PROVE  \E t \in targets : SameStore(s, t)
    <3>1. SideOf(r[1], r[2]) \in targets
      BY <2>2 DEF Diagnosed
    <3>2. CASE Current # "clusterip"
      BY <2>2, <3>1, <3>2 DEF WorkloadSides, SameStore
    <3>3. CASE Current = "clusterip"
      <4>1. r = <<"clusterip", "only">> /\ SideOf(r[1], r[2]) = "dest"
        BY <3>3 DEF Releases, SideOf
      <4>2. s \in {"source", "dest"} /\ place.sameCluster
        BY <2>2, <3>3, <4>1 DEF WorkloadSides, Sides, Diagnosed
      <4>3. ~place.sameNamespace => "source" \in targets
        BY <2>2, <3>3 DEF Diagnosed
      <4> QED BY <3>1, <4>1, <4>2, <4>3 DEF SameStore
    <3> QED BY <3>2, <3>3
  <2> QED BY <2>1, <2>2
<1>2. Spec => []Diagnosed
  BY InitTInv, NextTInv, InitOwnership, NextOwnership, InitPast, NextPast, InitDiagnosed,
     NextDiagnosed, PTL DEF Spec
<1> QED BY <1>1, <1>2, PastInvariant, PTL

-----------------------------------------------------------------------------
\* The mover the attempt is about.
M == MoverRelease(Current)

\* This run's mover is there and has been started.
MoverUp == M \in Releases /\ release[M] = run /\ mover[M] # "none"

\* The pod the wait looks at is this run's, or one that was left to it.
OwnOrInherited == watched = run \/ Watched \in inherited

\* What the attempt knows of its mover: a pod that succeeded has copied, the wait
\* looks at a pod of this run or at one left by an earlier run; an attempt that
\* succeeded has copied, or is detached, and then it is not cleaned up.
Tracked ==
    /\ \A r \in Releases : mover[r] = "succeeded" => <<r, release[r]>> \in copied
    /\ pc \in {"second", "session"} /\ Current = "local" => release[M] = run
    /\ pc = "wait" => MoverUp /\ OwnOrInherited
    /\ pc \in {"ended", "cleanup", "advance"} /\ err = "none" =>
           IF req.detach THEN detached /\ MoverUp ELSE Watched \in copied /\ OwnOrInherited
    /\ pc \in {"begin", "first", "target", "second", "session", "wait", "cleanup"} => ~detached
    /\ result # "unknown" => pc = "done"
    /\ result = "succeeded" => Watched \in copied /\ OwnOrInherited
    /\ result = "detached" => MoverUp

\* At the start nothing has been installed or said.
LEMMA InitTracked == Init => Tracked
  BY MaxRunsAssumption DEF Init, Tracked

\* The mover's release is one of the strategy's, the last one that is installed
\* unless the strategy is local.
LEMMA MoverReleaseFacts ==
    ASSUME NEW s \in Strategies
    PROVE  /\ MoverRelease(s) \in Releases
           /\ MoverRelease(s)[1] = s
           /\ s \in {"mount", "clusterip"} => ReleaseNames(s)[1] = MoverPart(s)
           /\ s \in TwoReleases => ReleaseNames(s)[2] = MoverPart(s)
           /\ s = "local" => ReleaseNames(s)[1] = MoverPart(s) /\ ReleaseNames(s)[2] # MoverPart(s)
<1>1. CASE s \in {"mount", "clusterip"}
  BY <1>1 DEF MoverRelease, MoverPart, ReleaseNames, Releases, TwoReleases
<1>2. CASE s \in TwoReleases
  BY <1>2 DEF MoverRelease, MoverPart, ReleaseNames, Releases, TwoReleases
<1>3. CASE s = "local"
  BY <1>3 DEF MoverRelease, MoverPart, ReleaseNames, Releases, TwoReleases
<1> QED BY <1>1, <1>2, <1>3 DEF Strategies, TwoReleases

\* A step that leaves the request and the rung alone is about the same mover.
LEMMA SameMover ==
    ASSUME UNCHANGED <<req, rung>>
    PROVE  /\ Current' = Current /\ M' = M
           /\ UNCHANGED watched => Watched' = Watched
BY DEF Current, M, Watched, MoverRelease, MoverPart

\* An install puts this run's mover where the wait will look for it.
LEMMA InstallTracked ==
    ASSUME TInv, Ownership, Past, Tracked, InstallHelmChart
    PROVE  Tracked'
<1> DEFINE r == <<Current, Part>>
<1>1. /\ pc \in {"first", "second"} /\ Current \in Strategies /\ names = ReleaseNames(Current)
      /\ UNCHANGED <<req, run, rung, names, detached, result, leftovers, copied, inherited>>
  BY LadderFacts DEF InstallHelmChart, Create, clusterVars, TInv, Control, Attempting, InAttempt, historyVars
<1>2. Current' = Current /\ M' = M
  BY <1>1, SameMover
<1>3. r \in Releases /\ M \in Releases
  BY <1>1, ReleaseNamesFacts, MoverReleaseFacts DEF Part, M, TInv, Control, Attempting, InAttempt
<1>4. release \in [Releases -> 0..MaxRuns] /\ mover \in [Releases -> MoverPhases] /\ run # 0
  BY DEF TInv, TypeOK
<1>5. pc' = "ended" => err' # "none"
  BY <1>1 DEF InstallHelmChart, Return, AfterInstall
<1>6. pc' \in {"ended", "target", "second", "session", "wait"} /\ result = "unknown"
  BY <1>1 DEF InstallHelmChart, Return, AfterInstall, Tracked
<1>7. \A q \in Releases : mover'[q] = "succeeded" => <<q, release'[q]>> \in copied
  <2>1. \/ UNCHANGED <<release, mover>>
        \/ /\ release' = [release EXCEPT ![r] = run]
           /\ \E phase \in {"pending", "none"} : mover' = [mover EXCEPT ![r] = phase]
    BY DEF InstallHelmChart, Create, clusterVars
  <2>2. CASE UNCHANGED <<release, mover>>
    BY <2>2 DEF Tracked
  <2>3. CASE /\ release' = [release EXCEPT ![r] = run]
             /\ \E phase \in {"pending", "none"} : mover' = [mover EXCEPT ![r] = phase]
    BY <1>3, <1>4, <2>3 DEF Tracked
  <2> QED BY <2>1, <2>2, <2>3
<1>8. ASSUME pc' # "ended"
      PROVE  /\ pc' = AfterInstall
             /\ release' = [release EXCEPT ![r] = run]
             /\ mover' = [mover EXCEPT ![r] = IF HasJob(Current, Part) THEN "pending" ELSE "none"]
  BY <1>8 DEF InstallHelmChart, Return, Create
<1>9. ASSUME pc' \in {"second", "session"}, Current = "local" PROVE release'[M] = run
  <2>1. CASE pc = "first"
    <3>1. r = M
      BY <1>1, <1>9, <2>1, MoverReleaseFacts DEF Part, M, MoverRelease
    <3> QED BY <1>3, <1>4, <1>8, <1>9, <3>1
  <2>2. CASE pc = "second"
    BY <1>3, <1>4, <1>8, <1>9, <2>2 DEF Tracked
  <2> QED BY <1>1, <2>1, <2>2
<1>10. ASSUME pc' = "wait" PROVE release'[M] = run /\ mover'[M] # "none"
  <2>1. pc' = AfterInstall /\ Current # "local"
    BY <1>1, <1>8, <1>10 DEF AfterInstall, TwoReleases
  <2>2. Part = MoverPart(Current)
    <3>1. CASE pc = "first"
      BY <1>1, <1>10, <2>1, <3>1, MoverReleaseFacts DEF AfterInstall, Part, Strategies, TwoReleases
    <3>2. CASE pc = "second"
      <4>1. Current \in TwoReleases
        BY <1>1, <2>1, <3>2 DEF TInv, Control, Attempting, InAttempt, Strategies, TwoReleases
      <4> QED BY <1>1, <3>2, <4>1, MoverReleaseFacts DEF Part
    <3> QED BY <1>1, <3>1, <3>2
  <2>3. r = M /\ HasJob(Current, Part)
    BY <2>1, <2>2 DEF M, MoverRelease, HasJob
  <2> QED BY <1>3, <1>4, <1>8, <1>10, <2>3
<1>11. ASSUME pc' = "wait" PROVE watched' = run \/ <<M, watched'>> \in inherited
  <2>1. watched' \in MoverPods(Current)
    BY <1>8, <1>11 DEF InstallHelmChart, Return
  <2>2. watched' = run \/ <<M, watched'>> \in leftovers
    BY <2>1 DEF MoverPods, M
  <2>3. M[1] = Current /\ Current \notin Tried
    BY <1>1, MoverReleaseFacts DEF M, Past, Attempting, InAttempt
  <2> QED BY <1>1, <2>2, <2>3 DEF Past, Attempting, InAttempt
<1>12. ASSUME pc' = "wait" PROVE OwnOrInherited'
  BY <1>1, <1>2, <1>11, <1>12 DEF OwnOrInherited, Watched, M
<1> QED BY <1>1, <1>2, <1>3, <1>5, <1>6, <1>7, <1>9, <1>10, <1>12 DEF Tracked, MoverUp

\* Every step keeps track of the attempt's mover.
LEMMA NextTracked == TInv /\ Ownership /\ Past /\ Tracked /\ [Next]_vars => Tracked'
<1> SUFFICES ASSUME TInv, Ownership, Past, Tracked, [Next]_vars PROVE Tracked'
  OBVIOUS
<1>0. /\ pc \in Attempting => Current \in Strategies /\ M \in Releases
      /\ release \in [Releases -> 0..MaxRuns] /\ mover \in [Releases -> MoverPhases]
      /\ run \in Nat \ {0}
  BY LadderFacts, MoverReleaseFacts, MaxRunsAssumption DEF M, TInv, TypeOK
<1>1. CASE Prepare
  BY <1>1 DEF Prepare, Tracked, FreshAttempt, attemptVars, clusterVars, historyVars
<1>2. CASE BeginAttempt
  <2>1. /\ pc = "begin" /\ (pc' = "first" \/ (pc' = "ended" /\ err' # "none"))
        /\ UNCHANGED <<req, run, rung, watched, detached, result, release, mover, copied, inherited>>
    BY <1>2 DEF BeginAttempt, Return, clusterVars, historyVars
  <2> QED BY <2>1 DEF Tracked
<1>3. CASE InstallHelmChart
  BY <1>3, InstallTracked
<1>4. CASE ResolveTarget
  <2>1. /\ pc = "target" /\ (pc' = "second" \/ (pc' = "ended" /\ err' # "none"))
        /\ UNCHANGED <<req, run, rung, watched, detached, result, release, mover, copied, inherited>>
    BY <1>4 DEF ResolveTarget, Return, clusterVars, historyVars
  <2>2. Current' # "local"
    BY <2>1, SameMover DEF TInv, Control, Attempting, InAttempt
  <2> QED BY <2>1, <2>2 DEF Tracked
<1>5. CASE StartSession
  <2>1. /\ pc = "session" /\ Current = "local" /\ release[M] = run /\ M \in Releases
        /\ UNCHANGED <<req, run, rung, detached, result, release, copied, inherited>>
        /\ \/ pc' = "wait" /\ mover' = [mover EXCEPT ![M] = "running"] /\ watched' = run
           \/ pc' = "ended" /\ err' # "none" /\ mover' = mover
    BY <1>0, <1>5 DEF StartSession, Return, M, TInv, Control, Attempting, InAttempt, Tracked, historyVars
  <2>2. M' = M
    BY <2>1, SameMover
  <2> QED BY <1>0, <2>1, <2>2 DEF Tracked, MoverUp, OwnOrInherited
<1>6. CASE WaitForMover \/ WaitBreaks
  <2>1. /\ pc = "wait" /\ pc' = "ended" /\ MoverUp /\ M \in Releases /\ OwnOrInherited
        /\ UNCHANGED <<req, run, rung, watched, result, release, mover, copied, inherited>>
        /\ \/ err' = "failed"
           \/ WaitSucceeds(WatchedPhase) /\ err' = "none" /\ detached' = req.detach
    BY <1>0, <1>6 DEF WaitForMover, WaitBreaks, Return, M, Tracked, Attempting, InAttempt, clusterVars,
       historyVars
  <2>2. M' = M /\ Watched' = Watched
    BY <2>1, SameMover
  <2>3. ASSUME WaitSucceeds(WatchedPhase), ~req.detach PROVE Watched \in copied
    <3>1. WatchedPhase = "succeeded"
      BY <2>3 DEF WaitSucceeds
    <3>2. CASE watched = run
      BY <2>1, <3>1, <3>2 DEF WatchedPhase, Watched, M, Tracked, MoverUp
    <3>3. CASE watched # run
      BY <3>1, <3>3 DEF WatchedPhase
    <3> QED BY <3>2, <3>3
  <2> QED BY <2>1, <2>2, <2>3 DEF Tracked, MoverUp, OwnOrInherited
<1>7. CASE CleanupAttempt
  <2>1. /\ pc = "ended" /\ (pc' = "advance" \/ (pc' = "cleanup" /\ ~detached))
        /\ UNCHANGED <<req, run, rung, err, watched, detached, result, release, mover, copied, inherited>>
    BY <1>7 DEF CleanupAttempt, CleanupSkipped, attemptVars, clusterVars
  <2>2. M' = M /\ Watched' = Watched
    BY <2>1, SameMover
  <2> QED BY <2>1, <2>2 DEF Tracked, MoverUp, OwnOrInherited
<1>8. CASE Uninstall
  <2>1. /\ pc = "cleanup" /\ pc' \in {"cleanup", "advance"} /\ ~detached
        /\ UNCHANGED <<req, run, rung, err, watched, detached, result, copied, inherited>>
    BY <1>8 DEF Uninstall, NextUninstall, Tracked, attemptVars
  <2>2. M' = M /\ Watched' = Watched
    BY <2>1, SameMover
  <2>3. \A q \in Releases : \/ release'[q] = release[q] /\ mover'[q] = mover[q]
                            \/ mover'[q] = "none"
    BY <1>0, <1>8 DEF Uninstall, DeleteWorkloads, clusterVars
  <2>4. \A q \in Releases : mover'[q] = "succeeded" => <<q, release'[q]>> \in copied
    BY <2>3 DEF Tracked
  <2>5. err = "none" => ~req.detach /\ Watched \in copied /\ OwnOrInherited
    BY <2>1 DEF Tracked
  <2> QED BY <2>1, <2>2, <2>4, <2>5 DEF Tracked, MoverUp, OwnOrInherited
<1>9. CASE Advance
  <2>1. pc = "advance" /\ result = "unknown"
        /\ UNCHANGED <<req, run, release, mover, copied, inherited>>
    BY <1>9 DEF Advance, Tracked, clusterVars, historyVars
  <2>2. CASE err = "none"
    <3>1. /\ pc' = "done" /\ UNCHANGED <<req, rung, watched>>
          /\ result' = IF req.detach THEN "detached" ELSE "succeeded"
      BY <1>9, <2>2 DEF Advance, attemptVars
    <3>2. M' = M /\ Watched' = Watched
      BY <3>1, SameMover
    <3> QED BY <2>1, <2>2, <3>1, <3>2 DEF Tracked, MoverUp, OwnOrInherited
  <2>3. CASE err # "none"
    <3>1. \/ pc' = "done" /\ result' = "exhausted"
          \/ pc' = "begin" /\ result' = "unknown" /\ ~detached'
      BY <1>9, <2>1, <2>3 DEF Advance, FreshAttempt
    <3> QED BY <2>1, <3>1 DEF Tracked
  <2> QED BY <2>2, <2>3
<1>10. CASE Interrupt \/ Kill
  <2>1. /\ UNCHANGED <<req, run, rung, err, watched, detached, result, release, mover, copied, inherited>>
        /\ pc' = pc \/ (pc' = "killed" /\ pc # "done")
    BY <1>10 DEF Interrupt, Kill, Active, attemptVars, clusterVars, historyVars
  <2>2. M' = M /\ Current' = Current /\ Watched' = Watched
    BY <2>1, SameMover
  <2> QED BY <2>1, <2>2 DEF Tracked, MoverUp, OwnOrInherited
<1>11. CASE Rerun
  <2>1. /\ pc' = "start" /\ result' = "unknown" /\ UNCHANGED <<release, mover>>
        /\ copied' = {x \in copied : x \in leftovers \/ release[x[1]] = x[2]}
    BY <1>11 DEF Rerun, clusterVars
  <2>2. \A q \in Releases : <<q, release[q]>> \in copied => <<q, release[q]>> \in copied'
    BY <2>1
  <2> QED BY <2>1, <2>2 DEF Tracked
<1>12. ASSUME NEW p \in Releases, PodChanges(p) PROVE Tracked'
  <2>1. UNCHANGED <<req, run, pc, rung, err, watched, detached, result, release, inherited>>
    BY <1>12 DEF PodChanges, attemptVars
  <2>2. M' = M /\ Current' = Current /\ Watched' = Watched
    BY <2>1, SameMover
  <2>3. /\ \A q \in Releases : mover[q] # "none" => mover'[q] # "none"
        /\ \A q \in Releases : mover'[q] = "succeeded" =>
               mover[q] = "succeeded" \/ <<q, release[q]>> \in copied'
        /\ copied \subseteq copied'
    BY <1>0, <1>12 DEF PodChanges
  <2>4. MoverUp => MoverUp'
    BY <2>1, <2>2, <2>3 DEF MoverUp
  <2>5. OwnOrInherited' <=> OwnOrInherited
    BY <2>1, <2>2 DEF OwnOrInherited
  <2> QED BY <1>0, <2>1, <2>2, <2>3, <2>4, <2>5 DEF Tracked
<1>14. ASSUME NEW x \in leftovers, LeftoverChanges(x) PROVE Tracked'
  <2>1. /\ UNCHANGED <<req, run, pc, rung, err, watched, detached, result, release, mover, inherited>>
        /\ copied \subseteq copied'
    BY <1>14 DEF LeftoverChanges, attemptVars
  <2>2. M' = M /\ Current' = Current /\ Watched' = Watched
    BY <2>1, SameMover
  <2> QED BY <2>1, <2>2 DEF Tracked, MoverUp, OwnOrInherited
<1>13. CASE UNCHANGED vars
  <2>1. UNCHANGED <<req, run, pc, rung, err, watched, detached, result, release, mover, copied, inherited>>
    BY <1>13 DEF vars
  <2>2. M' = M /\ Current' = Current /\ Watched' = Watched
    BY <2>1, SameMover
  <2> QED BY <2>1, <2>2 DEF Tracked, MoverUp, OwnOrInherited
<1> QED
  BY <1>1, <1>2, <1>3, <1>4, <1>5, <1>6, <1>7, <1>8, <1>9, <1>10, <1>11, <1>12, <1>13, <1>14
  DEF Next, Cli, Bounded, Session, Environment

\* What is known of the mover holds throughout.
LEMMA TrackedInvariant == Spec => []Tracked
  BY InitTInv, NextTInv, InitOwnership, NextOwnership, InitPast, NextPast, InitTracked, NextTracked,
     PTL DEF Spec

\* "Migration succeeded" is said only when a mover of the strategy it names finished
\* the copy, and that mover is this run's unless a pod of the same name was still
\* terminating when the run started: waitForRsyncJob never takes the word of
\* another attempt, nor of a kept or stuck release of an earlier run.
THEOREM SuccessIsCopied == Spec => []SuccessMeansCopied
<1>1. Tracked => SuccessMeansCopied
  BY DEF Tracked, SuccessMeansCopied, OwnOrInherited
<1> QED BY <1>1, TrackedInvariant, PTL

\* A detached run leaves the job it talks about: cleanupAttempt does not touch the
\* releases once the attempt has detached.
THEOREM DetachedJobStays == Spec => []DetachLeavesJob
<1>1. Tracked => DetachLeavesJob
  BY DEF Tracked, MoverUp, DetachLeavesJob, M
<1> QED BY <1>1, TrackedInvariant, PTL

-----------------------------------------------------------------------------
(* The wait of an attempt against the contract that JobWait and LocalTunnel   *)
(* are shown to keep                                                          *)

\* What the wait of the current attempt has returned.
WaitVerdict == IF pc # "ended" THEN "none" ELSE IF err = "none" THEN "nil" ELSE "error"

Job == INSTANCE JobVerdict WITH phase <- WatchedPhase, verdict <- WaitVerdict

\* While an attempt that does not detach waits, the pod it has found, the context
\* and the answer move as the contract of the wait allows, and in no other way.
WaitsAsPromised == [][pc = "wait" /\ ~req.detach => [Job!Next]_(Job!vars)]_vars

\* The ladder assumes no more of the wait than WaitForJobCompletion and
\* runLocalMigration promise.
THEOREM AssumesThePromise == Spec => WaitsAsPromised
<1>1. ASSUME TInv, Tracked, [Next]_vars, pc = "wait", ~req.detach PROVE [Job!Next]_(Job!vars)
  <2> USE <1>1 DEF Job!vars
  <2>0. M \in Releases /\ mover \in [Releases -> MoverPhases] /\ release[M] = run
    BY DEF Tracked, MoverUp, TInv, TypeOK
  <2>1. CASE WaitForMover \/ WaitBreaks
    <3>1. /\ pc' = "ended" /\ UNCHANGED <<req, run, rung, watched, mover, leftovers, copied, cancelled>>
          /\ err' = "failed" \/ (err' = "none" /\ WatchedPhase = "succeeded")
      BY <2>1 DEF WaitForMover, WaitBreaks, Return, WaitSucceeds, clusterVars, historyVars
    <3>2. WatchedPhase' = WatchedPhase
      BY <3>1, SameMover DEF WatchedPhase, M
    <3> QED BY <3>1, <3>2 DEF Job!Next, Job!Decide, WaitVerdict
  <2>2. CASE Interrupt \/ Kill
    <3>1. /\ UNCHANGED <<req, run, rung, watched, mover, leftovers, copied>> /\ pc' \in {"wait", "killed"}
          /\ cancelled' = TRUE \/ UNCHANGED cancelled
      BY <2>2 DEF Interrupt, Kill, attemptVars, clusterVars, historyVars
    <3>2. WatchedPhase' = WatchedPhase
      BY <3>1, SameMover DEF WatchedPhase, M
    <3> QED BY <3>1, <3>2 DEF Job!Next, Job!Interrupt, WaitVerdict
  <2>3. ASSUME NEW r \in Releases, PodChanges(r) PROVE [Job!Next]_(Job!vars)
    <3>1. UNCHANGED <<req, run, rung, watched, pc, leftovers, release, cancelled>>
      BY <2>3 DEF PodChanges, attemptVars
    <3>2. M' = M /\ Watched' = Watched
      BY <3>1, SameMover
    <3>3. \/ mover'[M] = mover[M]
          \/ mover[M] = "pending" /\ mover'[M] \in {"running", "failed"}
          \/ mover[M] = "running" /\ mover'[M] \in {"succeeded", "failed"}
      BY <2>0, <2>3 DEF PodChanges
    <3>4. CASE watched = run
      <4>1. WatchedPhase = mover[M] /\ WatchedPhase' = mover'[M]
        BY <3>1, <3>2, <3>4 DEF WatchedPhase, M
      <4> QED BY <3>1, <3>3, <4>1 DEF Job!Next, Job!PodChanges, WaitVerdict
    <3>5. CASE watched # run
      <4>1. Watched \in copied' <=> Watched \in copied
        BY <2>0, <2>3, <3>5 DEF PodChanges, Watched, M
      <4>2. WatchedPhase' = WatchedPhase
        BY <3>1, <3>2, <3>5, <4>1 DEF WatchedPhase
      <4> QED BY <3>1, <4>2 DEF WaitVerdict
    <3> QED BY <3>4, <3>5
  <2>4. ASSUME NEW x \in leftovers, LeftoverChanges(x) PROVE [Job!Next]_(Job!vars)
    <3>1. UNCHANGED <<req, run, rung, watched, pc, mover, cancelled>>
      BY <2>4 DEF LeftoverChanges, attemptVars
    <3>2. M' = M /\ Watched' = Watched
      BY <3>1, SameMover
    <3>3. CASE watched = run
      <4>1. WatchedPhase' = WatchedPhase
        BY <3>1, <3>2, <3>3 DEF WatchedPhase, M
      <4> QED BY <3>1, <4>1 DEF WaitVerdict
    <3>4. CASE watched # run
      <4>1. \/ WatchedPhase' = WatchedPhase
            \/ WatchedPhase = "running" /\ WatchedPhase' \in {"succeeded", "failed"}
        <5>1. CASE Watched # x
          BY <2>4, <3>1, <3>2, <3>4, <5>1 DEF LeftoverChanges, WatchedPhase
        <5>2. CASE Watched = x
          BY <2>4, <3>1, <3>2, <3>4, <5>2 DEF LeftoverChanges, WatchedPhase
        <5> QED BY <5>1, <5>2
      <4> QED BY <3>1, <4>1 DEF Job!Next, Job!PodChanges, WaitVerdict
    <3> QED BY <3>3, <3>4
  <2>5. CASE UNCHANGED vars
    <3>1. UNCHANGED <<req, run, rung, watched, pc, err, cancelled, mover, leftovers, copied>>
      BY <2>5 DEF vars
    <3>2. WatchedPhase' = WatchedPhase
      BY <3>1, SameMover DEF WatchedPhase, M
    <3> QED BY <3>1, <3>2 DEF WaitVerdict
  <2>6. ~(Prepare \/ BeginAttempt \/ InstallHelmChart \/ ResolveTarget \/ StartSession
          \/ CleanupAttempt \/ Uninstall \/ Advance \/ Rerun)
    BY DEF Prepare, BeginAttempt, InstallHelmChart, ResolveTarget, StartSession, CleanupAttempt,
       Uninstall, Advance, Rerun, Active
  <2> QED BY <2>1, <2>2, <2>3, <2>4, <2>5, <2>6 DEF Next, Cli, Bounded, Session, Environment
<1>2. TInv /\ Tracked /\ [Next]_vars
        => [pc = "wait" /\ ~req.detach => [Job!Next]_(Job!vars)]_vars
  BY <1>1
<1>3. Spec => []TInv
  BY InitTInv, NextTInv, PTL DEF Spec
<1> QED BY <1>2, <1>3, TrackedInvariant, PTL DEF Spec, WaitsAsPromised

\* The ladder is ready for every verdict the contract allows, success after an
\* interrupt included: what JobWait and LocalTunnel may return, some step of the
\* ladder's wait returns.
THEOREM TakesEveryVerdict ==
    ASSUME TypeOK, Tracked, pc = "wait", ~req.detach,
           Job!Decide, pc' = "ended", err' \in {"none", "failed"},
           UNCHANGED <<place, req, run, rung, names, targets, detached, watched, cleanupVars,
                       outcomes, result, clusterVars, historyVars>>
    PROVE  WaitForMover \/ WaitBreaks
<1>1. req.detach = FALSE /\ detached = FALSE
  BY RequestsAssumption DEF TypeOK, RequestType, Tracked
<1>2. cancelled' = cancelled
  BY DEF Job!Decide
<1>3. CASE err' = "failed"
  BY <1>2, <1>3 DEF WaitBreaks, Return
<1>4. CASE err' = "none"
  <2>1. WatchedPhase = "succeeded"
    BY <1>4 DEF Job!Decide, WaitVerdict
  <2>2. WaitSucceeds(WatchedPhase)
    BY <2>1, <1>1 DEF WaitSucceeds
  <2> QED BY <1>1, <1>2, <1>4, <2>2 DEF WaitForMover, Return
<1> QED BY <1>3, <1>4

=============================================================================
