--------------------------- MODULE JobWaitProofs ----------------------------
(* The wait for a job and its log follower, for a log of any length and any   *)
(* retry delays: the terminal, and the contract with the callers.             *)
EXTENDS JobWait, TLAPS

-----------------------------------------------------------------------------
(* The inductive invariant *)

\* The goroutines of a stream live while the follower runs it, and the follower
\* lives from the start of the watch until the waiter has joined it.
Lifetimes ==
    /\ follower # "run" => tail = "done" /\ render = "done"
    /\ follower = "run" => streamedOnce
    /\ pc \in {"resolve", "start"} => follower = "off"
    /\ pc \in {"watch", "mark", "stop", "join"} => follower # "off"
    /\ pc = "print" => follower = "exit"
    /\ pc = "returned" => follower \in {"off", "exit"}

\* Success is what the waiter has seen of the pod.  The completion signal is given
\* once, and from then on the bar is not the waiter's to close.
Signalled ==
    /\ verdict = "nil" \/ pc = "mark" => phase = "succeeded"
    /\ pc \in {"resolve", "start", "watch", "mark"} => verdict = "none"
    /\ pc \in {"stop", "join", "print", "returned"} => verdict # "none"
    /\ verdict # "nil" => success = 0 /\ barOpen = showBar /\ ~barFinished
    /\ verdict = "nil" /\ pc # "returned" => ~barOpen

\* A line on its way to the renderer reports some progress.  Once the bar is
\* finished there is none: the log has ended, and a stream opened again starts at
\* its end, for it is not the first.
Lines ==
    /\ pos <= written
    /\ tail = "send" => pos > 0
    /\ transferred > 0 \/ barFinished => streamedOnce
    /\ barFinished /\ render = "loop" => pos = written /\ tail # "send"

\* The line of the bar as the follower leaves it.
BarOf == IF barFinished THEN "ended" ELSE IF transferred > 0 THEN "open" ELSE "none"

\* The terminal: the follower's as long as it lives, and closed by the waiter
\* where the follower did not.
Terminated ==
    /\ ~showBar => transferred = 0 /\ ~barFinished
    /\ follower = "off" => transferred = 0 /\ ~barFinished
    /\ pc \notin {"print", "returned"} => barLine = BarOf
    /\ pc = "print" /\ verdict = "nil" => barLine = BarOf
    /\ pc = "print" /\ verdict = "error" => barLine \in {"none", "ended"}
    /\ pc = "returned" => barLine \in {"none", "ended"}

IInv == TypeOK /\ Lifetimes /\ Signalled /\ Lines /\ Terminated

-----------------------------------------------------------------------------
(* Initially, and the retry delay *)

\* The delay stays within its bounds when it is doubled.
LEMMA DoubledBounded ==
    ASSUME NEW d \in InitialDelay..MaxDelay
    PROVE  Doubled(d) \in InitialDelay..MaxDelay
BY DelayAssumption DEF Doubled

LEMMA Initially == Init => IInv
<1> SUFFICES ASSUME Init PROVE IInv
  OBVIOUS
<1>0. 0 \in 0..MaxLines /\ InitialDelay \in InitialDelay..MaxDelay
  BY MaxLinesAssumption, DelayAssumption
<1>1. TypeOK
  BY <1>0 DEF Init, TypeOK
<1>2. Lifetimes /\ Signalled /\ Lines /\ Terminated
  BY DEF Init, Lifetimes, Signalled, Lines, Terminated, BarOf
<1> QED BY <1>1, <1>2 DEF IInv

-----------------------------------------------------------------------------
(* The steps *)

\* The waiter before the follower is told to stop.
LEMMA WaiterStarts ==
    ASSUME IInv, ResolvePod \/ WaitForJobStart \/ WaitForPodTermination \/ WatchBreaks
    PROVE  IInv'
<1> USE DEF IInv, Goes, VerdictOf, Terminal, podVars, followerVars, streamVars, tailVars, barVars
<1>1. CASE ResolvePod
  <2> USE <1>1 DEF ResolvePod
  <2>1. TypeOK'
    BY DEF TypeOK
  <2>2. Lifetimes' /\ Signalled' /\ Lines'
    BY DEF Lifetimes, Signalled, Lines
  <2>3. Terminated'
    BY DEF Terminated, Lifetimes, BarOf
  <2> QED BY <2>1, <2>2, <2>3
<1>2. CASE WaitForJobStart
  <2> USE <1>2 DEF WaitForJobStart
  <2>1. TypeOK'
    BY DEF TypeOK
  <2>2. Lifetimes' /\ Signalled' /\ Lines'
    BY DEF Lifetimes, Signalled, Lines
  <2>3. Terminated'
    BY DEF Terminated, Lifetimes, BarOf
  <2> QED BY <2>1, <2>2, <2>3
<1>3. CASE WaitForPodTermination
  <2> USE <1>3 DEF WaitForPodTermination
  <2>1. TypeOK'
    BY DEF TypeOK
  <2>2. Lifetimes' /\ Signalled' /\ Lines' /\ Terminated'
    BY DEF Lifetimes, Signalled, Lines, Terminated, BarOf
  <2> QED BY <2>1, <2>2
<1>4. CASE WatchBreaks
  <2> USE <1>4 DEF WatchBreaks
  <2>1. TypeOK'
    BY DEF TypeOK
  <2>2. Lifetimes' /\ Signalled' /\ Lines' /\ Terminated'
    BY DEF Lifetimes, Signalled, Lines, Terminated, BarOf
  <2> QED BY <2>1, <2>2
<1> QED BY <1>1, <1>2, <1>3, <1>4

\* The waiter from the completion signal on: it closes the bar's line exactly
\* where the follower has not.
LEMMA WaiterStops ==
    ASSUME IInv, MarkAsComplete \/ StopFollower \/ JoinFollower \/ PrintAndReturn
    PROVE  IInv'
<1> USE DEF IInv, Goes, podVars, followerVars, streamVars, tailVars, barVars
<1>1. CASE MarkAsComplete
  <2> USE <1>1 DEF MarkAsComplete
  <2>1. TypeOK'
    <3>1. success' \in {0, 1}
      BY DEF TypeOK
    <3>2. barOpen' \in BOOLEAN
      BY DEF TypeOK
    <3>3. pc' \in {"stop"} /\ verdict' \in {"nil", "error"}
      OBVIOUS
    <3> QED BY <3>1, <3>2, <3>3 DEF TypeOK
  <2>2. Lifetimes' /\ Signalled' /\ Lines' /\ Terminated'
    BY DEF Lifetimes, Signalled, Lines, Terminated, BarOf
  <2> QED BY <2>1, <2>2
<1>2. CASE StopFollower
  <2> USE <1>2 DEF StopFollower
  <2>1. TypeOK'
    BY DEF TypeOK
  <2>2. Lifetimes' /\ Signalled' /\ Lines' /\ Terminated'
    BY DEF Lifetimes, Signalled, Lines, Terminated, BarOf
  <2> QED BY <2>1, <2>2
<1>3. CASE JoinFollower
  <2> USE <1>3 DEF JoinFollower, Joined
  <2>1. TypeOK'
    BY DEF TypeOK, Newline
  <2>2. Lifetimes' /\ Signalled' /\ Lines'
    BY DEF Lifetimes, Signalled, Lines
  <2>3. Terminated'
    BY DEF TypeOK, Lifetimes, Signalled, Terminated, BarOf, Rendered, Newline
  <2> QED BY <2>1, <2>2, <2>3
<1>4. CASE PrintAndReturn
  <2> USE <1>4 DEF PrintAndReturn, NeedsFinish
  <2>1. TypeOK'
    <3>1. barFinished' \in BOOLEAN
      BY DEF TypeOK
    <3>2. barLine' \in {"none", "open", "ended", "extra"}
      BY DEF TypeOK, Newline
    <3> QED BY <3>1, <3>2 DEF TypeOK
  <2>2. Lifetimes' /\ Signalled' /\ Lines'
    BY DEF Lifetimes, Signalled, Lines
  <2>3. Terminated'
    BY DEF TypeOK, Lifetimes, Signalled, Terminated, BarOf, Newline
  <2> QED BY <2>1, <2>2, <2>3
<1> QED BY <1>1, <1>2, <1>3, <1>4

\* The follower: a stream is opened with both its goroutines, and left when both
\* are done.
LEMMA FollowerStep ==
    ASSUME IInv, TopOfLoop \/ OpenStream \/ OpenFails \/ StreamEnds
    PROVE  IInv'
<1> USE DEF IInv, podVars, waiterVars, streamVars, tailVars, barVars
<1>0. Doubled(delay) \in InitialDelay..MaxDelay
  BY DoubledBounded DEF TypeOK
<1>1. CASE TopOfLoop
  <2> USE <1>1 DEF TopOfLoop
  <2>1. TypeOK'
    BY DEF TypeOK
  <2>2. Lifetimes' /\ Signalled' /\ Lines' /\ Terminated'
    BY DEF TypeOK, Lifetimes, Signalled, Lines, Terminated, BarOf
  <2> QED BY <2>1, <2>2
<1>2. CASE OpenStream
  <2> USE <1>2 DEF OpenStream
  <2>1. /\ FollowFrom \in 0..MaxLines /\ FollowFrom <= written
        /\ streamedOnce => FollowFrom = written
    BY MaxLinesAssumption DEF FollowFrom, TypeOK
  <2>2. TypeOK'
    <3>1. pos' \in 0..MaxLines
      BY <2>1
    <3>2. streamedOnce' \in BOOLEAN /\ streamCancelled' \in BOOLEAN
      OBVIOUS
    <3>3. tail' = "scan" /\ tailErr' = "none" /\ render' = "loop" /\ follower' = "run"
      OBVIOUS
    <3> QED BY <3>1, <3>2, <3>3 DEF TypeOK
  <2>3. Lifetimes' /\ Signalled' /\ Terminated'
    BY DEF Lifetimes, Signalled, Terminated, BarOf
  <2>4. Lines'
    <3>1. pos' <= written' /\ tail' = "scan" /\ barFinished' = barFinished
      BY <2>1
    <3>2. ASSUME barFinished PROVE pos' = written'
      BY <3>2, <2>1 DEF Lines
    <3> QED BY <3>1, <3>2 DEF Lines
  <2> QED BY <2>2, <2>3, <2>4
<1>3. CASE OpenFails
  <2> USE <1>3 DEF OpenFails
  <2>1. TypeOK'
    BY <1>0 DEF TypeOK
  <2>2. Lifetimes' /\ Signalled' /\ Lines' /\ Terminated'
    BY DEF Lifetimes, Signalled, Lines, Terminated, BarOf
  <2> QED BY <2>1, <2>2
<1>4. CASE StreamEnds
  <2> USE <1>4 DEF StreamEnds
  <2>1. TypeOK'
    BY <1>0 DEF TypeOK
  <2>2. Lifetimes' /\ Signalled' /\ Lines' /\ Terminated'
    BY DEF Lifetimes, Signalled, Lines, Terminated, BarOf
  <2> QED BY <2>1, <2>2
<1> QED BY <1>1, <1>2, <1>3, <1>4

\* The tail and the renderer.
LEMMA StreamStep ==
    ASSUME IInv, TailScans \/ StreamBreaks \/ TailGivesUp \/ HandleLine \/ RenderEnds
    PROVE  IInv'
<1> USE DEF IInv, podVars, waiterVars, followerVars, tailVars, barVars
<1>1. CASE TailScans \/ StreamBreaks \/ TailGivesUp
  <2> USE <1>1 DEF TailScans, StreamBreaks, TailGivesUp, TailReturns
  <2>1. TypeOK'
    <3>1. pos' \in 0..MaxLines
      <4>1. pos' = pos \/ (pos < written /\ pos' = pos + 1)
        BY Zenon
      <4>2. pos \in 0..MaxLines /\ written \in 0..MaxLines
        BY DEF TypeOK
      <4> HIDE <1>1
      <4> QED BY <4>1, <4>2, MaxLinesAssumption
    <3>2. streamCancelled' \in BOOLEAN
      BY DEF TypeOK
    <3>3. tail' \in {"send", "done"} /\ tailErr' \in {"none", "eof", "broken", "canceled"}
      BY DEF TypeOK
    <3> QED BY <3>1, <3>2, <3>3 DEF TypeOK
  <2>2. Lifetimes' /\ Signalled' /\ Terminated'
    BY DEF Lifetimes, Signalled, Terminated, BarOf
  <2>3. Lines'
    BY DEF TypeOK, Lines
  <2> QED BY <2>1, <2>2, <2>3
<1>2. CASE HandleLine
  <2> USE <1>2 DEF HandleLine
  <2>1. TypeOK'
    <3>1. transferred' \in 0..MaxLines
      BY DEF TypeOK
    <3>2. barLine' \in {"none", "open", "ended", "extra"}
      BY DEF TypeOK
    <3> QED BY <3>1, <3>2 DEF TypeOK
  <2>2. Lifetimes' /\ Signalled' /\ Lines'
    BY DEF Lifetimes, Signalled, Lines
  <2>3. Terminated'
    BY DEF TypeOK, Lifetimes, Lines, Terminated, BarOf
  <2> QED BY <2>1, <2>2, <2>3
<1>3. CASE RenderEnds
  <2> USE <1>3 DEF RenderEnds
  <2>0. pc \in {"watch", "mark", "stop", "join"} /\ follower = "run"
    BY DEF TypeOK, Lifetimes
  <2>1. TypeOK'
    <3>1. success' \in {0, 1}
      BY DEF TypeOK
    <3>2. barFinished' \in BOOLEAN
      BY DEF TypeOK
    <3>3. barLine' \in {"none", "open", "ended", "extra"}
      BY DEF TypeOK, Newline
    <3> QED BY <3>1, <3>2, <3>3 DEF TypeOK
  <2>2. Lifetimes' /\ Lines'
    BY <2>0 DEF Lifetimes, Lines
  <2>4. Signalled'
    <3>1. CASE StreamDone /\ UNCHANGED <<success, barFinished, barLine>>
      BY <3>1 DEF Signalled
    <3>2. CASE success = 1 /\ success' = 0
      <4>1. verdict = "nil" /\ phase = "succeeded"
        BY <2>0, <3>2 DEF TypeOK, Signalled
      <4> QED BY <4>1, <3>2, <2>0 DEF Signalled
    <3> QED BY <3>1, <3>2
  <2>3. Terminated'
    BY <2>0 DEF TypeOK, Terminated, BarOf, Newline
  <2> QED BY <2>1, <2>2, <2>3, <2>4
<1> QED BY <1>1, <1>2, <1>3

\* The pod and the context.
LEMMA EnvironmentStep ==
    ASSUME IInv, PodChanges \/ PodPrints \/ PodDeleted \/ Interrupt
    PROVE  IInv'
<1> USE DEF IInv, waiterVars, followerVars, streamVars, tailVars, barVars, podVars
<1>1. CASE PodChanges
  BY <1>1 DEF PodChanges, TypeOK, Lifetimes, Signalled, Lines, Terminated, BarOf
<1>2. CASE PodPrints
  <2>1. TypeOK' /\ Lines'
    BY <1>2, MaxLinesAssumption DEF PodPrints, TypeOK, Lines, Signalled
  <2>2. Lifetimes' /\ Signalled' /\ Terminated'
    BY <1>2 DEF PodPrints, Lifetimes, Signalled, Terminated, BarOf
  <2> QED BY <2>1, <2>2
<1>3. CASE PodDeleted
  <2>1. TypeOK'
    BY <1>3 DEF PodDeleted, TypeOK
  <2>2. Lifetimes' /\ Signalled' /\ Lines' /\ Terminated'
    BY <1>3 DEF PodDeleted, Lifetimes, Signalled, Lines, Terminated, BarOf
  <2> QED BY <2>1, <2>2
<1>4. CASE Interrupt
  <2>1. TypeOK'
    BY <1>4 DEF Interrupt, TypeOK
  <2>2. Lifetimes' /\ Signalled' /\ Lines' /\ Terminated'
    BY <1>4 DEF Interrupt, Lifetimes, Signalled, Lines, Terminated, BarOf
  <2> QED BY <2>1, <2>2
<1> QED BY <1>1, <1>2, <1>3, <1>4

LEMMA NextIInv == IInv /\ [Next]_vars => IInv'
<1> SUFFICES ASSUME IInv, [Next]_vars PROVE IInv'
  OBVIOUS
<1>1. CASE UNCHANGED vars
  BY <1>1 DEF vars, IInv, TypeOK, Lifetimes, Signalled, Lines, Terminated, BarOf
<1>2. CASE Next
  BY <1>2, WaiterStarts, WaiterStops, FollowerStep, StreamStep, EnvironmentStep
     DEF Next, Waiter, Follower, Tail, Renderer, Environment
<1> QED BY <1>1, <1>2

LEMMA Invariance == Spec => []IInv
  BY Initially, NextIInv, PTL DEF Spec

-----------------------------------------------------------------------------
(* Theorems *)

\* The wait's state keeps its types: the retry delay of Logger.Start stays between
\* its first value and its ceiling, and successCh holds one token at most.
THEOREM TypeCorrect == Spec => []TypeOK
<1>1. IInv => TypeOK
  BY DEF IInv
<1> QED BY <1>1, Invariance, PTL

\* Whoever prints after stopFollower has the terminal to itself: no goroutine of
\* the follower is left, then or ever after.
THEOREM FollowerIsGone == Spec => []FollowerGone
<1>1. IInv => FollowerGone
  BY DEF IInv, Lifetimes, FollowerGone
<1> QED BY <1>1, Invariance, PTL

\* The line of a bar that was drawn is terminated exactly once, by the renderer,
\* by FinishBar or by stopFollower, in every order of completion signal, dropped
\* stream, reopened stream and interrupt.
THEOREM BarIsTerminatedOnce == Spec => []BarTerminatedOnce
<1>1. IInv => BarTerminatedOnce
  BY DEF IInv, TypeOK, Signalled, Terminated, BarTerminatedOnce, BarOf
<1> QED BY <1>1, Invariance, PTL

\* A bar that is finished is never drawn again, neither by a line that was on its
\* way nor by a stream opened again, and nobody adds a second newline.
FinishedBarStays == [][barFinished => UNCHANGED barVars]_vars

\* The bar is final once it is finished: of the steps that draw or end a line,
\* HandleLine finds no line, RenderEnds sees the flag, stopFollower no longer owns
\* the bar, and FinishBar has nothing to do.
THEOREM FinishedBarIsFinal == Spec => FinishedBarStays
<1>1. ASSUME IInv, [Next]_vars, barFinished PROVE UNCHANGED barVars
  <2> USE <1>1 DEF barVars
  <2>1. CASE HandleLine
    BY <2>1 DEF HandleLine, IInv, Lines
  <2>2. CASE RenderEnds
    BY <2>2 DEF RenderEnds
  <2>3. CASE JoinFollower
    <3>1. ~barOpen
      BY <2>3 DEF JoinFollower, IInv, Signalled
    <3> QED BY <2>3, <3>1 DEF JoinFollower
  <2>4. CASE PrintAndReturn
    BY <2>4 DEF PrintAndReturn, NeedsFinish
  <2>5. CASE ResolvePod \/ WaitForJobStart \/ WaitForPodTermination \/ WatchBreaks \/ MarkAsComplete
             \/ StopFollower
    BY <2>5 DEF ResolvePod, WaitForJobStart, WaitForPodTermination, WatchBreaks, MarkAsComplete,
       StopFollower
  <2>6. CASE TopOfLoop \/ OpenStream \/ OpenFails \/ StreamEnds
    BY <2>6 DEF TopOfLoop, OpenStream, OpenFails, StreamEnds
  <2>7. CASE TailScans \/ StreamBreaks \/ TailGivesUp
    BY <2>7 DEF TailScans, StreamBreaks, TailGivesUp
  <2>8. CASE PodChanges \/ PodPrints \/ PodDeleted \/ Interrupt
    BY <2>8 DEF PodChanges, PodPrints, PodDeleted, Interrupt
  <2>9. CASE UNCHANGED vars
    BY <2>9 DEF vars
  <2> QED BY <2>1, <2>2, <2>3, <2>4, <2>5, <2>6, <2>7, <2>8, <2>9
          DEF Next, Waiter, Follower, Tail, Renderer, Environment
<1>2. IInv /\ [Next]_vars => [barFinished => UNCHANGED barVars]_vars
  BY <1>1
<1> QED BY <1>2, Invariance, PTL DEF Spec, FinishedBarStays

\* A step of the wait is a step of the contract, or none of its business.
LEMMA StepRefines == IInv /\ [Next]_vars => [Contract!Next]_(Contract!vars)
<1> SUFFICES ASSUME IInv, [Next]_vars PROVE [Contract!Next]_(Contract!vars)
  OBVIOUS
<1> USE DEF Contract!Next, Contract!vars, Contract!PodChanges, Contract!Interrupt, Contract!Decide
<1>1. CASE ResolvePod \/ WaitForJobStart
  BY <1>1 DEF ResolvePod, WaitForJobStart, Goes, VerdictOf, Terminal, podVars
<1>2. CASE WaitForPodTermination \/ WatchBreaks \/ MarkAsComplete \/ StopFollower \/ JoinFollower
  BY <1>2 DEF WaitForPodTermination, WatchBreaks, MarkAsComplete, StopFollower, JoinFollower, Goes,
     podVars
<1>3. CASE PrintAndReturn
  BY <1>3 DEF PrintAndReturn, IInv, TypeOK, Signalled, podVars
<1>4. CASE TopOfLoop \/ OpenStream \/ OpenFails \/ StreamEnds
  BY <1>4 DEF TopOfLoop, OpenStream, OpenFails, StreamEnds, podVars, waiterVars
<1>5. CASE TailScans \/ StreamBreaks \/ TailGivesUp \/ HandleLine \/ RenderEnds
  BY <1>5 DEF TailScans, StreamBreaks, TailGivesUp, HandleLine, RenderEnds, podVars, waiterVars
<1>6. CASE PodChanges \/ PodPrints \/ PodDeleted \/ Interrupt
  BY <1>6 DEF PodChanges, PodPrints, PodDeleted, Interrupt, podVars, waiterVars
<1>7. CASE UNCHANGED vars
  BY <1>7 DEF vars
<1> QED BY <1>1, <1>2, <1>3, <1>4, <1>5, <1>6, <1>7
        DEF Next, Waiter, Follower, Tail, Renderer, Environment

\* WaitForJobCompletion keeps the safety part of its contract with the ladder and
\* the backup: it returns one verdict and never takes it back, and the verdict is
\* success only for a job that succeeded.
THEOREM ImplementsContract == Spec => Contract!Safety
<1>1. Init => Contract!Init
  BY DEF Init, Contract!Init
<1> QED BY <1>1, StepRefines, Invariance, PTL DEF Spec, Contract!Safety

=============================================================================
