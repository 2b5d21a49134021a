------------------------------- MODULE JobWait ------------------------------
(***************************************************************************)
(* WaitForJobCompletion (internal/k8s/job.go) with the log follower it     *)
(* runs beside itself (internal/progresslog/logger.go).  Four goroutines:  *)
(*                                                                         *)
(*   the waiter    resolves the pod, waits for its end, stops the follower,*)
(*                 and only then prints;                                   *)
(*   the follower  Logger.Start: opens the log stream and opens it again   *)
(*                 when it ends, until it is stopped;                      *)
(*   the tail      reads lines and hands them over an unbuffered channel;  *)
(*   the renderer  takes them and draws the progress bar.                  *)
(*                                                                         *)
(* The last two live as long as one stream (startSingle).  They share      *)
(* successCh, the cancellation of the follower's context and that of the   *)
(* stream's own, and the terminal the bar is drawn on.                     *)
(***************************************************************************)
EXTENDS Integers

CONSTANTS
    MaxLines,          \* progress lines the job prints (a bound)
    InitialDelay,      \* logRetryInitialDelay
    MaxDelay           \* logRetryMaxDelay

ASSUME MaxLinesAssumption == MaxLines \in Nat \ {0}

ASSUME DelayAssumption ==
    InitialDelay \in Nat \ {0} /\ MaxDelay \in Nat /\ InitialDelay <= MaxDelay

VARIABLES
    phase,          \* phase of the job's pod, "absent" before there is one
    gone,           \* the pod has been deleted
    written,        \* lines in its log; line n reports a progress of n
    cancelled,      \* the caller's context
    showBar,        \* a progress bar belongs on this run
    pc,             \* the waiter
    verdict,        \* what it is returning
    barOpen,        \* its barOpen
    tailCancelled,  \* tailCancel was called
    follower,       \* Logger.Start
    delay,          \* its retryDelay
    streamedOnce,   \* a stream was asked for before
    tail,           \* tailLogs
    tailErr,        \* what it returned
    pos,            \* lines of the stream it has read
    render,         \* handleLogs
    streamCancelled,\* startSingle's cancel was called
    success,        \* tokens in successCh
    transferred,    \* barTransferred: the highest progress drawn
    barFinished,    \* Finish was called on the bar
    barLine         \* the terminal: "none", "open" (a bar on an unterminated
                    \* line), "ended", or "extra" (a newline too many)

podVars == <<phase, gone, written>>
waiterVars == <<pc, verdict, barOpen, tailCancelled>>
followerVars == <<follower, delay, streamedOnce>>
tailVars == <<tail, tailErr, pos>>
barVars == <<transferred, barFinished, barLine>>
streamVars == <<tailVars, render, streamCancelled>>
vars == <<phase, gone, written, cancelled, showBar, pc, verdict, barOpen, tailCancelled,
          follower, delay, streamedOnce, tail, tailErr, pos, render, streamCancelled,
          success, transferred, barFinished, barLine>>

Terminal == phase \in {"succeeded", "failed"}

\* The follower's context is a child of the caller's, the stream's of both.
TailDone == cancelled \/ tailCancelled

StreamDone == TailDone \/ streamCancelled

\* A newline on the terminal.
Newline(line) == IF line = "open" THEN "ended" ELSE "extra"

\* Logger.Rendered
Rendered == transferred > 0 \/ barFinished

-----------------------------------------------------------------------------
(* The waiter *)

\* The waiter goes to p with verdict v to return in the end.
Goes(p, v) == pc' = p /\ verdict' = v

\* Mutant: a pod that is done counts as a job that is done.
VerdictOfAny == "nil"

\* finishTerminalPod, and the phase test on the pod that was waited for.
VerdictOf == IF phase = "succeeded" THEN "nil" ELSE "error"

\* resolveRunningJobPod up to WaitForJobStart: a list that fails, a pod that is
\* done, or a finished job whose pod is gone end the wait here.
ResolvePod ==
    /\ pc = "resolve"
    /\ \/ Goes("returned", "error")
       \/ ~cancelled /\ Terminal /\ Goes("returned", VerdictOf)
       \/ ~cancelled /\ (~Terminal \/ gone) /\ Goes("start", "none")
    /\ UNCHANGED <<podVars, cancelled, showBar, barOpen, tailCancelled, followerVars, streamVars,
                   success, barVars>>

\* WaitForJobStart, bounded by podWatchTimeout, then the end of
\* resolveRunningJobPod, or the start of the follower.
WaitForJobStart ==
    /\ pc = "start"
    /\ \/ /\ phase \in {"absent", "pending"} \/ gone \/ cancelled
          /\ Goes("returned", "error")
          /\ UNCHANGED follower
       \/ ~cancelled /\ ~gone /\ Terminal /\ Goes("returned", VerdictOf) /\ UNCHANGED follower
       \/ ~cancelled /\ ~gone /\ phase = "running" /\ Goes("watch", "none") /\ follower' = "loop"
    /\ UNCHANGED <<podVars, cancelled, showBar, barOpen, tailCancelled, delay, streamedOnce,
                   streamVars, success, barVars>>

\* waitForPodTermination.  The watch delivers the end of a pod even if it is
\* deleted after it; a pod deleted while Running never shows another phase.
WaitForPodTermination ==
    /\ pc = "watch"
    /\ \/ cancelled /\ Goes("stop", "error")
       \/ ~cancelled /\ Terminal /\ VerdictOf = "error" /\ Goes("stop", "error")
       \/ ~cancelled /\ Terminal /\ VerdictOf = "nil" /\ Goes("mark", "none")
    /\ UNCHANGED <<podVars, cancelled, showBar, barOpen, tailCancelled, followerVars, streamVars,
                   success, barVars>>

\* An API call of that wait fails.
WatchBreaks ==
    /\ pc = "watch"
    /\ Goes("stop", "error")
    /\ UNCHANGED <<podVars, cancelled, showBar, barOpen, tailCancelled, followerVars, streamVars,
                   success, barVars>>

\* Logger.MarkAsComplete: a select between the context and room in successCh.
MarkAsComplete ==
    /\ pc = "mark"
    /\ \/ /\ cancelled
          /\ Goes("stop", "error")
          /\ UNCHANGED <<success, barOpen>>
       \/ /\ success = 0
          /\ success' = 1
          /\ barOpen' = FALSE
          /\ Goes("stop", "nil")
    /\ UNCHANGED <<podVars, cancelled, showBar, tailCancelled, followerVars, streamVars, barVars>>

StopFollower ==
    /\ pc = "stop"
    /\ tailCancelled' = TRUE
    /\ pc' = "join"
    /\ UNCHANGED <<podVars, cancelled, showBar, verdict, barOpen, followerVars, streamVars,
                   success, barVars>>

\* Mutant: the follower is told to stop and not waited for.
JoinedAtOnce == TRUE

\* eg.Wait() returns.
Joined == follower = "exit"

\* The rest of stopFollower: a bar nobody will finish gets its newline.
JoinFollower ==
    /\ pc = "join"
    /\ Joined
    /\ pc' = "print"
    /\ barLine' = IF barOpen /\ Rendered THEN Newline(barLine) ELSE barLine
    /\ UNCHANGED <<podVars, cancelled, showBar, verdict, barOpen, tailCancelled, followerVars,
                   streamVars, success, transferred, barFinished>>

\* Mutant: the bar is left to the completion signal.
NeedsFinishNever == FALSE

\* Logger.FinishBar's condition.
NeedsFinish == showBar /\ ~barFinished /\ transferred > 0

\* What is left once the follower is gone: FinishBar and the vanished-files
\* warning on success, the log tail of the failed pod otherwise.
PrintAndReturn ==
    /\ pc = "print"
    /\ pc' = "returned"
    /\ IF verdict = "nil" /\ NeedsFinish
       THEN barFinished' = TRUE /\ barLine' = Newline(barLine)
       ELSE UNCHANGED <<barFinished, barLine>>
    /\ UNCHANGED <<podVars, cancelled, showBar, verdict, barOpen, tailCancelled, followerVars,
                   streamVars, success, transferred>>

Waiter == \/ ResolvePod \/ WaitForJobStart \/ WaitForPodTermination \/ MarkAsComplete
          \/ StopFollower \/ JoinFollower \/ PrintAndReturn

-----------------------------------------------------------------------------
(* The follower *)

\* The select at the top of Start's loop, and the one around its delay.
TopOfLoop ==
    /\ follower \in {"loop", "sleep"}
    /\ \/ TailDone /\ follower' = "exit" /\ UNCHANGED success
       \/ success = 1 /\ follower' = "exit" /\ success' = 0
       \/ /\ follower = "sleep" \/ (~TailDone /\ success = 0)
          /\ follower' = IF follower = "loop" THEN "open" ELSE "loop"
          /\ UNCHANGED success
    /\ UNCHANGED <<podVars, cancelled, showBar, waiterVars, delay, streamedOnce, streamVars, barVars>>

\* followLogOptions: the whole log first, only new lines later.
FollowFrom == IF streamedOnce THEN written ELSE 0

\* startSingle opens the stream and starts the two goroutines of it.
OpenStream ==
    /\ follower = "open"
    /\ ~TailDone
    /\ follower' = "run"
    /\ streamedOnce' = TRUE
    /\ pos' = FollowFrom
    /\ tail' = "scan"
    /\ tailErr' = "none"
    /\ render' = "loop"
    /\ streamCancelled' = FALSE
    /\ UNCHANGED <<podVars, cancelled, showBar, waiterVars, delay, success, barVars>>

\* Mutant: the delay keeps doubling.
DoubledForever(d) == 2 * d

\* The next retry delay.
Doubled(d) == IF 2 * d > MaxDelay THEN MaxDelay ELSE 2 * d

\* The stream could not be opened.
OpenFails ==
    /\ follower = "open"
    /\ streamedOnce' = TRUE
    /\ IF TailDone THEN follower' = "exit" /\ UNCHANGED delay
       ELSE follower' = "sleep" /\ delay' = Doubled(delay)
    /\ UNCHANGED <<podVars, cancelled, showBar, waiterVars, streamVars, success, barVars>>

\* startSingle returns tailLogs' error, and Start looks at it.
StreamEnds ==
    /\ follower = "run" /\ tail = "done" /\ render = "done"
    /\ IF tailErr = "canceled" THEN follower' = "exit" /\ UNCHANGED delay
       ELSE follower' = "sleep" /\ delay' = Doubled(delay)
    /\ UNCHANGED <<podVars, cancelled, showBar, waiterVars, streamedOnce, streamVars, success, barVars>>

\* An open that was cancelled returns; one that was not succeeds or fails.
Follower == TopOfLoop \/ OpenStream \/ (TailDone /\ OpenFails) \/ StreamEnds

-----------------------------------------------------------------------------
(* The tail *)

\* tailLogs returns, and its deferred cancel ends the stream's context.
TailReturns(e) ==
    /\ tail' = "done"
    /\ tailErr' = e
    /\ streamCancelled' = TRUE
    /\ UNCHANGED pos

\* One Scan: a line, the end of the log of a pod that is over, or the error
\* that reading a cancelled stream gives.
TailScans ==
    /\ tail = "scan"
    /\ \/ pos < written /\ tail' = "send" /\ pos' = pos + 1 /\ UNCHANGED <<tailErr, streamCancelled>>
       \/ pos = written /\ (Terminal \/ gone) /\ TailReturns(IF StreamDone THEN "canceled" ELSE "eof")
       \/ StreamDone /\ TailReturns("canceled")
    /\ UNCHANGED <<podVars, cancelled, showBar, waiterVars, followerVars, render, success, barVars>>

\* The stream ends or breaks before the pod does.
StreamBreaks ==
    /\ tail = "scan"
    /\ TailReturns(IF StreamDone THEN "canceled" ELSE "broken")
    /\ UNCHANGED <<podVars, cancelled, showBar, waiterVars, followerVars, render, success, barVars>>

\* Mutant: the hand-over does not watch the context.
SendAbandonedNever == FALSE

SendAbandoned == StreamDone

\* The context side of the select around the hand-over.
TailGivesUp ==
    /\ tail = "send"
    /\ SendAbandoned
    /\ TailReturns("canceled")
    /\ UNCHANGED <<podVars, cancelled, showBar, waiterVars, followerVars, render, success, barVars>>

-----------------------------------------------------------------------------
(* The renderer *)

\* The line passes from the tail to the renderer, which draws it unless the bar
\* is further already.
HandleLine ==
    /\ tail = "send" /\ render = "loop"
    /\ tail' = "scan"
    /\ IF showBar /\ pos >= transferred
       THEN transferred' = pos /\ barLine' = "open"
       ELSE UNCHANGED <<transferred, barLine>>
    /\ UNCHANGED <<podVars, cancelled, showBar, waiterVars, followerVars, tailErr, pos, render,
                   streamCancelled, success, barFinished>>

\* The other cases of handleLogs' select: the context, or the completion signal,
\* upon which the bar is finished.
RenderEnds ==
    /\ render = "loop"
    /\ \/ StreamDone /\ UNCHANGED <<success, barFinished, barLine>>
       \/ /\ success = 1
          /\ success' = 0
          /\ IF showBar /\ ~barFinished
             THEN barFinished' = TRUE /\ barLine' = IF transferred > 0 THEN Newline(barLine) ELSE "ended"
             ELSE UNCHANGED <<barFinished, barLine>>
    /\ render' = "done"
    /\ streamCancelled' = TRUE
    /\ UNCHANGED <<podVars, cancelled, showBar, waiterVars, followerVars, tailVars, transferred>>

-----------------------------------------------------------------------------
(* The environment *)

\* The job controller and the kubelet.
PodChanges ==
    /\ ~gone
    /\ \/ phase = "absent" /\ phase' = "pending"
       \/ phase = "pending" /\ phase' \in {"running", "failed"}
       \/ phase = "running" /\ phase' \in {"succeeded", "failed"}
    /\ UNCHANGED <<gone, written, cancelled, showBar, waiterVars, followerVars, streamVars,
                   success, barVars>>

PodPrints ==
    /\ phase = "running" /\ ~gone /\ written < MaxLines
    /\ written' = written + 1
    /\ UNCHANGED <<phase, gone, cancelled, showBar, waiterVars, followerVars, streamVars,
                   success, barVars>>

\* A TTL, a drain or a person deletes the pod.
PodDeleted ==
    /\ phase # "absent" /\ ~gone
    /\ gone' = TRUE
    /\ UNCHANGED <<phase, written, cancelled, showBar, waiterVars, followerVars, streamVars,
                   success, barVars>>

Interrupt ==
    /\ ~cancelled
    /\ cancelled' = TRUE
    /\ UNCHANGED <<podVars, showBar, waiterVars, followerVars, streamVars, success, barVars>>

-----------------------------------------------------------------------------
Init ==
    /\ phase = "absent"
    /\ gone = FALSE
    /\ written = 0
    /\ cancelled = FALSE
    /\ showBar \in BOOLEAN
    /\ pc = "resolve"
    /\ verdict = "none"
    /\ barOpen = showBar
    /\ tailCancelled = FALSE
    /\ follower = "off"
    /\ delay = InitialDelay
    /\ streamedOnce = FALSE
    /\ tail = "done" /\ tailErr = "none" /\ pos = 0
    /\ render = "done"
    /\ streamCancelled = FALSE
    /\ success = 0
    /\ transferred = 0
    /\ barFinished = FALSE
    /\ barLine = "none"

Tail == TailScans \/ TailGivesUp

Renderer == HandleLine \/ RenderEnds

Environment == \/ WatchBreaks \/ OpenFails \/ StreamBreaks
               \/ PodChanges \/ PodPrints \/ PodDeleted \/ Interrupt

Next == Waiter \/ Follower \/ Tail \/ Renderer \/ Environment

Spec == Init /\ [][Next]_vars

\* Every goroutine is scheduled.  Nothing is assumed of the pod or the network.
FairSpec == /\ Spec
            /\ WF_vars(Waiter) /\ WF_vars(Follower) /\ WF_vars(Tail) /\ WF_vars(Renderer)

-----------------------------------------------------------------------------
(* Properties *)

\* The types of the wait's state; the retry delay stays between its first value
\* and its ceiling, and the completion channel holds one token at most.
TypeOK ==
    /\ phase \in {"absent", "pending", "running", "succeeded", "failed"}
    /\ gone \in BOOLEAN
    /\ written \in 0..MaxLines
    /\ cancelled \in BOOLEAN
    /\ showBar \in BOOLEAN
    /\ pc \in {"resolve", "start", "watch", "mark", "stop", "join", "print", "returned"}
    /\ verdict \in {"none", "nil", "error"}
    /\ barOpen \in BOOLEAN
    /\ tailCancelled \in BOOLEAN
    /\ follower \in {"off", "loop", "open", "run", "sleep", "exit"}
    /\ delay \in InitialDelay..MaxDelay
    /\ streamedOnce \in BOOLEAN
    /\ tail \in {"scan", "send", "done"}
    /\ tailErr \in {"none", "eof", "broken", "canceled"}
    /\ pos \in 0..MaxLines
    /\ render \in {"loop", "done"}
    /\ streamCancelled \in BOOLEAN
    /\ success \in {0, 1}
    /\ transferred \in 0..MaxLines
    /\ barFinished \in BOOLEAN
    /\ barLine \in {"none", "open", "ended", "extra"}

\* Whoever prints after the follower has the terminal to itself: no goroutine of
\* the follower is left that could draw, then or ever after.
FollowerGone ==
    pc \in {"print", "returned"} =>
        follower \in {"off", "exit"} /\ tail = "done" /\ render = "done"

\* A bar that was drawn has its line terminated once, by whoever it was that got
\* the completion signal, and nothing is drawn after.
BarTerminatedOnce ==
    /\ barLine # "extra"
    /\ pc = "returned" \/ (pc = "print" /\ verdict = "error") => barLine # "open"

\* The wait keeps the contract its callers rely on.  The verdict counts once
\* it is returned.
Contract == INSTANCE JobVerdict WITH
                verdict <- IF pc = "returned" THEN verdict ELSE "none"

\* WaitForJobCompletion returns one verdict, the right one, and returns it when due.
KeepsContract == Contract!Spec

=============================================================================
