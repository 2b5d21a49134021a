---------------------------- MODULE LocalTunnel -----------------------------
(***************************************************************************)
(* The session of the local strategy (internal/strategy/local.go).  Two    *)
(* port-forwards and the mover goroutine form one errgroup; inside it the  *)
(* mover goroutine opens an SSH connection through the source's forward, a *)
(* reverse tunnel over that, and runs the data mover in the source pod     *)
(* with a second errgroup around it:                                       *)
(*                                                                         *)
(*   the watcher     closes the session when the context is cancelled;     *)
(*   the forwarder   accepts tunnel connections and proxies them;          *)
(*   the logger      reads the mover's output from a pipe (progresslog);   *)
(*   the runner      runs the command, signals completion, tears down.     *)
(*                                                                         *)
(* The SSH library's copier moves the command's output into the pipe.  A   *)
(* pipe has no buffer: a write waits for a reader, or for its end to be    *)
(* closed, and a read does not look at any context.                        *)
(***************************************************************************)
EXTENDS Integers

CONSTANTS
    MaxLines,   \* lines the mover prints (a bound)
    MaxConns    \* tunnel connections open at once (a bound)

ASSUME BoundsAssumption == MaxLines \in Nat \ {0} /\ MaxConns \in Nat \ {0}

Sides == {"source", "dest"}

VARIABLES
    cancelled,       \* the caller's context
    fwd,             \* the two PortForward goroutines
    ports,           \* the sides whose local port was sent
    groupErr,        \* the outer group has an error
    mover,           \* the mover goroutine
    result,          \* what runLocalMigration returned, "none" yet
    conn,            \* the SSH connection
    listener,        \* the reverse tunnel's listener is open
    proxies,         \* tunnel connections being proxied
    sessionOpen,     \* the SSH session
    remote,          \* the command in the source pod, and how it ended
    printed,         \* lines it has printed
    innerErr,        \* the inner group has an error
    watcher, forwarder, runner,
    copier,          \* the library's copy of the output into the pipe
    logger,          \* Logger.Start
    tailErr,         \* what tailLogs of the current stream returned
    render,          \* handleLogs of the current stream is running
    streamCancelled, \* the current stream's own context
    readerClosed, writerClosed,  \* the two ends of the pipe
    success          \* tokens in successCh

fwdVars == <<fwd, ports, groupErr>>
sshVars == <<conn, listener, proxies, sessionOpen>>
remoteVars == <<remote, printed>>
pipeVars == <<readerClosed, writerClosed>>
loggerVars == <<logger, tailErr, render, streamCancelled>>
vars == <<cancelled, fwd, ports, groupErr, mover, result, conn, listener, proxies, sessionOpen,
          remote, printed, innerErr, watcher, forwarder, runner, copier, logger, tailErr,
          render, streamCancelled, readerClosed, writerClosed, success>>

\* The contexts: the outer group's, the port-forwards', the inner group's and
\* that of one log stream.
OuterDone == cancelled \/ groupErr

\* Mutant: nobody cancels the port-forwards when the mover is done.
FwdDoneOnError == OuterDone

\* Mutant: the port-forwards have a context of their own.
FwdDoneOnReturn == mover = "returned"

FwdDone == OuterDone \/ mover = "returned"

InnerDone == OuterDone \/ innerErr

StreamDone == InnerDone \/ streamCancelled

\* The command's output and exit status no longer reach this side.
Severed == ~sessionOpen \/ conn # "up"

-----------------------------------------------------------------------------
(* The port-forwards *)

\* The forwarder has bound its port, and the notifier passes it on.
ForwardReady(s) ==
    /\ fwd[s] = "starting" /\ ~FwdDone
    /\ fwd' = [fwd EXCEPT ![s] = "ready"]
    /\ ports' = ports \union {s}
    /\ UNCHANGED <<cancelled, groupErr, mover, result, sshVars, remoteVars, innerErr, watcher,
                   forwarder, runner, copier, loggerVars, pipeVars, success>>

\* It cannot be set up, or the connection to the pod is lost.
ForwardFails(s) ==
    /\ fwd[s] # "ended"
    /\ fwd' = [fwd EXCEPT ![s] = "ended"]
    /\ groupErr' = TRUE
    /\ UNCHANGED <<cancelled, ports, mover, result, sshVars, remoteVars, innerErr, watcher,
                   forwarder, runner, copier, loggerVars, pipeVars, success>>

\* It is told to stop.
ForwardStops(s) ==
    /\ fwd[s] # "ended" /\ FwdDone
    /\ fwd' = [fwd EXCEPT ![s] = "ended"]
    /\ UNCHANGED <<cancelled, ports, groupErr, mover, result, sshVars, remoteVars, innerErr, watcher,
                   forwarder, runner, copier, loggerVars, pipeVars, success>>

-----------------------------------------------------------------------------
(* The mover goroutine, outside the inner group *)

\* waitAndRunMover returns an error, after the deferred closes.
MoverFails ==
    /\ mover' = "returned"
    /\ groupErr' = TRUE
    /\ conn' = IF conn = "up" THEN "down" ELSE conn
    /\ listener' = FALSE
    /\ sessionOpen' = FALSE

\* waitAndRunMover: both ports, within portForwardTimeout.
WaitForPorts ==
    /\ mover = "ports"
    /\ \/ /\ ports = Sides
          /\ mover' = "dial"
          /\ UNCHANGED <<groupErr, conn, listener, sessionOpen>>
       \/ MoverFails
    /\ UNCHANGED <<cancelled, fwd, ports, result, proxies, remoteVars, innerErr, watcher, forwarder,
                   runner, copier, loggerVars, pipeVars, success>>

\* gossh.Dial has no timeout and no context.
Dial ==
    /\ mover = "dial" /\ fwd["source"] = "ready"
    /\ mover' = "listen"
    /\ conn' = "up"
    /\ UNCHANGED <<cancelled, fwdVars, result, listener, proxies, sessionOpen, remoteVars, innerErr,
                   watcher, forwarder, runner, copier, loggerVars, pipeVars, success>>

\* The reverse tunnel, the command line and the session; the inner group starts.
StartMoverSession ==
    /\ mover = "listen" /\ conn = "up"
    /\ mover' = "group"
    /\ listener' = TRUE
    /\ sessionOpen' = TRUE
    /\ watcher' = "wait" /\ forwarder' = "accept" /\ logger' = "top" /\ runner' = "exec"
    /\ UNCHANGED <<cancelled, fwdVars, result, conn, proxies, remoteVars, innerErr, copier, tailErr,
                   render, streamCancelled, pipeVars, success>>

\* Any of these fails.
SetUpFails ==
    /\ mover \in {"dial", "listen"}
    /\ MoverFails
    /\ UNCHANGED <<cancelled, fwd, ports, result, proxies, remoteVars, innerErr, watcher, forwarder,
                   runner, copier, loggerVars, pipeVars, success>>

\* Mutant: the group is not joined, only the runner.
GroupJoinedByRunner == runner = "done"

\* The inner eg.Wait() returns.
GroupJoined ==
    watcher = "done" /\ forwarder \in {"done", "broke"} /\ logger = "exit" /\ runner = "done"

\* finishMoverSession, and the deferred closes of runMoverOverSSH.
FinishMoverSession ==
    /\ mover = "group" /\ GroupJoined
    /\ IF innerErr THEN MoverFails
       ELSE /\ mover' = "returned"
            /\ conn' = "down" /\ listener' = FALSE /\ sessionOpen' = FALSE
            /\ UNCHANGED groupErr
    /\ UNCHANGED <<cancelled, fwd, ports, result, proxies, remoteVars, innerErr, watcher, forwarder,
                   runner, copier, loggerVars, pipeVars, success>>

\* The outer eg.Wait() returns the group's first error.
Join ==
    /\ result = "none" /\ mover = "returned" /\ \A s \in Sides : fwd[s] = "ended"
    /\ result' = IF groupErr THEN "error" ELSE "nil"
    /\ UNCHANGED <<cancelled, fwdVars, mover, sshVars, remoteVars, innerErr, watcher, forwarder,
                   runner, copier, loggerVars, pipeVars, success>>

-----------------------------------------------------------------------------
(* The watcher and the forwarder *)

Watch ==
    /\ watcher = "wait"
    /\ \/ InnerDone /\ sessionOpen' = FALSE
       \/ runner = "done" /\ UNCHANGED sessionOpen
    /\ watcher' = "done"
    /\ UNCHANGED <<cancelled, fwdVars, mover, result, conn, listener, proxies, remoteVars, innerErr,
                   forwarder, runner, copier, loggerVars, pipeVars, success>>

\* The mover connects through the tunnel.
AcceptConn ==
    /\ forwarder = "accept" /\ listener /\ conn = "up" /\ remote = "running"
    /\ proxies < MaxConns
    /\ proxies' = proxies + 1
    /\ UNCHANGED <<cancelled, fwdVars, mover, result, conn, listener, sessionOpen, remoteVars,
                   innerErr, watcher, forwarder, runner, copier, loggerVars, pipeVars, success>>

\* Accept says the listener is closed, or fails otherwise on a broken
\* connection, which ends the loop without waiting for the proxies.
AcceptEnds ==
    /\ forwarder = "accept"
    /\ \/ /\ ~listener \/ conn # "up"
          /\ forwarder' = "drain"
          /\ UNCHANGED innerErr
       \/ /\ conn # "up"
          /\ forwarder' = "broke"
          /\ innerErr' = TRUE
    /\ UNCHANGED <<cancelled, fwdVars, mover, result, sshVars, remoteVars, watcher, runner, copier,
                   loggerVars, pipeVars, success>>

\* Mutant: the loop returns without waiting.
DrainedAtOnce == TRUE

Drained == proxies = 0

Drain ==
    /\ forwarder = "drain" /\ Drained
    /\ forwarder' = "done"
    /\ UNCHANGED <<cancelled, fwdVars, mover, result, sshVars, remoteVars, innerErr, watcher, runner,
                   copier, loggerVars, pipeVars, success>>

\* Mutant: each of the two copies counts the connection as over.
ProxiesLeftTwice == proxies - 2

ProxiesLeft == proxies - 1

\* proxyConn is over: the dial failed, or one end closed and the copies followed.
ProxyEnds ==
    /\ proxies > 0
    /\ proxies' = ProxiesLeft
    /\ UNCHANGED <<cancelled, fwdVars, mover, result, conn, listener, sessionOpen, remoteVars,
                   innerErr, watcher, forwarder, runner, copier, loggerVars, pipeVars, success>>

\* When a connection must end: either end is gone, or its user is.
ProxyCut == conn # "up" \/ fwd["dest"] = "ended" \/ remote # "running"

-----------------------------------------------------------------------------
(* The runner and the copier *)

\* session.Run: the exec request is answered.
Exec ==
    /\ runner = "exec" /\ ~Severed
    /\ runner' = "run"
    /\ remote' = "running"
    /\ copier' = "idle"
    /\ UNCHANGED <<cancelled, fwdVars, mover, result, sshVars, printed, innerErr, watcher, forwarder,
                   loggerVars, pipeVars, success>>

\* The exec request fails.
ExecFails ==
    /\ runner = "exec" /\ Severed
    /\ runner' = "close"
    /\ innerErr' = TRUE
    /\ UNCHANGED <<cancelled, fwdVars, mover, result, sshVars, remoteVars, watcher, forwarder,
                   copier, loggerVars, pipeVars, success>>

\* Mutant: any exit status counts as a success with caveats.
ToleratedAny == TRUE

\* isToleratedExit, or no error at all.
Tolerated == remote \in {"ok", "tolerated"}

\* session.Run returns once the command ended or was cut off, and the copier is
\* done: its exit status, or an error for a lost session or a failed copy.
RunReturns ==
    /\ runner = "run" /\ copier \in {"done", "failed"}
    /\ \/ /\ remote \in {"ok", "tolerated", "bad"} /\ Tolerated /\ copier = "done"
          /\ runner' = "mark"
          /\ UNCHANGED innerErr
       \/ /\ \/ remote \in {"ok", "tolerated", "bad"} /\ (~Tolerated \/ copier = "failed")
             \/ Severed
          /\ runner' = "close"
          /\ innerErr' = TRUE
    /\ UNCHANGED <<cancelled, fwdVars, mover, result, sshVars, remoteVars, watcher, forwarder,
                   copier, loggerVars, pipeVars, success>>

\* Logger.MarkAsComplete
MarkAsComplete ==
    /\ runner = "mark"
    /\ runner' = "close"
    /\ \/ InnerDone /\ innerErr' = TRUE /\ UNCHANGED success
       \/ success = 0 /\ success' = 1 /\ UNCHANGED innerErr
    /\ UNCHANGED <<cancelled, fwdVars, mover, result, sshVars, remoteVars, watcher, forwarder,
                   copier, loggerVars, pipeVars>>

\* The runner's deferred closes: the listener, the pipe, moverDone.  The listener
\* accepts no more at once, but its Close asks the SSH server to cancel the forward
\* and waits for the answer.
TearDown ==
    /\ \/ runner = "close" /\ runner' = "cancelForward" /\ listener' = FALSE /\ UNCHANGED writerClosed
       \/ runner = "cancelForward" /\ runner' = "closePipe" /\ UNCHANGED <<listener, writerClosed>>
       \/ runner = "closePipe" /\ runner' = "done" /\ writerClosed' = TRUE /\ UNCHANGED listener
    /\ UNCHANGED <<cancelled, fwdVars, mover, result, conn, proxies, sessionOpen, remoteVars,
                   innerErr, watcher, forwarder, copier, loggerVars, readerClosed, success>>

\* The end of the output, or a write to a pipe whose reader is closed.
CopierEnds ==
    /\ \/ copier = "idle" /\ (remote # "running" \/ Severed) /\ copier' = "done"
       \/ copier = "writing" /\ readerClosed /\ copier' = "failed"
    /\ UNCHANGED <<cancelled, fwdVars, mover, result, sshVars, remoteVars, innerErr, watcher,
                   forwarder, runner, loggerVars, pipeVars, success>>

-----------------------------------------------------------------------------
(* The logger *)

\* The two selects of Logger.Start, and startSingle on the one pipe there is.
TopOfLoop ==
    /\ logger \in {"top", "sleep"}
    /\ \/ /\ InnerDone
          /\ logger' = "exit"
          /\ UNCHANGED <<success, tailErr, render, streamCancelled>>
       \/ /\ success = 1
          /\ success' = 0
          /\ logger' = "exit"
          /\ UNCHANGED <<tailErr, render, streamCancelled>>
       \/ /\ logger = "sleep"
          /\ logger' = "top"
          /\ UNCHANGED <<success, tailErr, render, streamCancelled>>
       \/ /\ logger = "top" /\ ~InnerDone /\ success = 0
          /\ logger' = "read"
          /\ tailErr' = "none" /\ render' = TRUE /\ streamCancelled' = FALSE
          /\ UNCHANGED success
    /\ UNCHANGED <<cancelled, fwdVars, mover, result, sshVars, remoteVars, innerErr, watcher,
                   forwarder, runner, copier, pipeVars>>

\* tailLogs reads what the copier writes, and hands it over or gives up.
ReadLine ==
    /\ logger = "read" /\ tailErr = "none" /\ ~readerClosed /\ copier = "writing"
    /\ copier' = "idle"
    /\ \/ render /\ UNCHANGED <<tailErr, streamCancelled>>
       \/ StreamDone /\ tailErr' = "canceled" /\ streamCancelled' = TRUE
    /\ UNCHANGED <<cancelled, fwdVars, mover, result, sshVars, remoteVars, innerErr, watcher,
                   forwarder, runner, logger, render, pipeVars, success>>

\* tailLogs finds the pipe closed: by the reader on a retry, by the writer, which
\* is the end of the input.
TailEnds ==
    /\ logger = "read" /\ tailErr = "none"
    /\ readerClosed \/ writerClosed
    /\ tailErr' = IF readerClosed THEN "closed" ELSE IF StreamDone THEN "canceled" ELSE "eof"
    /\ streamCancelled' = TRUE
    /\ UNCHANGED <<cancelled, fwdVars, mover, result, sshVars, remoteVars, innerErr, watcher,
                   forwarder, runner, copier, logger, render, pipeVars, success>>

\* handleLogs returns, on the context or on the completion signal.
RenderEnds ==
    /\ logger = "read" /\ render
    /\ \/ StreamDone /\ UNCHANGED success
       \/ success = 1 /\ success' = 0
    /\ render' = FALSE
    /\ streamCancelled' = TRUE
    /\ UNCHANGED <<cancelled, fwdVars, mover, result, sshVars, remoteVars, innerErr, watcher,
                   forwarder, runner, copier, logger, tailErr, pipeVars>>

\* startSingle closes the reader and returns tailLogs' error to Start.
StreamEnds ==
    /\ logger = "read" /\ tailErr # "none" /\ ~render
    /\ readerClosed' = TRUE
    /\ logger' = IF tailErr = "canceled" THEN "exit" ELSE "sleep"
    /\ UNCHANGED <<cancelled, fwdVars, mover, result, sshVars, remoteVars, innerErr, watcher,
                   forwarder, runner, copier, tailErr, render, streamCancelled, writerClosed, success>>

-----------------------------------------------------------------------------
(* The environment *)

\* The command prints a line, which the copier takes to the pipe.
RemotePrints ==
    /\ remote = "running" /\ ~Severed /\ copier = "idle" /\ printed < MaxLines
    /\ printed' = printed + 1
    /\ copier' = "writing"
    /\ UNCHANGED <<cancelled, fwdVars, mover, result, sshVars, remote, innerErr, watcher,
                   forwarder, runner, loggerVars, pipeVars, success>>

\* It ends, well only while it could reach the destination.
RemoteExits ==
    /\ remote = "running"
    /\ \/ remote' \in {"ok", "tolerated"} /\ conn = "up" /\ fwd["dest"] = "ready"
       \/ remote' = "bad"
    /\ UNCHANGED <<cancelled, fwdVars, mover, result, sshVars, printed, innerErr, watcher,
                   forwarder, runner, copier, loggerVars, pipeVars, success>>

\* The connection breaks, as it must once the forward under it has ended.
ConnBreaks ==
    /\ conn = "up"
    /\ conn' = "down"
    /\ UNCHANGED <<cancelled, fwdVars, mover, result, listener, proxies, sessionOpen, remoteVars,
                   innerErr, watcher, forwarder, runner, copier, loggerVars, pipeVars, success>>

Interrupt ==
    /\ ~cancelled /\ result = "none"
    /\ cancelled' = TRUE
    /\ UNCHANGED <<fwdVars, mover, result, sshVars, remoteVars, innerErr, watcher, forwarder,
                   runner, copier, loggerVars, pipeVars, success>>

-----------------------------------------------------------------------------
Init ==
    /\ cancelled = FALSE
    /\ fwd = [s \in Sides |-> "starting"]
    /\ ports = {}
    /\ groupErr = FALSE
    /\ mover = "ports"
    /\ result = "none"
    /\ conn = "none" /\ listener = FALSE /\ proxies = 0 /\ sessionOpen = FALSE
    /\ remote = "idle" /\ printed = 0
    /\ innerErr = FALSE
    /\ watcher = "off" /\ forwarder = "off" /\ runner = "off"
    /\ copier = "off"
    /\ logger = "off" /\ tailErr = "none" /\ render = FALSE /\ streamCancelled = FALSE
    /\ readerClosed = FALSE /\ writerClosed = FALSE
    /\ success = 0

Forwards == \E s \in Sides : ForwardStops(s)

Mover == WaitForPorts \/ FinishMoverSession \/ Join

\* A connection that lost its other end fails what is waiting for it.
SetUpCut == (fwd["source"] = "ended" \/ conn = "down") /\ SetUpFails

ConnCut == fwd["source"] = "ended" /\ ConnBreaks

Forwarder == AcceptEnds \/ Drain \/ (ProxyCut /\ ProxyEnds)

\* The answer to the Close is certain only from a connection that is lost.
TearDownCut == (runner = "cancelForward" => conn = "down") /\ TearDown

Runner == ExecFails \/ RunReturns \/ MarkAsComplete \/ TearDownCut

Tail == TopOfLoop \/ ReadLine \/ TailEnds \/ StreamEnds

Environment ==
    \/ \E s \in Sides : ForwardReady(s) \/ ForwardFails(s)
    \/ Dial \/ StartMoverSession \/ SetUpFails
    \/ AcceptConn \/ ProxyEnds \/ Exec \/ TearDown
    \/ RemotePrints \/ RemoteExits \/ ConnBreaks \/ Interrupt

Next == \/ Forwards \/ Mover \/ Watch \/ Forwarder \/ Runner \/ CopierEnds
        \/ Tail \/ RenderEnds \/ Environment

Spec == Init /\ [][Next]_vars

\* Every goroutine is scheduled, and a broken connection is noticed.  Nothing is
\* assumed of an answer from the network, of the command or of the forwards.
FairSpec ==
    /\ Spec
    /\ WF_vars(Forwards) /\ WF_vars(Mover) /\ WF_vars(SetUpCut) /\ WF_vars(ConnCut)
    /\ WF_vars(Watch) /\ WF_vars(Forwarder) /\ WF_vars(Runner)
    /\ WF_vars(CopierEnds) /\ WF_vars(Tail) /\ WF_vars(RenderEnds)

-----------------------------------------------------------------------------
(* Properties *)

\* The types of the session's state; a connection is counted as over only once.
TypeOK ==
    /\ cancelled \in BOOLEAN
    /\ fwd \in [Sides -> {"starting", "ready", "ended"}]
    /\ ports \subseteq Sides
    /\ groupErr \in BOOLEAN
    /\ mover \in {"ports", "dial", "listen", "group", "returned"}
    /\ result \in {"none", "nil", "error"}
    /\ conn \in {"none", "up", "down"}
    /\ listener \in BOOLEAN
    /\ proxies \in 0..MaxConns
    /\ sessionOpen \in BOOLEAN
    /\ remote \in {"idle", "running", "ok", "tolerated", "bad"}
    /\ printed \in 0..MaxLines
    /\ innerErr \in BOOLEAN
    /\ watcher \in {"off", "wait", "done"}
    /\ forwarder \in {"off", "accept", "drain", "done", "broke"}
    /\ runner \in {"off", "exec", "run", "mark", "close", "cancelForward", "closePipe", "done"}
    /\ copier \in {"off", "idle", "writing", "done", "failed"}
    /\ logger \in {"off", "top", "read", "sleep", "exit"}
    /\ tailErr \in {"none", "eof", "closed", "canceled"}
    /\ render \in BOOLEAN
    /\ streamCancelled \in BOOLEAN
    /\ readerClosed \in BOOLEAN
    /\ writerClosed \in BOOLEAN
    /\ success \in {0, 1}

\* Success is returned only for a mover that ended with a status its policy calls
\* a success, whatever broke around it.
SuccessMeansMoved == result = "nil" => remote \in {"ok", "tolerated"}

\* Once the mover goroutine has returned, nothing of its session is left: the
\* connection and its tunnel are closed, the output is drained or given up, and
\* no proxy outlives a listener that was closed in the ordinary way.
NothingLeftRunning ==
    mover = "returned" =>
        /\ conn # "up" /\ ~listener
        /\ copier \in {"off", "done", "failed"}
        /\ forwarder # "broke" => proxies = 0

\* The copier is stuck in a write: the logger stopped on a cancelled context
\* before it ever opened the pipe, so that nobody reads it or closes it.
OutputStranded == copier = "writing" /\ logger = "exit" /\ ~readerClosed

\* The completion signal was taken by the renderer of a stream that ended, and
\* the logger goes on retrying the closed pipe.
SignalLost == runner = "done" /\ ~innerErr /\ success = 0 /\ logger # "exit"

\* An interrupt ends the session, through the watcher and the port-forwards,
\* unless the output is stranded.
InterruptEndsSession == cancelled ~> (result # "none" \/ OutputStranded)

\* The session waits for nothing forever but an answer of the SSH server, the
\* command itself, and the two cases above.
OnlyMoverBlocks ==
    []<>(\/ result # "none" \/ OutputStranded \/ SignalLost
         \/ mover \in {"dial", "listen"} \/ runner \in {"exec", "cancelForward"}
         \/ remote = "running")

\* The session keeps the contract of a wait for a job, with the command in the
\* place of the pod: asked for once the session is open, then running, then ended.
CommandPhase ==
    CASE remote = "idle" /\ runner = "off" -> "absent"
      [] remote = "idle" /\ runner # "off" -> "pending"
      [] remote = "running" -> "running"
      [] remote \in {"ok", "tolerated"} -> "succeeded"
      [] remote = "bad" -> "failed"

Contract == INSTANCE JobVerdict WITH phase <- CommandPhase, verdict <- result

\* runLocalMigration's comment: its eg.Wait() never blocks indefinitely.  So a
\* transfer that succeeded and was torn down, with nothing cancelled or failed
\* after it, returns.
WaitNeverBlocks == (remote = "ok" /\ runner = "done") ~> (result # "none" \/ InnerDone)

=============================================================================
