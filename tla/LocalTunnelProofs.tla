-------------------------- MODULE LocalTunnelProofs --------------------------
(* The session of the local strategy, for a mover that prints any number of   *)
(* lines over any number of tunnel connections: what success means, and what  *)
(* is left when the mover goroutine has returned.                             *)
EXTENDS LocalTunnel, TLAPS

-----------------------------------------------------------------------------
(* The inductive invariant *)

\* Before the session there is no goroutine of the inner group, and once the
\* mover goroutine has returned, what was opened is closed and the group has been
\* joined.
SessionBounds ==
    /\ mover \in {"ports", "dial", "listen"} =>
           /\ ~listener
           /\ watcher = "off" /\ forwarder = "off" /\ logger = "off" /\ runner = "off"
    /\ mover = "returned" =>
           /\ conn # "up" /\ ~listener
           /\ watcher \in {"off", "done"} /\ forwarder \in {"off", "done", "broke"}
           /\ logger \in {"off", "exit"} /\ runner \in {"off", "done"}

\* The command and the library's copier live inside session.Run, and the proxies
\* inside the forwarder unless its accept loop broke.
InsideRun ==
    /\ runner \in {"off", "exec"} => copier = "off" /\ remote = "idle"
    /\ runner \in {"mark", "close", "cancelForward", "closePipe", "done"} => copier \in {"off", "done", "failed"}
    /\ forwarder \in {"off", "done"} => proxies = 0

\* The mover's status on its way out, through the runner, the inner group, the
\* outer group and the result: whoever lost it has raised an error.
StatusCarried ==
    /\ runner = "mark" => Tolerated
    /\ runner \in {"close", "cancelForward", "closePipe", "done"} => innerErr \/ Tolerated
    /\ mover = "returned" => groupErr \/ Tolerated
    /\ result # "none" => mover = "returned"
    /\ result = "nil" => Tolerated

\* The completion signal is only given past session.Run, and a logger that exits
\* without having closed its reader saw the signal or a cancelled context.
ReaderLeft ==
    /\ success = 1 => runner \in {"close", "cancelForward", "closePipe", "done"}
    /\ logger = "exit" => readerClosed \/ InnerDone \/ runner \in {"close", "cancelForward", "closePipe", "done"}

IInv == TypeOK /\ SessionBounds /\ InsideRun /\ StatusCarried /\ ReaderLeft

-----------------------------------------------------------------------------
(* The steps *)

LEMMA Initially == Init => IInv
<1> SUFFICES ASSUME Init PROVE IInv
  OBVIOUS
<1>0. 0 \in 0..MaxConns /\ 0 \in 0..MaxLines
  BY BoundsAssumption
<1>1. TypeOK
  BY <1>0 DEF Init, TypeOK
<1>2. SessionBounds /\ InsideRun /\ StatusCarried /\ ReaderLeft
  BY DEF Init, SessionBounds, InsideRun, StatusCarried, ReaderLeft
<1> QED BY <1>1, <1>2 DEF IInv

\* The port-forwards.
LEMMA ForwardStep ==
    ASSUME IInv, NEW s \in Sides, ForwardReady(s) \/ ForwardFails(s) \/ ForwardStops(s)
    PROVE  IInv'
<1> USE DEF IInv, fwdVars, sshVars, remoteVars, loggerVars, pipeVars
<1>1. CASE ForwardReady(s)
  <2> USE <1>1 DEF ForwardReady
  <2>1. TypeOK'
    <3>1. fwd' \in [Sides -> {"starting", "ready", "ended"}]
      BY DEF TypeOK
    <3>2. ports' \subseteq Sides
      BY DEF TypeOK
    <3> QED BY <3>1, <3>2 DEF TypeOK
  <2>2. SessionBounds' /\ InsideRun'
    BY DEF SessionBounds, InsideRun, TypeOK
  <2>3. StatusCarried'
    BY DEF StatusCarried, SessionBounds, InsideRun, TypeOK, Tolerated
  <2>4. ReaderLeft'
    BY DEF ReaderLeft, SessionBounds, TypeOK, InnerDone, OuterDone
  <2> QED BY <2>1, <2>2, <2>3, <2>4
<1>2. CASE ForwardFails(s)
  <2> USE <1>2 DEF ForwardFails
  <2>1. TypeOK'
    <3>1. fwd' \in [Sides -> {"starting", "ready", "ended"}]
      BY DEF TypeOK
    <3>2. groupErr' \in BOOLEAN
      OBVIOUS
    <3> QED BY <3>1, <3>2 DEF TypeOK
  <2>2. SessionBounds' /\ InsideRun'
    BY DEF SessionBounds, InsideRun, TypeOK
  <2>3. StatusCarried'
    BY DEF StatusCarried, SessionBounds, InsideRun, TypeOK, Tolerated
  <2>4. ReaderLeft'
    BY DEF ReaderLeft, SessionBounds, TypeOK, InnerDone, OuterDone
  <2> QED BY <2>1, <2>2, <2>3, <2>4
<1>3. CASE ForwardStops(s)
  <2> USE <1>3 DEF ForwardStops
  <2>1. TypeOK'
    <3>1. fwd' \in [Sides -> {"starting", "ready", "ended"}]
      BY DEF TypeOK
    <3> QED BY <3>1 DEF TypeOK
  <2>2. SessionBounds' /\ InsideRun'
    BY DEF SessionBounds, InsideRun, TypeOK
  <2>3. StatusCarried'
    BY DEF StatusCarried, SessionBounds, InsideRun, TypeOK, Tolerated
  <2>4. ReaderLeft'
    BY DEF ReaderLeft, SessionBounds, TypeOK, InnerDone, OuterDone
  <2> QED BY <2>1, <2>2, <2>3, <2>4
<1> QED BY <1>1, <1>2, <1>3

\* The mover goroutine: whichever way it returns, with an error or with a group that
\* ended well.
LEMMA MoverStep ==
    ASSUME IInv, WaitForPorts \/ Dial \/ StartMoverSession \/ SetUpFails \/ FinishMoverSession \/ Join
    PROVE  IInv'
<1> USE DEF IInv, fwdVars, sshVars, remoteVars, loggerVars, pipeVars
<1>1. CASE WaitForPorts
  <2> USE <1>1 DEF WaitForPorts, MoverFails
  <2>1. TypeOK'
    <3>1. groupErr' \in BOOLEAN
      BY DEF TypeOK
    <3>2. listener' \in BOOLEAN
      BY DEF TypeOK
    <3>3. sessionOpen' \in BOOLEAN
      BY DEF TypeOK
    <3>4. conn' \in {"none", "up", "down"}
      BY DEF TypeOK
    <3>5. mover' \in {"ports", "dial", "listen", "group", "returned"}
      BY DEF TypeOK
    <3> QED BY <3>1, <3>2, <3>3, <3>4, <3>5 DEF TypeOK
  <2>2. SessionBounds' /\ InsideRun'
    BY DEF SessionBounds, InsideRun, TypeOK
  <2>3. StatusCarried'
    BY DEF StatusCarried, SessionBounds, InsideRun, TypeOK, Tolerated
  <2>4. ReaderLeft'
    BY DEF ReaderLeft, SessionBounds, TypeOK, InnerDone, OuterDone
  <2> QED BY <2>1, <2>2, <2>3, <2>4
<1>2. CASE Dial
  <2> USE <1>2 DEF Dial
  <2>1. TypeOK'
    BY DEF TypeOK
  <2>2. SessionBounds' /\ InsideRun'
    BY DEF SessionBounds, InsideRun, TypeOK
  <2>3. StatusCarried'
    BY DEF StatusCarried, SessionBounds, InsideRun, TypeOK, Tolerated
  <2>4. ReaderLeft'
    BY DEF ReaderLeft, SessionBounds, TypeOK, InnerDone, OuterDone
  <2> QED BY <2>1, <2>2, <2>3, <2>4
<1>3. CASE StartMoverSession
  <2> USE <1>3 DEF StartMoverSession
  <2>1. TypeOK'
    <3>1. listener' \in BOOLEAN
      OBVIOUS
    <3>2. sessionOpen' \in BOOLEAN
      OBVIOUS
    <3> QED BY <3>1, <3>2 DEF TypeOK
  <2>2. SessionBounds' /\ InsideRun'
    BY DEF SessionBounds, InsideRun, TypeOK
  <2>3. StatusCarried'
    BY DEF StatusCarried, SessionBounds, InsideRun, TypeOK, Tolerated
  <2>4. ReaderLeft'
    BY DEF ReaderLeft, SessionBounds, TypeOK, InnerDone, OuterDone
  <2> QED BY <2>1, <2>2, <2>3, <2>4
<1>4. CASE SetUpFails
  <2> USE <1>4 DEF SetUpFails, MoverFails
  <2>1. TypeOK'
    <3>1. groupErr' \in BOOLEAN
      BY DEF TypeOK
    <3>2. listener' \in BOOLEAN
      BY DEF TypeOK
    <3>3. sessionOpen' \in BOOLEAN
      BY DEF TypeOK
    <3>4. conn' \in {"none", "up", "down"}
      BY DEF TypeOK
    <3>5. mover' \in {"ports", "dial", "listen", "group", "returned"}
      BY DEF TypeOK
    <3> QED BY <3>1, <3>2, <3>3, <3>4, <3>5 DEF TypeOK
  <2>2. SessionBounds' /\ InsideRun'
    BY DEF SessionBounds, InsideRun, TypeOK
  <2>3. StatusCarried'
    BY DEF StatusCarried, SessionBounds, InsideRun, TypeOK, Tolerated
  <2>4. ReaderLeft'
    BY DEF ReaderLeft, SessionBounds, TypeOK, InnerDone, OuterDone
  <2> QED BY <2>1, <2>2, <2>3, <2>4
<1>5. CASE FinishMoverSession
  <2> USE <1>5 DEF FinishMoverSession, GroupJoined, MoverFails
  <2>1. TypeOK'
    <3>1. groupErr' \in BOOLEAN
      BY DEF TypeOK
    <3>2. listener' \in BOOLEAN
      BY DEF TypeOK
    <3>3. sessionOpen' \in BOOLEAN
      BY DEF TypeOK
    <3>4. conn' \in {"none", "up", "down"}
      BY DEF TypeOK
    <3>5. mover' \in {"ports", "dial", "listen", "group", "returned"}
      BY DEF TypeOK
    <3> QED BY <3>1, <3>2, <3>3, <3>4, <3>5 DEF TypeOK
  <2>2. SessionBounds' /\ InsideRun'
    BY DEF SessionBounds, InsideRun, TypeOK
  <2>3. StatusCarried'
    BY DEF StatusCarried, SessionBounds, InsideRun, TypeOK, Tolerated
  <2>4. ReaderLeft'
    BY DEF ReaderLeft, SessionBounds, TypeOK, InnerDone, OuterDone
  <2> QED BY <2>1, <2>2, <2>3, <2>4
<1>6. CASE Join
  <2> USE <1>6 DEF Join
  <2>1. TypeOK'
    BY DEF TypeOK
  <2>2. SessionBounds' /\ InsideRun'
    BY DEF SessionBounds, InsideRun, TypeOK
  <2>3. StatusCarried'
    BY DEF StatusCarried, SessionBounds, InsideRun, TypeOK, Tolerated
  <2>4. ReaderLeft'
    BY DEF ReaderLeft, SessionBounds, TypeOK, InnerDone, OuterDone
  <2> QED BY <2>1, <2>2, <2>3, <2>4
<1> QED BY <1>1, <1>2, <1>3, <1>4, <1>5, <1>6

\* The watcher, the forwarder and its proxies.
LEMMA TunnelStep ==
    ASSUME IInv, Watch \/ AcceptConn \/ AcceptEnds \/ Drain \/ ProxyEnds
    PROVE  IInv'
<1> USE DEF IInv, fwdVars, sshVars, remoteVars, loggerVars, pipeVars
<1>1. CASE Watch
  <2> USE <1>1 DEF Watch
  <2>1. TypeOK'
    <3>1. sessionOpen' \in BOOLEAN
      BY DEF TypeOK
    <3> QED BY <3>1 DEF TypeOK
  <2>2. SessionBounds' /\ InsideRun'
    BY DEF SessionBounds, InsideRun, TypeOK
  <2>3. StatusCarried'
    BY DEF StatusCarried, SessionBounds, InsideRun, TypeOK, Tolerated
  <2>4. ReaderLeft'
    BY DEF ReaderLeft, SessionBounds, TypeOK, InnerDone, OuterDone
  <2> QED BY <2>1, <2>2, <2>3, <2>4
<1>2. CASE AcceptConn
  <2> USE <1>2 DEF AcceptConn
  <2>1. TypeOK'
    <3>1. proxies' \in 0..MaxConns
      BY BoundsAssumption DEF TypeOK
    <3> QED BY <3>1 DEF TypeOK
  <2>2. SessionBounds' /\ InsideRun'
    BY DEF SessionBounds, InsideRun, TypeOK
  <2>3. StatusCarried'
    BY DEF StatusCarried, SessionBounds, InsideRun, TypeOK, Tolerated
  <2>4. ReaderLeft'
    BY DEF ReaderLeft, SessionBounds, TypeOK, InnerDone, OuterDone
  <2> QED BY <2>1, <2>2, <2>3, <2>4
<1>3. CASE AcceptEnds
  <2> USE <1>3 DEF AcceptEnds
  <2>1. TypeOK'
    <3>1. innerErr' \in BOOLEAN
      BY DEF TypeOK
    <3> QED BY <3>1 DEF TypeOK
  <2>2. SessionBounds' /\ InsideRun'
    BY DEF SessionBounds, InsideRun, TypeOK
  <2>3. StatusCarried'
    BY DEF StatusCarried, SessionBounds, InsideRun, TypeOK, Tolerated
  <2>4. ReaderLeft'
    BY DEF ReaderLeft, SessionBounds, TypeOK, InnerDone, OuterDone
  <2> QED BY <2>1, <2>2, <2>3, <2>4
<1>4. CASE Drain
  <2> USE <1>4 DEF Drain, Drained
  <2>1. TypeOK'
    BY DEF TypeOK
  <2>2. SessionBounds' /\ InsideRun'
    BY DEF SessionBounds, InsideRun, TypeOK
  <2>3. StatusCarried'
    BY DEF StatusCarried, SessionBounds, InsideRun, TypeOK, Tolerated
  <2>4. ReaderLeft'
    BY DEF ReaderLeft, SessionBounds, TypeOK, InnerDone, OuterDone
  <2> QED BY <2>1, <2>2, <2>3, <2>4
<1>5. CASE ProxyEnds
  <2> USE <1>5 DEF ProxyEnds, ProxiesLeft
  <2>1. TypeOK'
    <3>1. proxies' \in 0..MaxConns
      BY BoundsAssumption DEF TypeOK
    <3> QED BY <3>1 DEF TypeOK
  <2>2. SessionBounds' /\ InsideRun'
    BY DEF SessionBounds, InsideRun, TypeOK
  <2>3. StatusCarried'
    BY DEF StatusCarried, SessionBounds, InsideRun, TypeOK, Tolerated
  <2>4. ReaderLeft'
    BY DEF ReaderLeft, SessionBounds, TypeOK, InnerDone, OuterDone
  <2> QED BY <2>1, <2>2, <2>3, <2>4
<1> QED BY <1>1, <1>2, <1>3, <1>4, <1>5

\* The runner and the copier.
LEMMA RunnerStep ==
    ASSUME IInv, Exec \/ ExecFails \/ RunReturns \/ MarkAsComplete \/ TearDown \/ CopierEnds
    PROVE  IInv'
<1> USE DEF IInv, fwdVars, sshVars, remoteVars, loggerVars, pipeVars
<1>1. CASE Exec
  <2> USE <1>1 DEF Exec
  <2>1. TypeOK'
    BY DEF TypeOK
  <2>2. SessionBounds' /\ InsideRun'
    BY DEF SessionBounds, InsideRun, TypeOK
  <2>3. StatusCarried'
    BY DEF StatusCarried, SessionBounds, InsideRun, TypeOK, Tolerated
  <2>4. ReaderLeft'
    BY DEF ReaderLeft, SessionBounds, TypeOK, InnerDone, OuterDone
  <2> QED BY <2>1, <2>2, <2>3, <2>4
<1>2. CASE ExecFails
  <2> USE <1>2 DEF ExecFails
  <2>1. TypeOK'
    <3>1. innerErr' \in BOOLEAN
      OBVIOUS
    <3> QED BY <3>1 DEF TypeOK
  <2>2. SessionBounds' /\ InsideRun'
    BY DEF SessionBounds, InsideRun, TypeOK
  <2>3. StatusCarried'
    BY DEF StatusCarried, SessionBounds, InsideRun, TypeOK, Tolerated
  <2>4. ReaderLeft'
    BY DEF ReaderLeft, SessionBounds, TypeOK, InnerDone, OuterDone
  <2> QED BY <2>1, <2>2, <2>3, <2>4
<1>3. CASE RunReturns
  <2> USE <1>3 DEF RunReturns
  <2>1. TypeOK'
    <3>1. innerErr' \in BOOLEAN
      BY DEF TypeOK
    <3> QED BY <3>1 DEF TypeOK
  <2>2. SessionBounds' /\ InsideRun'
    BY DEF SessionBounds, InsideRun, TypeOK
  <2>3. StatusCarried'
    BY DEF StatusCarried, SessionBounds, InsideRun, TypeOK, Tolerated
  <2>4. ReaderLeft'
    BY DEF ReaderLeft, SessionBounds, TypeOK, InnerDone, OuterDone
  <2> QED BY <2>1, <2>2, <2>3, <2>4
<1>4. CASE MarkAsComplete
  <2> USE <1>4 DEF MarkAsComplete
  <2>1. TypeOK'
    <3>1. innerErr' \in BOOLEAN
      BY DEF TypeOK
    <3>2. success' \in {0, 1}
      BY DEF TypeOK
    <3> QED BY <3>1, <3>2 DEF TypeOK
  <2>2. SessionBounds' /\ InsideRun'
    BY DEF SessionBounds, InsideRun, TypeOK
  <2>3. StatusCarried'
    BY DEF StatusCarried, SessionBounds, InsideRun, TypeOK, Tolerated
  <2>4. ReaderLeft'
    BY DEF ReaderLeft, SessionBounds, TypeOK, InnerDone, OuterDone
  <2> QED BY <2>1, <2>2, <2>3, <2>4
<1>5. CASE TearDown
  <2> USE <1>5 DEF TearDown
  <2>1. TypeOK'
    <3>1. listener' \in BOOLEAN
      BY DEF TypeOK
    <3>2. writerClosed' \in BOOLEAN
      BY DEF TypeOK
    <3> QED BY <3>1, <3>2 DEF TypeOK
  <2>2. SessionBounds' /\ InsideRun'
    BY DEF SessionBounds, InsideRun, TypeOK
  <2>3. StatusCarried'
    BY DEF StatusCarried, SessionBounds, InsideRun, TypeOK, Tolerated
  <2>4. ReaderLeft'
    BY DEF ReaderLeft, SessionBounds, TypeOK, InnerDone, OuterDone
  <2> QED BY <2>1, <2>2, <2>3, <2>4
<1>6. CASE CopierEnds
  <2> USE <1>6 DEF CopierEnds
  <2>1. TypeOK'
    BY DEF TypeOK
  <2>2. SessionBounds' /\ InsideRun'
    BY DEF SessionBounds, InsideRun, TypeOK
  <2>3. StatusCarried'
    BY DEF StatusCarried, SessionBounds, InsideRun, TypeOK, Tolerated
  <2>4. ReaderLeft'
    BY DEF ReaderLeft, SessionBounds, TypeOK, InnerDone, OuterDone
  <2> QED BY <2>1, <2>2, <2>3, <2>4
<1> QED BY <1>1, <1>2, <1>3, <1>4, <1>5, <1>6

\* The logger: it touches no status.
LEMMA LoggerStep ==
    ASSUME IInv, TopOfLoop \/ ReadLine \/ TailEnds \/ RenderEnds \/ StreamEnds
    PROVE  IInv'
<1> USE DEF IInv, fwdVars, sshVars, remoteVars, loggerVars, pipeVars
<1>1. CASE TopOfLoop
  <2> USE <1>1 DEF TopOfLoop
  <2>1. TypeOK'
    <3>1. render' \in BOOLEAN
      BY DEF TypeOK
    <3>2. streamCancelled' \in BOOLEAN
      BY DEF TypeOK
    <3>3. success' \in {0, 1}
      BY DEF TypeOK
    <3>4. tailErr' \in {"none", "eof", "closed", "canceled"}
      BY DEF TypeOK
    <3> QED BY <3>1, <3>2, <3>3, <3>4 DEF TypeOK
  <2>2. SessionBounds' /\ InsideRun'
    BY DEF SessionBounds, InsideRun, TypeOK
  <2>3. StatusCarried'
    BY DEF StatusCarried, SessionBounds, InsideRun, TypeOK, Tolerated
  <2>4. ReaderLeft'
    BY DEF ReaderLeft, SessionBounds, TypeOK, InnerDone, OuterDone
  <2> QED BY <2>1, <2>2, <2>3, <2>4
<1>2. CASE ReadLine
  <2> USE <1>2 DEF ReadLine
  <2>1. TypeOK'
    <3>1. streamCancelled' \in BOOLEAN
      BY DEF TypeOK
    <3>2. tailErr' \in {"none", "eof", "closed", "canceled"}
      BY DEF TypeOK
    <3> QED BY <3>1, <3>2 DEF TypeOK
  <2>2. SessionBounds' /\ InsideRun'
    BY DEF SessionBounds, InsideRun, TypeOK
  <2>3. StatusCarried'
    BY DEF StatusCarried, SessionBounds, InsideRun, TypeOK, Tolerated
  <2>4. ReaderLeft'
    BY DEF ReaderLeft, SessionBounds, TypeOK, InnerDone, OuterDone
  <2> QED BY <2>1, <2>2, <2>3, <2>4
<1>3. CASE TailEnds
  <2> USE <1>3 DEF TailEnds
  <2>1. TypeOK'
    <3>1. streamCancelled' \in BOOLEAN
      BY DEF TypeOK
    <3>2. tailErr' \in {"none", "eof", "closed", "canceled"}
      BY DEF TypeOK
    <3> QED BY <3>1, <3>2 DEF TypeOK
  <2>2. SessionBounds' /\ InsideRun'
    BY DEF SessionBounds, InsideRun, TypeOK
  <2>3. StatusCarried'
    BY DEF StatusCarried, SessionBounds, InsideRun, TypeOK, Tolerated
  <2>4. ReaderLeft'
    BY DEF ReaderLeft, SessionBounds, TypeOK, InnerDone, OuterDone
  <2> QED BY <2>1, <2>2, <2>3, <2>4
<1>4. CASE RenderEnds
  <2> USE <1>4 DEF RenderEnds
  <2>1. TypeOK'
    <3>1. render' \in BOOLEAN
      BY DEF TypeOK
    <3>2. streamCancelled' \in BOOLEAN
      BY DEF TypeOK
    <3>3. success' \in {0, 1}
      BY DEF TypeOK
    <3> QED BY <3>1, <3>2, <3>3 DEF TypeOK
  <2>2. SessionBounds' /\ InsideRun'
    BY DEF SessionBounds, InsideRun, TypeOK
  <2>3. StatusCarried'
    BY DEF StatusCarried, SessionBounds, InsideRun, TypeOK, Tolerated
  <2>4. ReaderLeft'
    BY DEF ReaderLeft, SessionBounds, TypeOK, InnerDone, OuterDone
  <2> QED BY <2>1, <2>2, <2>3, <2>4
<1>5. CASE StreamEnds
  <2> USE <1>5 DEF StreamEnds
  <2>1. TypeOK'
    <3>1. readerClosed' \in BOOLEAN
      OBVIOUS
    <3>2. logger' \in {"exit", "sleep"}
      OBVIOUS
    <3> QED BY <3>1, <3>2 DEF TypeOK
  <2>2. SessionBounds' /\ InsideRun'
    BY DEF SessionBounds, InsideRun, TypeOK
  <2>3. StatusCarried'
    BY DEF StatusCarried, SessionBounds, InsideRun, TypeOK, Tolerated
  <2>4. ReaderLeft'
    BY DEF ReaderLeft, SessionBounds, TypeOK, InnerDone, OuterDone
  <2> QED BY <2>1, <2>2, <2>3, <2>4
<1> QED BY <1>1, <1>2, <1>3, <1>4, <1>5

\* The command, the network and the user.
LEMMA EnvironmentStep ==
    ASSUME IInv, RemotePrints \/ RemoteExits \/ ConnBreaks \/ Interrupt
    PROVE  IInv'
<1> USE DEF IInv, fwdVars, sshVars, remoteVars, loggerVars, pipeVars
<1>1. CASE RemotePrints
  <2> USE <1>1 DEF RemotePrints
  <2>1. TypeOK'
    <3>1. printed' \in 0..MaxLines
      BY BoundsAssumption DEF TypeOK
    <3> QED BY <3>1 DEF TypeOK
  <2>2. SessionBounds' /\ InsideRun'
    BY DEF SessionBounds, InsideRun, TypeOK
  <2>3. StatusCarried'
    BY DEF StatusCarried, SessionBounds, InsideRun, TypeOK, Tolerated
  <2>4. ReaderLeft'
    BY DEF ReaderLeft, SessionBounds, TypeOK, InnerDone, OuterDone
  <2> QED BY <2>1, <2>2, <2>3, <2>4
<1>2. CASE RemoteExits
  <2> USE <1>2 DEF RemoteExits
  <2>1. TypeOK'
    BY DEF TypeOK
  <2>2. SessionBounds' /\ InsideRun'
    BY DEF SessionBounds, InsideRun, TypeOK
  <2>3. StatusCarried'
    BY DEF StatusCarried, SessionBounds, InsideRun, TypeOK, Tolerated
  <2>4. ReaderLeft'
    BY DEF ReaderLeft, SessionBounds, TypeOK, InnerDone, OuterDone
  <2> QED BY <2>1, <2>2, <2>3, <2>4
<1>3. CASE ConnBreaks
  <2> USE <1>3 DEF ConnBreaks
  <2>1. TypeOK'
    BY DEF TypeOK
  <2>2. SessionBounds' /\ InsideRun'
    BY DEF SessionBounds, InsideRun, TypeOK
  <2>3. StatusCarried'
    BY DEF StatusCarried, SessionBounds, InsideRun, TypeOK, Tolerated
  <2>4. ReaderLeft'
    BY DEF ReaderLeft, SessionBounds, TypeOK, InnerDone, OuterDone
  <2> QED BY <2>1, <2>2, <2>3, <2>4
<1>4. CASE Interrupt
  <2> USE <1>4 DEF Interrupt
  <2>1. TypeOK'
    <3>1. cancelled' \in BOOLEAN
      OBVIOUS
    <3> QED BY <3>1 DEF TypeOK
  <2>2. SessionBounds' /\ InsideRun'
    BY DEF SessionBounds, InsideRun, TypeOK
  <2>3. StatusCarried'
    BY DEF StatusCarried, SessionBounds, InsideRun, TypeOK, Tolerated
  <2>4. ReaderLeft'
    BY DEF ReaderLeft, SessionBounds, TypeOK, InnerDone, OuterDone
  <2> QED BY <2>1, <2>2, <2>3, <2>4
<1> QED BY <1>1, <1>2, <1>3, <1>4

LEMMA NextIInv == IInv /\ [Next]_vars => IInv'
<1> SUFFICES ASSUME IInv, [Next]_vars PROVE IInv'
  OBVIOUS
<1>1. CASE UNCHANGED vars
  BY <1>1 DEF vars, IInv, TypeOK, SessionBounds, InsideRun, StatusCarried, ReaderLeft, Tolerated,
     InnerDone, OuterDone
<1>2. CASE Next
  BY <1>2, ForwardStep, MoverStep, TunnelStep, RunnerStep, LoggerStep, EnvironmentStep
     DEF Next, Forwards, Mover, Forwarder, Runner, TearDownCut, Tail, Environment
<1> QED BY <1>1, <1>2

LEMMA Invariance == Spec => []IInv
  BY Initially, NextIInv, PTL DEF Spec

-----------------------------------------------------------------------------
(* Theorems *)

\* The session's state keeps its types: a proxied connection is counted as over
\* once, and successCh holds one token at most.
THEOREM TypeCorrect == Spec => []TypeOK
<1>1. IInv => TypeOK
  BY DEF IInv
<1> QED BY <1>1, Invariance, PTL

\* runLocalMigration returns success only for a mover whose exit status
\* isToleratedExit accepts: no lost connection, failed forward, failed copy or
\* interrupt, whenever it comes, is reported as a success.
THEOREM SuccessIsMoved == Spec => []SuccessMeansMoved
<1>1. IInv => SuccessMeansMoved
  BY DEF IInv, StatusCarried, Tolerated, SuccessMeansMoved
<1> QED BY <1>1, Invariance, PTL

\* After waitAndRunMover has returned, the connection, the listener, the copier
\* and, unless the accept loop broke, every proxy are gone.
THEOREM NothingIsLeftRunning == Spec => []NothingLeftRunning
<1>1. IInv => NothingLeftRunning
  BY DEF IInv, TypeOK, SessionBounds, InsideRun, NothingLeftRunning
<1> QED BY <1>1, Invariance, PTL

\* The copier can only be left in its write by a context that was cancelled, or a
\* group that failed: the logger took the top of its loop after that and never
\* opened the pipe.
StrandedOnlyWhenCancelled == OutputStranded => InnerDone

\* A session in which nothing failed and nothing was interrupted never strands the
\* mover's output: the exception InterruptEndsSession makes needs an interrupt.
THEOREM StrandingNeedsCancel == Spec => []StrandedOnlyWhenCancelled
<1>1. IInv => StrandedOnlyWhenCancelled
  BY DEF IInv, TypeOK, InsideRun, ReaderLeft, OutputStranded, StrandedOnlyWhenCancelled
<1> QED BY <1>1, Invariance, PTL

\* A step of the session is a step of the contract, or none of its business.
LEMMA StepRefines == IInv /\ [Next]_vars => [Contract!Next]_(Contract!vars)
<1> SUFFICES ASSUME IInv, [Next]_vars PROVE [Contract!Next]_(Contract!vars)
  OBVIOUS
<1> USE DEF Contract!vars, CommandPhase, fwdVars, sshVars, remoteVars, loggerVars, pipeVars
<1>1. CASE \E s \in Sides : ForwardReady(s) \/ ForwardFails(s) \/ ForwardStops(s)
  BY <1>1 DEF ForwardReady, ForwardFails, ForwardStops
<1>2. CASE WaitForPorts \/ Dial \/ SetUpFails \/ FinishMoverSession
  BY <1>2 DEF WaitForPorts, Dial, SetUpFails, FinishMoverSession, MoverFails
<1>3. CASE StartMoverSession
  <2>1. CommandPhase = "absent" /\ CommandPhase' = "pending" /\ UNCHANGED <<cancelled, result>>
    BY <1>3 DEF StartMoverSession, IInv, SessionBounds, InsideRun
  <2> QED BY <2>1 DEF Contract!Next, Contract!PodChanges
<1>4. CASE Join
  <2>1. UNCHANGED <<CommandPhase, cancelled>> /\ result = "none"
    BY <1>4 DEF Join
  <2>2. (result' = "nil" /\ Tolerated) \/ result' = "error"
    BY <1>4 DEF Join, IInv, StatusCarried
  <2>3. Tolerated => CommandPhase = "succeeded"
    BY DEF Tolerated
  <2> QED BY <2>1, <2>2, <2>3 DEF Contract!Next, Contract!Decide
<1>5. CASE Watch \/ AcceptConn \/ AcceptEnds \/ Drain \/ ProxyEnds
  BY <1>5 DEF Watch, AcceptConn, AcceptEnds, Drain, ProxyEnds
<1>6. CASE Exec
  <2>1. CommandPhase = "pending" /\ CommandPhase' = "running" /\ UNCHANGED <<cancelled, result>>
    BY <1>6 DEF Exec, IInv, InsideRun
  <2> QED BY <2>1 DEF Contract!Next, Contract!PodChanges
<1>7. CASE ExecFails \/ RunReturns \/ MarkAsComplete \/ TearDown \/ CopierEnds
  BY <1>7 DEF ExecFails, RunReturns, MarkAsComplete, TearDown, CopierEnds
<1>8. CASE TopOfLoop \/ ReadLine \/ TailEnds \/ RenderEnds \/ StreamEnds
  BY <1>8 DEF TopOfLoop, ReadLine, TailEnds, RenderEnds, StreamEnds
<1>9. CASE RemotePrints \/ ConnBreaks
  BY <1>9 DEF RemotePrints, ConnBreaks
<1>10. CASE RemoteExits
  <2>1. /\ CommandPhase = "running" /\ CommandPhase' \in {"succeeded", "failed"}
        /\ UNCHANGED <<cancelled, result>>
    BY <1>10 DEF RemoteExits
  <2> QED BY <2>1 DEF Contract!Next, Contract!PodChanges
<1>11. CASE Interrupt
  BY <1>11 DEF Interrupt, Contract!Next, Contract!Interrupt
<1>12. CASE UNCHANGED vars
  BY <1>12 DEF vars
<1> QED BY <1>1, <1>2, <1>3, <1>4, <1>5, <1>6, <1>7, <1>8, <1>9, <1>10, <1>11, <1>12
        DEF Next, Forwards, Mover, Forwarder, Runner, TearDownCut, Tail, Environment

\* runLocalMigration keeps the safety part of the contract the ladder has with the
\* other strategies' wait for a job: one verdict, never taken back, and success
\* only for a command that ended with a tolerated status.
THEOREM ImplementsContract == Spec => Contract!Safety
<1>1. Init => Contract!Init
  BY DEF Init, Contract!Init, CommandPhase
<1> QED BY <1>1, StepRefines, Invariance, PTL DEF Spec, Contract!Safety

=============================================================================
