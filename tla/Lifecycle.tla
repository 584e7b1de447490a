----------------------------- MODULE Lifecycle -----------------------------
(***************************************************************************)
(* The client process from start() to exit (src/client.rs), with the       *)
(* control-plane thread that reads stdin (src/control/stdin.rs).           *)
(*                                                                         *)
(* Three things run side by side: main, which binds, announces, accepts,   *)
(* authenticates and later waits for shutdown; the control thread, which   *)
(* answers $ping and turns $shutdown into a cancelled token; and the read  *)
(* loop, whose end fires a oneshot.  The parent writes lines, connects and *)
(* hangs up as it pleases.                                                 *)
(***************************************************************************)
EXTENDS Integers, Sequences, FiniteSets

CONSTANTS
  Platforms,   \* the platforms of src/transport/pipe.rs: "unix", "windows"
  MaxLines,    \* bound of the model: lines the parent writes to stdin
  MaxPeers,    \* bound of the model: connections to the pipe
  MaxEmits     \* bound of the model: events the application emits

ASSUME LifecycleAssumption ==
  /\ MaxLines \in Nat /\ MaxPeers \in Nat /\ MaxEmits \in Nat

\* What read_line and parse_control_line make of a line of stdin: "garbled" is
\* one that is not UTF-8, for which read_line returns an error.
Lines == {"ping", "shutdown", "ignore", "garbled"}

\* A peer proves the token, sends something else first, or sends nothing.
Peers == {"proves", "fails", "silent"}
NoPeer == "none"

VARIABLES
  platform,   \* one of Platforms
  main,       \* where start() and then the application are
  listening,  \* a client that connects to the pipe finds it
  withToken,  \* an auth token is configured; fixed from the start
  announced,  \* $init was written to stdout
  backlog,    \* connections not yet accepted
  met,        \* how many peers have connected
  peer,       \* the connection main is holding
  control,    \* the control thread: "none", "reading" or "ended"
  stdin,      \* lines written by the parent and not yet read
  lines,      \* how many lines the parent has written
  stdinOpen,  \* the parent has not closed our stdin
  stdoutOpen, \* the parent has not closed its end of our stdout
  pongs,      \* history: $pong messages written
  pings,      \* history: $ping messages written by the parent
  token,      \* shutdown_token is cancelled
  readLoop,   \* "none", "running" or "ended", which fires shutdown_tx
  queued      \* frames emitted and not yet written to the pipe

startVars   == <<platform, withToken, listening, announced, backlog, met, peer>>
stdio       == <<stdinOpen, stdoutOpen>>
controlVars == <<control, stdin, lines, stdio, pongs, pings, token>>
dataVars    == <<readLoop, queued>>
vars == <<platform, main, withToken, listening, announced, backlog, met, peer,
          control, stdin, lines, stdinOpen, stdoutOpen, pongs, pings, token,
          readLoop, queued>>

Gone == {"exited", "failed"}
MainStates == {"bind", "announce", "control", "accept", "handshake", "adopt",
               "running", "waiting"} \cup Gone

Init ==
  /\ platform \in Platforms
  /\ main = "bind"
  /\ withToken \in BOOLEAN
  /\ listening = FALSE
  /\ announced = FALSE
  /\ backlog = <<>>
  /\ met = 0
  /\ peer = NoPeer
  /\ control = "none"
  /\ stdin = <<>>
  /\ lines = 0
  /\ stdinOpen = TRUE
  /\ stdoutOpen = TRUE
  /\ pongs = 0
  /\ pings = 0
  /\ token = FALSE
  /\ readLoop = "none"
  /\ queued = 0

-----------------------------------------------------------------------------
(* Client::start                                                           *)

\* Mutant of BindUnix: the socket is left to accept() to create.
BindUnixLater ==
  /\ platform = "unix"
  /\ UNCHANGED listening

\* UnixListener::bind: the socket exists from here on.
BindUnix ==
  /\ platform = "unix"
  /\ listening' = TRUE

\* On Windows bind() only tries out whether the pipe can be created: the instance
\* is dropped again before bind() returns.
BindWindows ==
  /\ platform = "windows"
  /\ UNCHANGED listening

Bind ==
  /\ main = "bind"
  /\ BindUnix \/ BindWindows
  /\ main' = "announce"
  /\ UNCHANGED <<platform, withToken, announced, backlog, met, peer,
                 controlVars, dataVars>>

\* write_stdout_line(&init_msg)
Announce ==
  /\ main = "announce"
  /\ stdoutOpen
  /\ announced' = TRUE
  /\ main' = "control"
  /\ UNCHANGED <<platform, withToken, listening, backlog, met, peer,
                 controlVars, dataVars>>

\* Mutant of SpawnControl: the thread is left to wait_for_shutdown to start.
SpawnControlLater ==
  /\ main = "control"
  /\ main' = "accept"
  /\ UNCHANGED <<startVars, controlVars, dataVars>>

SpawnControl ==
  /\ main = "control"
  /\ control' = "reading"
  /\ main' = "accept"
  /\ UNCHANGED <<startVars, stdin, lines, stdio, pongs, pings, token, dataVars>>

\* The listener is dropped: on Unix its socket file is removed, on Windows there
\* is no instance any more.
DropListener == listening' = FALSE

\* A `?` in the steps above or on accept(): start() returns Err and takes the
\* listener with it; the application has nothing left to wait for and exits.
StartFails ==
  /\ main \in {"bind", "announce", "control", "accept"}
  /\ main' = "failed"
  /\ DropListener
  /\ UNCHANGED <<platform, withToken, announced, backlog, met, peer,
                 controlVars, dataVars>>

\* On Windows each accept() creates the pipe instance it waits on.
OpenInstance ==
  /\ platform = "windows"
  /\ main = "accept"
  /\ ~listening
  /\ backlog = <<>>
  /\ listening' = TRUE
  /\ UNCHANGED <<platform, main, withToken, announced, backlog, met, peer,
                 controlVars, dataVars>>

\* Mutant of Accept: the handshake is skipped.
AcceptAnyone ==
  /\ main = "accept"
  /\ backlog # <<>>
  /\ peer' = Head(backlog)
  /\ backlog' = Tail(backlog)
  /\ main' = "adopt"
  /\ UNCHANGED <<platform, withToken, listening, announced, met, controlVars,
                 dataVars>>

Accept ==
  /\ main = "accept"
  /\ backlog # <<>>
  /\ peer' = Head(backlog)
  /\ backlog' = Tail(backlog)
  /\ main' = IF withToken THEN "handshake" ELSE "adopt"
  /\ UNCHANGED <<platform, withToken, listening, announced, met, controlVars,
                 dataVars>>

\* run_auth_handshake returns; it has no timeout and waits on a silent peer.
Handshake ==
  /\ main = "handshake"
  /\ peer \in {"proves", "fails"}
  /\ main' = IF peer = "proves" THEN "adopt" ELSE "accept"
  /\ peer' = IF peer = "proves" THEN peer ELSE NoPeer
  /\ UNCHANGED <<platform, withToken, listening, announced, backlog, met,
                 controlVars, dataVars>>

\* The pending connection is closed by the peer before it authenticated.
PeerLeaves ==
  /\ main = "handshake"
  /\ main' = "accept"
  /\ peer' = NoPeer
  /\ UNCHANGED <<platform, withToken, listening, announced, backlog, met,
                 controlVars, dataVars>>

\* Writer task and read loop are spawned and start() returns; the listener is
\* dropped with its backlog, and its socket file is removed.
Adopt ==
  /\ main = "adopt"
  /\ main' = "running"
  /\ readLoop' = "running"
  /\ DropListener
  /\ backlog' = <<>>
  /\ UNCHANGED <<platform, withToken, announced, met, peer, controlVars,
                 queued>>

-----------------------------------------------------------------------------
(* The running client                                                      *)

\* emit() or emit_raw() of a registered event: one more frame in the writer.
Emit ==
  /\ main = "running"
  /\ queued < MaxEmits
  /\ queued' = queued + 1
  /\ UNCHANGED <<main, startVars, controlVars, readLoop>>

\* Mutant of WriteFrame: the queue is not looked at.
WriteAnyway ==
  /\ main \in {"running", "waiting"}
  /\ queued' = queued - 1
  /\ UNCHANGED <<main, startVars, controlVars, readLoop>>

\* The writer task, which goes on while main waits.
WriteFrame ==
  /\ main \in {"running", "waiting"}
  /\ queued > 0
  /\ queued' = queued - 1
  /\ UNCHANGED <<main, startVars, controlVars, readLoop>>

\* read_loop returns, and shutdown_tx.send(()) follows whatever it returned.
ReadLoopEnds ==
  /\ main \in {"running", "waiting"}
  /\ readLoop = "running"
  /\ readLoop' = "ended"
  /\ UNCHANGED <<main, startVars, controlVars, queued>>

CallWait ==
  /\ main = "running"
  /\ main' = "waiting"
  /\ UNCHANGED <<startVars, controlVars, dataVars>>

\* Mutant of WaitReturns: only the end of the data plane is waited for.
WaitForData ==
  /\ main = "waiting"
  /\ readLoop = "ended"
  /\ main' = "exited"
  /\ UNCHANGED <<startVars, controlVars, dataVars>>

\* The select! of wait_for_shutdown; then main returns and the process is gone,
\* with whatever was still queued.
WaitReturns ==
  /\ main = "waiting"
  /\ readLoop = "ended" \/ token
  /\ main' = "exited"
  /\ UNCHANGED <<startVars, controlVars, dataVars>>

-----------------------------------------------------------------------------
(* run_control_reader, on its own thread                                   *)

Alive == main \notin Gone

\* Mutant of ControlReads: whatever is not $shutdown is taken for a $ping.
ControlAnswersAll ==
  /\ Alive
  /\ control = "reading"
  /\ stdin # <<>>
  /\ LET l == Head(stdin)
     IN  /\ pongs' = pongs + (IF l # "shutdown" /\ stdoutOpen THEN 1 ELSE 0)
         /\ token' = (token \/ l = "shutdown")
         /\ control' = IF l = "shutdown" \/ ~stdoutOpen THEN "ended" ELSE control
  /\ stdin' = Tail(stdin)
  /\ UNCHANGED <<main, startVars, lines, stdio, pings, dataVars>>

\* One turn of the loop: $ping is answered, or ends the thread if stdout is
\* gone; $shutdown cancels the token and ends the thread; a read error ends it;
\* anything else is ignored.
ControlReads ==
  /\ Alive
  /\ control = "reading"
  /\ stdin # <<>>
  /\ LET l == Head(stdin)
     IN  /\ pongs' = pongs + (IF l = "ping" /\ stdoutOpen THEN 1 ELSE 0)
         /\ token' = (token \/ l = "shutdown")
         /\ control' = IF \/ l \in {"shutdown", "garbled"}
                          \/ l = "ping" /\ ~stdoutOpen
                       THEN "ended"
                       ELSE control
  /\ stdin' = Tail(stdin)
  /\ UNCHANGED <<main, startVars, lines, stdio, pings, dataVars>>

\* read_line returns Ok(0): the thread ends and tells nobody.
ControlEnds ==
  /\ Alive
  /\ control = "reading"
  /\ stdin = <<>>
  /\ ~stdinOpen
  /\ control' = "ended"
  /\ UNCHANGED <<main, startVars, stdin, lines, stdio, pongs, pings, token,
                 dataVars>>

-----------------------------------------------------------------------------
(* The parent and other peers                                              *)

ParentWrites(l) ==
  /\ Alive
  /\ stdinOpen
  /\ lines < MaxLines
  /\ stdin' = Append(stdin, l)
  /\ lines' = lines + 1
  /\ pings' = pings + (IF l = "ping" THEN 1 ELSE 0)
  /\ UNCHANGED <<main, startVars, control, stdio, pongs, token, dataVars>>

ParentClosesStdin ==
  /\ Alive
  /\ stdinOpen
  /\ stdinOpen' = FALSE
  /\ UNCHANGED <<main, startVars, control, stdin, lines, stdoutOpen, pongs,
                 pings,
                 token, dataVars>>

ParentClosesStdout ==
  /\ Alive
  /\ stdoutOpen
  /\ stdoutOpen' = FALSE
  /\ UNCHANGED <<main, startVars, control, stdin, lines, stdinOpen, pongs,
                 pings,
                 token, dataVars>>

\* A client connects.  A Unix listener queues it; a pipe instance of Windows is
\* taken by it and is there for no other.
Connect(p) ==
  /\ listening
  /\ announced
  /\ met < MaxPeers
  /\ backlog' = Append(backlog, p)
  /\ met' = met + 1
  /\ listening' = (platform = "unix")
  /\ UNCHANGED <<platform, main, withToken, announced, peer, controlVars,
                 dataVars>>

-----------------------------------------------------------------------------
MainStep ==
  \/ Bind \/ Announce \/ SpawnControl \/ OpenInstance \/ Accept \/ Handshake
  \/ Adopt
  \/ CallWait \/ WaitReturns

ControlStep == ControlReads \/ ControlEnds

Environment ==
  \/ StartFails \/ PeerLeaves \/ Emit \/ WriteFrame \/ ReadLoopEnds
  \/ ParentClosesStdin \/ ParentClosesStdout
  \/ \E l \in Lines : ParentWrites(l)
  \/ \E p \in Peers : Connect(p)

\* The process has ended, or everybody waits for a parent that is silent.
Rest ==
  /\ main \in Gone \cup {"accept", "handshake", "waiting"}
  /\ UNCHANGED vars

Next == MainStep \/ ControlStep \/ Environment \/ Rest

Spec == Init /\ [][Next]_vars

\* main is polled and the application goes on to wait_for_shutdown; the control
\* thread runs.  Peers, the pipe and the application's emits owe nothing.
FairSpec == Spec /\ WF_vars(MainStep) /\ WF_vars(ControlStep)

-----------------------------------------------------------------------------
(* Properties                                                              *)

\* Every variable has its type.
TypeOK ==
  /\ platform \in Platforms
  /\ main \in MainStates
  /\ withToken \in BOOLEAN /\ listening \in BOOLEAN /\ announced \in BOOLEAN
  /\ backlog \in Seq(Peers) /\ met \in 0..MaxPeers
  /\ peer \in Peers \cup {NoPeer}
  /\ control \in {"none", "reading", "ended"}
  /\ stdin \in Seq(Lines) /\ lines \in 0..MaxLines
  /\ stdinOpen \in BOOLEAN /\ stdoutOpen \in BOOLEAN /\ token \in BOOLEAN
  /\ pongs \in 0..MaxLines /\ pings \in 0..MaxLines
  /\ readLoop \in {"none", "running", "ended"}
  /\ queued \in 0..MaxEmits

\* From $init until a peer is adopted or start() gives up, main is waiting.
Expecting == announced /\ main \in {"control", "accept", "handshake", "adopt"}

\* The listener is up before $init tells the parent where it is, and stays up
\* through failed handshakes: on Unix no connect that $init leads to is refused.
\* On Windows only accept() has an instance, so there the parent finds one when
\* main has got that far and serves nobody else.
FoundWhenExpected ==
  /\ platform = "unix" /\ Expecting => listening
  /\ platform = "windows" /\ listening => main = "accept" /\ backlog = <<>>

\* What the comment in start() says of every platform: the server is listening
\* before $init is announced, so that the parent's connect finds it.
ListeningWhenAnnounced == announced /\ main = "control" => listening

\* With a token configured no frame is written or read on behalf of a peer that
\* did not prove it, however many others came first.
ServesOnlyProven ==
  withToken /\ (readLoop # "none" \/ queued > 0) => peer = "proves"

PingsIn(s) == {i \in 1..Len(s) : s[i] = "ping"}

\* As long as the control thread has not ended, every $ping is answered or still
\* waiting to be read, whatever main is doing, and never answered twice.
PingsAccounted ==
  control # "ended" => pings = pongs + Cardinality(PingsIn(stdin))

\* A $shutdown that the control thread has yet to come to, through nothing but
\* lines of the given kinds.
ShutdownBehind(kinds) ==
  /\ control = "reading"
  /\ \E i \in 1..Len(stdin) : /\ stdin[i] = "shutdown"
                              /\ \A j \in 1..(i - 1) : stdin[j] \in kinds

\* A client that was started and is asked to shut down exits: by the end of the
\* data plane, even if the control thread has ended without a word, or by a
\* $shutdown, cancelled into the token or still unread behind lines that are
\* ignored.  Behind a $ping it may be lost, but only if the parent has closed
\* stdout, so that the $ping ends the thread.
StartedClientStops ==
  LET started == main \in {"running", "waiting"}
  IN  /\ (started /\ (token \/ readLoop = "ended" \/ ShutdownBehind({"ignore"})))
           ~> (main = "exited")
      /\ (started /\ ShutdownBehind({"ignore", "ping"}))
           ~> (main = "exited" \/ (control = "ended" /\ ~token /\ ~stdoutOpen))

\* Lines are read also while main waits in accept() for its parent or in a
\* handshake for a silent peer: the heartbeat does not depend on the data plane.
LinesAreRead ==
  (stdin # <<>> /\ main \in {"accept", "handshake"})
    ~> (stdin = <<>> \/ control = "ended" \/ main \in Gone)

\* What the module comment of src/control says of $shutdown: the child shuts
\* down cleanly and exits.
ShutdownExits == token ~> (main \in Gone)
=============================================================================
