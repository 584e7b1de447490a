-------------------------- MODULE LifecycleProofs --------------------------
(***************************************************************************)
(* Proofs about Lifecycle, for any number of lines, peers and events, on   *)
(* every platform.                                                         *)
(***************************************************************************)
EXTENDS Lifecycle, FiniteSetTheorems, SequenceTheorems, TLAPS

\* A pong takes a line from stdin, a ping puts one there.
LineCounts == pings <= lines /\ pongs + Len(stdin) <= lines

TypeInv == TypeOK /\ LineCounts

\* The listener, from bind() until start() drops it.
ListenerInv ==
  /\ platform = "unix"
       /\ main \in {"announce", "control", "accept", "handshake", "adopt"}
     => listening
  /\ platform = "windows" /\ listening => main = "accept" /\ backlog = <<>>

\* What start() has got hold of: nothing is served before a peer is adopted, and
\* with a token only one that proved it is.
ServeInv ==
  /\ withToken /\ main \in {"adopt", "running", "waiting", "exited"}
     => peer = "proves"
  /\ main \notin {"running", "waiting", "exited"}
     => readLoop = "none" /\ queued = 0

\* The control thread is started once.
ThreadInv == main \in {"bind", "announce", "control"} => control = "none"
PingInv == ThreadInv /\ PingsAccounted

-----------------------------------------------------------------------------
(* Counting the pings on stdin                                             *)

\* The lines that are pings can be counted.
LEMMA PingsFinite ==
  ASSUME NEW s \in Seq(Lines)
  PROVE  IsFiniteSet(PingsIn(s)) /\ Cardinality(PingsIn(s)) \in Nat
<1>1. IsFiniteSet(1..Len(s))
  BY FS_Interval, LenProperties
<1>2. PingsIn(s) \subseteq 1..Len(s)
  BY DEF PingsIn
<1> QED
  BY <1>1, <1>2, FS_Subset, FS_CardinalityType

\* One more line.
LEMMA PingsAppend ==
  ASSUME NEW s \in Seq(Lines), NEW l \in Lines
  PROVE  Cardinality(PingsIn(Append(s, l))) =
           Cardinality(PingsIn(s)) + (IF l = "ping" THEN 1 ELSE 0)
<1>1. /\ Len(s) \in Nat /\ Len(Append(s, l)) = Len(s) + 1
      /\ Append(s, l)[Len(s) + 1] = l
      /\ \A i \in 1..Len(s) : Append(s, l)[i] = s[i]
  BY AppendProperties, LenProperties
<1>2. /\ \A i \in 1..(Len(s) + 1) : i \in 1..Len(s) \/ i = Len(s) + 1
      /\ 1..Len(s) \subseteq 1..(Len(s) + 1) /\ Len(s) + 1 \in 1..(Len(s) + 1)
      /\ Len(s) + 1 \notin 1..Len(s)
  BY <1>1
<1>3. PingsIn(Append(s, l)) = {i \in 1..(Len(s) + 1) : Append(s, l)[i] = "ping"}
  BY <1>1 DEF PingsIn
<1>4. Len(s) + 1 \notin PingsIn(s)
  BY <1>2 DEF PingsIn
<1>5. CASE l = "ping"
  <2>1. PingsIn(Append(s, l)) = PingsIn(s) \cup {Len(s) + 1}
    BY <1>1, <1>2, <1>3, <1>5 DEF PingsIn
  <2>2. Cardinality(PingsIn(s) \cup {Len(s) + 1}) = Cardinality(PingsIn(s)) + 1
    BY <1>4, PingsFinite, FS_AddElement
  <2> QED
    BY <1>5, <2>1, <2>2
<1>6. CASE l # "ping"
  <2>1. PingsIn(Append(s, l)) = PingsIn(s)
    BY <1>1, <1>2, <1>3, <1>6 DEF PingsIn
  <2> QED
    BY <1>6, <2>1, PingsFinite
<1> QED
  BY <1>5, <1>6

\* The first line is read: the others move up by one.
LEMMA PingsTail ==
  ASSUME NEW s \in Seq(Lines), s # <<>>
  PROVE  Cardinality(PingsIn(Tail(s))) =
           Cardinality(PingsIn(s)) - (IF Head(s) = "ping" THEN 1 ELSE 0)
<1> DEFINE rest == PingsIn(s) \ {1}
           up == [i \in rest |-> i - 1]
<1>1. /\ Len(s) \in Nat \ {0} /\ Len(Tail(s)) = Len(s) - 1
      /\ Tail(s) \in Seq(Lines)
      /\ \A i \in 1..(Len(s) - 1) : Tail(s)[i] = s[i + 1]
      /\ Head(s) = s[1]
  BY HeadTailProperties, EmptySeq, LenProperties
<1>2. PingsIn(Tail(s)) = {i \in 1..(Len(s) - 1) : s[i + 1] = "ping"}
  BY <1>1 DEF PingsIn
<1>3. rest = {i \in 2..Len(s) : s[i] = "ping"}
  BY <1>1 DEF PingsIn
<1>4. Cardinality(PingsIn(Tail(s))) = Cardinality(rest)
  <2>1. \A i \in rest : i \in Int /\ i - 1 \in PingsIn(Tail(s))
    BY <1>1, <1>2, <1>3
  <2>2. up \in [rest -> PingsIn(Tail(s))]
    BY <2>1
  <2>3. \A i, j \in rest : up[i] = up[j] => i = j
    BY <2>1
  <2>4. \A k \in PingsIn(Tail(s)) : \E i \in rest : up[i] = k
    <3>1. TAKE k \in PingsIn(Tail(s))
    <3>2. k + 1 \in rest /\ (k + 1) - 1 = k
      BY <1>1, <1>2, <1>3
    <3> QED
      BY <3>2
  <2>5. up \in Bijection(rest, PingsIn(Tail(s)))
    BY <2>2, <2>3, <2>4 DEF Bijection, Injection, Surjection, IsInjective
  <2>6. ExistsBijection(rest, PingsIn(Tail(s)))
    BY <2>5 DEF ExistsBijection
  <2>7. IsFiniteSet(rest)
    BY PingsFinite, FS_Subset
  <2> QED
    BY <2>6, <2>7, FS_Bijection
<1>5. CASE Head(s) = "ping"
  <2>1. 1 \in PingsIn(s)
    BY <1>1, <1>5 DEF PingsIn
  <2>2. Cardinality(rest) = Cardinality(PingsIn(s)) - 1
    BY <2>1, PingsFinite, FS_RemoveElement
  <2> QED
    BY <1>4, <1>5, <2>2
<1>6. CASE Head(s) # "ping"
  <2>0. 1 \notin PingsIn(s)
    BY <1>1, <1>6 DEF PingsIn
  <2>1. rest = PingsIn(s)
    BY <2>0
  <2>2. Cardinality(PingsIn(Tail(s))) = Cardinality(PingsIn(s))
    BY <1>4, <2>1
  <2>3. Cardinality(PingsIn(s)) \in Nat
    BY PingsFinite
  <2> QED
    BY <1>6, <2>2, <2>3
<1> QED
  BY <1>5, <1>6

-----------------------------------------------------------------------------
(* Types                                                                   *)

\* The first state.
LEMMA TypeInit == Init => TypeInv
<1> SUFFICES ASSUME Init PROVE TypeInv
  OBVIOUS
<1>1. backlog \in Seq(Peers) /\ stdin \in Seq(Lines) /\ Len(stdin) = 0
  BY EmptySeq DEF Init
<1>2. TypeOK
  <2>1. /\ withToken \in BOOLEAN /\ listening \in BOOLEAN /\ announced \in BOOLEAN
        /\ stdinOpen \in BOOLEAN /\ stdoutOpen \in BOOLEAN /\ token \in BOOLEAN
    BY DEF Init
  <2>2. /\ met \in 0..MaxPeers /\ lines \in 0..MaxLines /\ queued \in 0..MaxEmits
        /\ pongs \in 0..MaxLines /\ pings \in 0..MaxLines
    BY LifecycleAssumption DEF Init, LifecycleAssumption
  <2>3. /\ platform \in Platforms /\ main \in MainStates
        /\ peer \in Peers \cup {NoPeer} /\ control \in {"none", "reading", "ended"}
        /\ readLoop \in {"none", "running", "ended"}
    BY DEF Init, MainStates
  <2> QED
    BY <1>1, <2>1, <2>2, <2>3 DEF TypeOK
<1>3. LineCounts
  BY <1>1 DEF Init, LineCounts
<1> QED
  BY <1>2, <1>3 DEF TypeInv

\* The steps of main preserve the types.
LEMMA TypeMain ==
  ASSUME TypeInv, MainStep
  PROVE  TypeInv'
<1> USE DEF TypeInv, startVars, controlVars, dataVars, stdio
<1>1. LineCounts'
  BY DEF MainStep, Bind, Announce, SpawnControl, OpenInstance, Accept, Handshake,
         Adopt, CallWait, WaitReturns, LineCounts
<1>2. CASE Bind
  BY <1>1, <1>2 DEF Bind, BindUnix, BindWindows, TypeOK, MainStates
<1>3. CASE Announce \/ OpenInstance
  BY <1>1, <1>3 DEF Announce, OpenInstance, TypeOK, MainStates
<1>4. CASE SpawnControl
  BY <1>1, <1>4 DEF SpawnControl, TypeOK, MainStates
<1>5. CASE Accept
  <2>1. Head(backlog) \in Peers /\ Tail(backlog) \in Seq(Peers)
    BY <1>5, HeadTailProperties DEF Accept, TypeOK
  <2>2. peer' \in Peers \cup {NoPeer} /\ backlog' \in Seq(Peers)
    BY <1>5, <2>1 DEF Accept
  <2> QED
    BY <1>1, <1>5, <2>2 DEF Accept, TypeOK, MainStates
<1>6. CASE Handshake
  BY <1>1, <1>6 DEF Handshake, TypeOK, MainStates
<1>7. CASE Adopt
  <2>1. backlog' \in Seq(Peers)
    BY <1>7, EmptySeq DEF Adopt
  <2> QED
    BY <1>1, <1>7, <2>1 DEF Adopt, DropListener, TypeOK, MainStates
<1>8. CASE CallWait \/ WaitReturns
  BY <1>1, <1>8 DEF CallWait, WaitReturns, TypeOK, MainStates, Gone
<1> QED
  BY <1>2, <1>3, <1>4, <1>5, <1>6, <1>7, <1>8 DEF MainStep

\* So does the control thread: each pong it writes takes a line from stdin.
LEMMA TypeControl ==
  ASSUME TypeInv, ControlStep
  PROVE  TypeInv'
<1> USE DEF TypeInv, startVars, dataVars, stdio
<1>1. CASE ControlReads
  <2>1. /\ Head(stdin) \in Lines /\ Tail(stdin) \in Seq(Lines)
        /\ Len(Tail(stdin)) = Len(stdin) - 1 /\ Len(stdin) \in Nat
        /\ Len(Tail(stdin)) \in Nat
    BY <1>1, HeadTailProperties, LenProperties DEF ControlReads, TypeOK
  <2>2. /\ stdin' = Tail(stdin)
        /\ pongs' \in {pongs, pongs + 1}
        /\ UNCHANGED <<main, startVars, lines, stdio, pings, dataVars>>
        /\ control' \in {"ended", control}
    BY <1>1 DEF ControlReads, TypeOK
  <2>3. token' \in BOOLEAN
    BY <1>1 DEF ControlReads
  <2>4. /\ pongs' + Len(stdin') <= lines' /\ pings' <= lines'
        /\ pongs' \in 0..MaxLines
    BY <2>1, <2>2, LifecycleAssumption DEF TypeOK, LineCounts, LifecycleAssumption
  <2>5. LineCounts'
    BY <2>4 DEF LineCounts
  <2> QED
    BY <2>1, <2>2, <2>3, <2>4, <2>5 DEF TypeOK
<1>2. CASE ControlEnds
  BY <1>2 DEF ControlEnds, TypeOK, LineCounts
<1> QED
  BY <1>1, <1>2 DEF ControlStep

\* So do the parent, the peers and the data plane.
LEMMA TypeEnvironment ==
  ASSUME TypeInv, Environment
  PROVE  TypeInv'
<1> USE DEF TypeInv, startVars, controlVars, dataVars, stdio
<1>1. ASSUME NEW l \in Lines, ParentWrites(l) PROVE TypeInv'
  <2>1. /\ Append(stdin, l) \in Seq(Lines) /\ Len(stdin) \in Nat
        /\ Len(Append(stdin, l)) = Len(stdin) + 1
    BY AppendProperties, LenProperties DEF TypeOK
  <2>2. /\ stdin' = Append(stdin, l) /\ lines' = lines + 1 /\ lines < MaxLines
        /\ pings' \in {pings, pings + 1}
        /\ UNCHANGED <<main, startVars, control, stdio, pongs, token, dataVars>>
    BY <1>1 DEF ParentWrites, TypeOK
  <2>3. /\ pongs' + Len(stdin') <= lines' /\ pings' <= lines'
        /\ lines' \in 0..MaxLines /\ pings' \in 0..MaxLines
    BY <2>1, <2>2, LifecycleAssumption DEF TypeOK, LineCounts, LifecycleAssumption
  <2>4. LineCounts'
    BY <2>3 DEF LineCounts
  <2> QED
    BY <2>1, <2>2, <2>3, <2>4 DEF TypeOK
<1>2. ASSUME NEW p \in Peers, Connect(p) PROVE TypeInv'
  <2>1. Append(backlog, p) \in Seq(Peers)
    BY AppendProperties DEF TypeOK
  <2>2. met' \in 0..MaxPeers /\ listening' \in BOOLEAN /\ backlog' \in Seq(Peers)
    BY <1>2, <2>1, LifecycleAssumption DEF Connect, TypeOK, LifecycleAssumption
  <2> QED
    BY <1>2, <2>2 DEF Connect, TypeOK, LineCounts
<1>3. CASE StartFails \/ PeerLeaves
  BY <1>3 DEF StartFails, DropListener, PeerLeaves, TypeOK, LineCounts, MainStates, Gone
<1>4. CASE Emit \/ WriteFrame \/ ReadLoopEnds
  BY <1>4, LifecycleAssumption
  DEF Emit, WriteFrame, ReadLoopEnds, TypeOK, LineCounts, LifecycleAssumption
<1>5. CASE ParentClosesStdin \/ ParentClosesStdout
  BY <1>5 DEF ParentClosesStdin, ParentClosesStdout, TypeOK, LineCounts
<1> QED
  BY <1>1, <1>2, <1>3, <1>4, <1>5 DEF Environment

\* Every step preserves the types.
LEMMA TypeNext == TypeInv /\ [Next]_vars => TypeInv'
<1> SUFFICES ASSUME TypeInv, [Next]_vars PROVE TypeInv'
  OBVIOUS
<1>1. CASE UNCHANGED vars
  BY <1>1 DEF vars, TypeInv, TypeOK, LineCounts
<1> QED
  BY <1>1, TypeMain, TypeControl, TypeEnvironment DEF Next, Rest

\* Types and line counts hold in every reachable state.
THEOREM TypeInvariance == Spec => []TypeInv
<1> QED
  BY TypeInit, TypeNext, PTL DEF Spec

\* Every variable keeps its type; in particular no more pongs are written than
\* lines were.
THEOREM LifecycleTypes == Spec => []TypeOK
<1>1. TypeInv => TypeOK
  BY DEF TypeInv
<1> QED
  BY <1>1, TypeInvariance, PTL

-----------------------------------------------------------------------------
(* The listener and the peer that is served                                *)

\* bind, accept, failed handshakes and connects keep the listener where the
\* parent expects it.
LEMMA ListenerNext == ListenerInv /\ [Next]_vars => ListenerInv'
<1> SUFFICES ASSUME ListenerInv, [Next]_vars PROVE ListenerInv'
  OBVIOUS
<1>1. CASE UNCHANGED <<platform, main, listening, backlog>>
  BY <1>1 DEF ListenerInv
<1>2. CASE MainStep
  <2> USE DEF ListenerInv, startVars
  <2>1. CASE Bind
    BY <2>1 DEF Bind, BindUnix, BindWindows
  <2>2. CASE Announce \/ SpawnControl \/ OpenInstance
    BY <2>2 DEF Announce, SpawnControl, OpenInstance
  <2>3. CASE Accept \/ Handshake
    BY <2>3 DEF Accept, Handshake
  <2>4. CASE Adopt
    BY <2>4 DEF Adopt, DropListener
  <2>5. CASE CallWait \/ WaitReturns
    BY <2>5 DEF CallWait, WaitReturns
  <2> QED
    BY <1>2, <2>1, <2>2, <2>3, <2>4, <2>5 DEF MainStep
<1>3. CASE ControlStep
  BY <1>1, <1>3 DEF ControlStep, ControlReads, ControlEnds, startVars
<1>4. CASE Environment
  <2>1. CASE StartFails
    BY <2>1 DEF StartFails, DropListener, ListenerInv, Gone
  <2>2. CASE PeerLeaves
    BY <2>2 DEF PeerLeaves, ListenerInv
  <2>3. CASE \/ Emit \/ WriteFrame \/ ReadLoopEnds
             \/ ParentClosesStdin \/ ParentClosesStdout
             \/ \E l \in Lines : ParentWrites(l)
    BY <1>1, <2>3
    DEF Emit, WriteFrame, ReadLoopEnds, ParentClosesStdin, ParentClosesStdout,
        ParentWrites, startVars
  <2>4. ASSUME NEW p \in Peers, Connect(p) PROVE ListenerInv'
    BY <2>4 DEF Connect, ListenerInv
  <2> QED
    BY <1>4, <2>1, <2>2, <2>3, <2>4 DEF Environment
<1>5. CASE UNCHANGED vars
  BY <1>1, <1>5 DEF vars
<1> QED
  BY <1>2, <1>3, <1>4, <1>5 DEF Next, Rest

\* A Unix listener is up whenever the parent, told by $init, may connect; a
\* Windows pipe instance exists only in an accept() that serves nobody else.
THEOREM ParentFindsListener == Spec => []FoundWhenExpected
<1>1. Init => ListenerInv
  BY DEF Init, ListenerInv
<1>2. ListenerInv => FoundWhenExpected
  BY DEF ListenerInv, FoundWhenExpected, Expecting
<1> QED
  BY <1>1, <1>2, ListenerNext, PTL DEF Spec

\* The handshake decides who is adopted, and only main adopts.
LEMMA ServeNext == ServeInv /\ [Next]_vars => ServeInv'
<1> SUFFICES ASSUME ServeInv, [Next]_vars PROVE ServeInv'
  OBVIOUS
<1>1. CASE UNCHANGED <<main, withToken, peer, readLoop, queued>>
  BY <1>1 DEF ServeInv
<1>2. CASE MainStep
  <2> USE DEF ServeInv, startVars, dataVars
  <2>1. CASE Bind \/ Announce \/ SpawnControl \/ OpenInstance
    BY <2>1 DEF Bind, Announce, SpawnControl, OpenInstance
  <2>2. CASE Accept
    BY <2>2 DEF Accept
  <2>3. CASE Handshake
    BY <2>3 DEF Handshake
  <2>4. CASE Adopt
    BY <2>4 DEF Adopt
  <2>5. CASE CallWait \/ WaitReturns
    BY <2>5 DEF CallWait, WaitReturns
  <2> QED
    BY <1>2, <2>1, <2>2, <2>3, <2>4, <2>5 DEF MainStep
<1>3. CASE ControlStep
  BY <1>1, <1>3 DEF ControlStep, ControlReads, ControlEnds, startVars, dataVars
<1>4. CASE Environment
  <2>1. CASE StartFails \/ PeerLeaves
    BY <2>1 DEF StartFails, PeerLeaves, ServeInv, dataVars
  <2>2. CASE Emit \/ WriteFrame \/ ReadLoopEnds
    BY <2>2 DEF Emit, WriteFrame, ReadLoopEnds, ServeInv, startVars
  <2>3. CASE \/ ParentClosesStdin \/ ParentClosesStdout
             \/ \E l \in Lines : ParentWrites(l)
             \/ \E p \in Peers : Connect(p)
    BY <1>1, <2>3
    DEF ParentClosesStdin, ParentClosesStdout, ParentWrites, Connect, startVars,
        dataVars
  <2> QED
    BY <1>4, <2>1, <2>2, <2>3 DEF Environment
<1>5. CASE UNCHANGED vars
  BY <1>1, <1>5 DEF vars
<1> QED
  BY <1>2, <1>3, <1>4, <1>5 DEF Next, Rest

\* With a token configured, read loop and writer work for a peer that proved it
\* and for no other, however many came first.
THEOREM OnlyProvenServed == Spec => []ServesOnlyProven
<1>1. Init => ServeInv
  BY DEF Init, ServeInv
<1>2. TypeOK /\ ServeInv => ServesOnlyProven
  BY DEF TypeOK, ServeInv, ServesOnlyProven, MainStates, Gone
<1> QED
  BY <1>1, <1>2, ServeNext, LifecycleTypes, PTL DEF Spec

-----------------------------------------------------------------------------
(* The heartbeat                                                           *)

\* Steps that leave the control plane alone keep every ping accounted for.
LEMMA PingsUnmoved ==
  ASSUME PingInv, UNCHANGED <<control, stdin, pongs, pings>>,
         main' \in {"bind", "announce", "control"} =>
           main \in {"bind", "announce", "control"}
  PROVE  PingInv'
BY DEF PingInv, ThreadInv, PingsAccounted

\* Every step keeps every ping accounted for.
LEMMA PingsNext == TypeOK /\ PingInv /\ [Next]_vars => PingInv'
<1> SUFFICES ASSUME TypeOK, PingInv, [Next]_vars PROVE PingInv'
  OBVIOUS
<1> USE DEF controlVars, stdio
<1>0. stdin \in Seq(Lines) /\ pings \in Nat /\ pongs \in Nat
  BY LifecycleAssumption DEF TypeOK, LifecycleAssumption
<1>1. CASE MainStep
  <2>1. CASE SpawnControl
    BY <2>1 DEF SpawnControl, PingInv, ThreadInv, PingsAccounted
  <2>2. CASE \/ Bind \/ Announce \/ OpenInstance \/ Accept \/ Handshake \/ Adopt
             \/ CallWait \/ WaitReturns
    BY <2>2, PingsUnmoved
    DEF Bind, Announce, OpenInstance, Accept, Handshake, Adopt, CallWait, WaitReturns
  <2> QED
    BY <1>1, <2>1, <2>2 DEF MainStep
<1>2. CASE ControlReads
  <2>1. /\ main' = main /\ pings' = pings /\ control = "reading"
        /\ stdin' = Tail(stdin) /\ stdin # <<>>
    BY <1>2 DEF ControlReads
  <2>2. ThreadInv'
    BY <2>1 DEF PingInv, ThreadInv
  <2>3. ASSUME control' # "ended"
        PROVE  pings' = pongs' + Cardinality(PingsIn(stdin'))
    <3>1. pings = pongs + Cardinality(PingsIn(stdin))
      BY <2>1 DEF PingInv, PingsAccounted
    <3>2. Cardinality(PingsIn(stdin')) =
            Cardinality(PingsIn(stdin)) - (IF Head(stdin) = "ping" THEN 1 ELSE 0)
      BY <1>0, <2>1, PingsTail
    <3>3. pongs' = pongs + (IF Head(stdin) = "ping" THEN 1 ELSE 0)
      BY <1>2, <2>3 DEF ControlReads
    <3>4. Cardinality(PingsIn(stdin)) \in Nat
      BY <1>0, PingsFinite
    <3> QED
      BY <1>0, <2>1, <3>1, <3>2, <3>3, <3>4
  <2> QED
    BY <2>2, <2>3 DEF PingInv, PingsAccounted
<1>3. CASE ControlEnds
  BY <1>3 DEF ControlEnds, PingInv, ThreadInv, PingsAccounted
<1>4. ASSUME NEW l \in Lines, ParentWrites(l) PROVE PingInv'
  <2>1. /\ UNCHANGED <<main, control, pongs>> /\ stdin' = Append(stdin, l)
        /\ pings' = pings + (IF l = "ping" THEN 1 ELSE 0)
    BY <1>4 DEF ParentWrites
  <2>2. Cardinality(PingsIn(stdin')) =
          Cardinality(PingsIn(stdin)) + (IF l = "ping" THEN 1 ELSE 0)
    BY <1>0, <2>1, PingsAppend
  <2>3. Cardinality(PingsIn(stdin)) \in Nat
    BY <1>0, PingsFinite
  <2>4. PingsAccounted'
    BY <1>0, <2>1, <2>2, <2>3 DEF PingInv, PingsAccounted
  <2> QED
    BY <2>1, <2>4 DEF PingInv, ThreadInv
<1>5. CASE \/ StartFails \/ PeerLeaves \/ Emit \/ WriteFrame \/ ReadLoopEnds
           \/ ParentClosesStdin \/ ParentClosesStdout
           \/ \E p \in Peers : Connect(p)
  BY <1>5, PingsUnmoved
  DEF StartFails, PeerLeaves, Emit, WriteFrame, ReadLoopEnds, ParentClosesStdin,
      ParentClosesStdout, Connect
<1>6. CASE UNCHANGED vars
  BY <1>6, PingsUnmoved DEF vars
<1> QED
  BY <1>1, <1>2, <1>3, <1>4, <1>5, <1>6 DEF Next, ControlStep, Environment, Rest

\* While run_control_reader runs, a $ping is answered or still to be read,
\* whatever main does, and no $ping is answered twice.
THEOREM EveryPingAccounted == Spec => []PingsAccounted
<1>1. Init => PingInv
  <2> SUFFICES ASSUME Init PROVE PingInv
    OBVIOUS
  <2>1. PingsIn(stdin) = {}
    BY DEF Init, PingsIn
  <2>2. Cardinality(PingsIn(stdin)) = 0
    BY <2>1, FS_EmptySet
  <2> QED
    BY <2>2 DEF Init, PingInv, ThreadInv, PingsAccounted
<1>2. PingInv => PingsAccounted
  BY DEF PingInv
<1>3. PingInv /\ TypeOK /\ [Next]_vars => PingInv'
  BY PingsNext
<1> QED
  BY <1>1, <1>2, <1>3, LifecycleTypes, PTL DEF Spec
=============================================================================
