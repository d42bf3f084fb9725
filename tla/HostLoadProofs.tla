--------------------------- MODULE HostLoadProofs ----------------------------
(***************************************************************************)
(* For any program, design, memory map and width: the handshake between    *)
(* the coroutine, the transport and the port (IInv), and with it where the *)
(* bytes of the image are while they go through the native stores, the     *)
(* port and the memory (LInv).                                             *)
(***************************************************************************)
EXTENDS HostLoad, SequenceTheorems, WellFoundedInduction, TLAPS

AccessFields == {"state", "write", "address", "data", "remaining", "offset", "size", "result", "status"}
JobFields    == {"kind", "address", "bytes", "got"}

Shape ==
  /\ DOMAIN access = AccessFields /\ DOMAIN job = JobFields
  /\ request_pending_ \in BOOLEAN /\ request_exposed_ \in BOOLEAN
  /\ request_accepted_ \in BOOLEAN /\ waiting \in BOOLEAN

\* A request is shown, then taken by the port, then answered.
Posted   == request_pending_ /\ ~ request_accepted_ => access.state = "Idle" /\ served = 0
Taken    == request_pending_ /\ request_accepted_ =>
              /\ request_exposed_ /\ served = 1 /\ access.state # "Idle"
              /\ access.write = request_.write /\ access.data = request_.data
Returned == ~ request_pending_ =>
              /\ ~ request_exposed_ /\ ~ request_accepted_ /\ access.state = "Idle"
              /\ served \in {0, 1} /\ (waiting => served = 1)

\* A flit is at the port only while the port waits for one.
FlitExpected ==
  channel # NoFlit => access.state \in {"ReadPending", "WriteAwaitDBID", "WriteAwaitComp"}

\* transact is called for a chunk or for the boot address, one at a time.
OneCaller ==
  /\ request_pending_ => waiting
  /\ job.kind = "none" => job = NoJob
  /\ waiting => job.kind # "none" \/ phase = "publish"

IInv == Shape /\ Posted /\ Taken /\ Returned /\ FlitExpected /\ OneCaller

------------------------------------------------------------------------------
LEMMA InitIInv == LoadInit => IInv
<1> SUFFICES ASSUME LoadInit PROVE IInv
  OBVIOUS
<1>1. DOMAIN access = AccessFields /\ access.state = "Idle" /\ channel = NoFlit
  BY DEF LoadInit, PortInit, AccessFields
<1>2. DOMAIN job = JobFields /\ job = NoJob
  BY DEF LoadInit, NoJob, JobFields
<1>3. /\ request_pending_ = FALSE /\ request_exposed_ = FALSE /\ request_accepted_ = FALSE
      /\ waiting = FALSE /\ served = 0
  BY DEF LoadInit
<1> QED
  BY <1>1, <1>2, <1>3 DEF IInv, Shape, Posted, Taken, Returned, FlitExpected, OneCaller

\* The strengthening says it all.
LEMMA IInvAnsweredOnce == IInv => AnsweredOnce
BY DEF IInv, Shape, Posted, Taken, Returned, AnsweredOnce

------------------------------------------------------------------------------
(* The edge: what the port does, then what the tick concludes.             *)

\* The port leaves Idle only for a request that is driven, and returns only
\* when its answer is taken.
LEMMA PortMoves ==
  ASSUME IInv, NEW valid \in BOOLEAN, NEW ready \in BOOLEAN, AccessEdge(valid, request_, ready)
  PROVE  /\ DOMAIN access' = AccessFields
         /\ access.state = "Idle" /\ ~ valid => access' = access
         /\ access.state = "Idle" /\ valid =>
              access'.state # "Idle" /\ access'.write = request_.write /\ access'.data = request_.data
         /\ access.state = "Response" /\ ready => access'.state = "Idle"
         /\ access.state \notin {"Idle", "Response"} => access'.state # "Idle"
         /\ access.state # "Idle" => access'.write = access.write /\ access'.data = access.data
         /\ channel' # NoFlit => access'.state \in {"ReadPending", "WriteAwaitDBID", "WriteAwaitComp"}
<1> USE DEF IInv, Shape, FlitExpected, AccessFields
<1>1. CASE Accept(valid, request_)
  BY <1>1 DEF Accept
<1>2. CASE Issue
  BY <1>2 DEF Issue
<1>3. CASE SendData
  BY <1>3 DEF SendData
<1>4. CASE Receive
  BY <1>4 DEF Receive, Advanced
<1>5. CASE Answer(ready)
  BY <1>5 DEF Answer
<1>6. CASE Wait(valid, ready)
  BY <1>6 DEF Wait
<1> QED BY <1>1, <1>2, <1>3, <1>4, <1>5, <1>6 DEF AccessEdge

\* A clock edge of the port and the transport.
LEMMA EdgeStep == IInv /\ Edge => IInv'
<1> SUFFICES ASSUME IInv, Edge PROVE IInv'
  OBVIOUS
<1>1. /\ request_valid \in BOOLEAN /\ response_ready \in BOOLEAN
      /\ AccessEdge(request_valid, request_, response_ready)
  BY DEF Edge, IInv, Shape, request_valid, response_ready
<1>2. UNCHANGED <<request_, waiting, job, phase>>
  BY DEF Edge, shellVars, hostVars
<1> DEFINE accepted == request_pending_ /\ request_exposed_
                         /\ (request_accepted_ \/ access.state = "Idle")
           answered == accepted /\ access.state = "Response"
<1>3. /\ request_pending_' = (request_pending_ /\ ~ answered)
      /\ request_exposed_' = (request_pending_ /\ ~ answered)
      /\ request_accepted_' = (accepted /\ ~ answered)
      /\ served' = IF access.state = "Idle" /\ request_valid THEN served + 1 ELSE served
  BY DEF Edge, Tick
<1>4. /\ DOMAIN access' = AccessFields
      /\ access.state = "Idle" /\ ~ request_valid => access' = access
      /\ access.state = "Idle" /\ request_valid =>
           access'.state # "Idle" /\ access'.write = request_.write /\ access'.data = request_.data
      /\ access.state = "Response" /\ response_ready => access'.state = "Idle"
      /\ access.state \notin {"Idle", "Response"} => access'.state # "Idle"
      /\ access.state # "Idle" => access'.write = access.write /\ access'.data = access.data
      /\ channel' # NoFlit => access'.state \in {"ReadPending", "WriteAwaitDBID", "WriteAwaitComp"}
  BY <1>1, PortMoves
<1>5. CASE ~ request_pending_
  BY <1>2, <1>3, <1>4, <1>5
     DEF IInv, Shape, Posted, Taken, Returned, FlitExpected, OneCaller, request_valid, NoJob, NoFlit
<1>6. CASE request_pending_ /\ ~ request_accepted_
  <2>1. access.state = "Idle" /\ served = 0 /\ waiting
    BY <1>6 DEF IInv, Posted, OneCaller
  <2>2. request_pending_' = TRUE /\ request_exposed_' = TRUE
        /\ request_accepted_' = request_exposed_
    BY <1>3, <1>6, <2>1 DEF IInv, Shape
  <2>3. CASE request_exposed_
    <3>1. /\ access'.state # "Idle" /\ served' = 1
          /\ access'.write = request_'.write /\ access'.data = request_'.data
      BY <1>2, <1>3, <1>4, <1>6, <2>1, <2>3 DEF request_valid
    <3> QED
      BY <1>2, <1>4, <2>2, <2>3, <3>1
         DEF IInv, Shape, Posted, Taken, Returned, FlitExpected, OneCaller, NoJob, NoFlit
  <2>4. CASE ~ request_exposed_
    <3>1. access' = access /\ served' = 0
      BY <1>3, <1>4, <2>1, <2>4 DEF request_valid
    <3> QED
      BY <1>2, <1>4, <2>1, <2>2, <2>4, <3>1
         DEF IInv, Shape, Posted, Taken, Returned, FlitExpected, OneCaller, NoJob, NoFlit
  <2> QED BY <2>3, <2>4
<1>7. CASE request_pending_ /\ request_accepted_
  BY <1>2, <1>3, <1>4, <1>7
     DEF IInv, Shape, Posted, Taken, Returned, FlitExpected, OneCaller, request_valid, response_ready,
         NoJob, NoFlit
<1> QED BY <1>5, <1>6, <1>7 DEF IInv, Shape

------------------------------------------------------------------------------
(* The other steps.                                                        *)

\* A step that leaves the request, the port and FESVR's call alone.
LEMMA Frame ==
  ASSUME IInv, UNCHANGED <<access, channel, requestVars, waiting, job, phase>>
  PROVE  IInv'
BY DEF requestVars, IInv, Shape, Posted, Taken, Returned, FlitExpected, OneCaller, NoJob, NoFlit

\* The memory only presents a flit the port waits for.
LEMMA MemoryKeeps == IInv /\ Memories => IInv'
<1> SUFFICES ASSUME IInv, Memories PROVE IInv'
  OBVIOUS
<1>1. UNCHANGED <<access, requestVars, waiting, job, phase>>
  BY DEF Memories, hostVars, MemoryStep, MemoryReads, MemoryGrants, MemoryWrites, MemoryCompletes
<1>2. channel' # NoFlit =>
        access.state \in {"ReadPending", "WriteAwaitDBID", "WriteAwaitComp"}
  BY DEF Memories, MemoryStep, MemoryReads, MemoryGrants, MemoryWrites, MemoryCompletes,
         IInv, FlitExpected
<1> QED
  BY <1>1, <1>2
     DEF requestVars, IInv, Shape, Posted, Taken, Returned, FlitExpected, OneCaller, NoJob, NoFlit

\* An exception while nothing is pending leaves nothing behind.
LEMMA ThrowKeeps ==
  ASSUME IInv, ~ request_pending_, Throws, UNCHANGED <<access, channel>>
  PROVE  IInv'
<1>1. /\ waiting' = FALSE /\ job' = NoJob
      /\ UNCHANGED <<request_, request_pending_, request_exposed_, request_accepted_, served>>
  BY DEF Throws
<1>2. DOMAIN job' = JobFields
  BY <1>1 DEF NoJob, JobFields
<1> QED
  BY <1>1, <1>2 DEF IInv, Shape, Posted, Taken, Returned, FlitExpected, OneCaller, NoJob, NoFlit

\* transact begins, for a caller, while nothing is pending.
LEMMA PostKeeps ==
  ASSUME IInv, ~ request_pending_, NEW w, NEW a, NEW d, NEW l, Post(w, a, d, l),
         UNCHANGED <<access, channel, job>>,
         job.kind # "none" \/ phase' = "publish", phase' = phase \/ phase' = "publish"
  PROVE  IInv'
<1>1. /\ request_pending_' = TRUE /\ request_exposed_' = FALSE /\ request_accepted_' = FALSE
      /\ waiting' = TRUE /\ served' = 0
  BY DEF Post
<1> QED
  BY <1>1 DEF IInv, Shape, Posted, Taken, Returned, FlitExpected, OneCaller, NoJob, NoFlit

\* FESVR goes on: nothing is pending, and it moves to another chunk or stage
\* without waiting.
LEMMA HostKeeps ==
  ASSUME IInv, ~ request_pending_, UNCHANGED <<access, channel, requestVars>>,
         waiting' = FALSE, DOMAIN job' = JobFields, job'.kind = "none" => job' = NoJob
  PROVE  IInv'
BY DEF requestVars, IInv, Shape, Posted, Taken, Returned, FlitExpected, OneCaller, NoJob, NoFlit

\* FESVR runs only while its request, if any, has been answered.
LEMMA HostIdle ==
  ASSUME IInv, ~ waiting
  PROVE  ~ request_pending_
BY DEF IInv, OneCaller

\* FESVR asks for a chunk, or is refused.
LEMMA ChunkStep == IInv /\ StartChunk => IInv'
<1> SUFFICES ASSUME IInv, StartChunk PROVE IInv'
  OBVIOUS
<1>1. job = NoJob /\ phase = "load" /\ UNCHANGED <<access, channel>>
  BY DEF StartChunk, portVars
<1>2. ~ waiting /\ ~ request_pending_
  BY <1>1 DEF IInv, Shape, OneCaller, NoJob
<1>3. PICK op \in Ops :
        IF Reserved(op.kind, op.address, op.length) THEN Throws
        ELSE /\ job' = [kind |-> op.kind, address |-> op.address,
                        bytes |-> Payload(op, ops + 1), got |-> <<>>]
             /\ UNCHANGED <<phase, waiting, requestVars>>
  BY DEF StartChunk
<1>4. CASE Throws
  BY <1>1, <1>2, <1>4, ThrowKeeps
<1>5. CASE /\ job' = [kind |-> op.kind, address |-> op.address,
                      bytes |-> Payload(op, ops + 1), got |-> <<>>]
           /\ UNCHANGED <<phase, waiting, requestVars>>
  <2>1. op.kind # "none"
    BY LoadAssumption
  <2>2. DOMAIN job' = JobFields /\ job'.kind # "none" /\ waiting' = FALSE
    BY <1>2, <1>5, <2>1 DEF IInv, Shape, JobFields
  <2> QED BY <1>1, <1>2, <1>5, <2>2, HostKeeps
<1> QED BY <1>3, <1>4, <1>5

\* A chunk goes on, natively or by a request.
LEMMA SegmentStep == IInv /\ (NativeSegment \/ PostSegment \/ SegmentAnswered) => IInv'
<1> SUFFICES ASSUME IInv, NativeSegment \/ PostSegment \/ SegmentAnswered PROVE IInv'
  OBVIOUS
<1>1. job # NoJob /\ UNCHANGED <<access, channel, phase>>
  BY DEF NativeSegment, PostSegment, SegmentAnswered, Working, portVars
<1>2. job.kind # "none"
  BY <1>1 DEF IInv, OneCaller
<1>3. ASSUME NEW n, NEW read, job' = Rest(n, read)
      PROVE  DOMAIN job' = JobFields /\ job'.kind # "none"
  BY <1>2, <1>3 DEF Rest, IInv, Shape, JobFields
<1>4. CASE NativeSegment
  <2>1. ~ waiting /\ waiting' = waiting /\ UNCHANGED requestVars
    BY <1>4 DEF NativeSegment, Working
  <2>2. \E n, read : job' = Rest(n, read)
    BY <1>4 DEF NativeSegment
  <2>3. DOMAIN job' = JobFields /\ job'.kind # "none"
    BY <1>3, <2>2
  <2>4. waiting' = FALSE
    BY <2>1 DEF IInv, Shape
  <2> QED BY <1>1, <2>1, <2>3, <2>4, HostIdle, HostKeeps
<1>5. CASE PostSegment
  <2>1. ~ waiting /\ job' = job
    BY <1>5 DEF PostSegment, Working
  <2>2. \E w, a, d, l : Post(w, a, d, l)
    BY <1>5 DEF PostSegment
  <2> QED BY <1>1, <1>2, <2>1, <2>2, HostIdle, PostKeeps
<1>6. CASE SegmentAnswered
  <2>1. ~ request_pending_ /\ waiting' = FALSE /\ UNCHANGED requestVars
    BY <1>6 DEF SegmentAnswered, Answered
  <2>2. \E n, read : job' = Rest(n, read)
    BY <1>6 DEF SegmentAnswered
  <2>3. DOMAIN job' = JobFields /\ job'.kind # "none"
    BY <1>3, <2>2
  <2> QED BY <1>1, <2>1, <2>3, HostKeeps
<1> QED BY <1>4, <1>5, <1>6

\* The end of a chunk, and FESVR's loop.
LEMMA LoopStep ==
  IInv /\ (ChunkDone \/ PollToHost \/ Idle \/ ClearToHost \/ Handle \/ Published) => IInv'
<1> SUFFICES ASSUME IInv, ChunkDone \/ PollToHost \/ Idle \/ ClearToHost \/ Handle \/ Published
             PROVE  IInv'
  OBVIOUS
<1>1. UNCHANGED <<access, channel, requestVars>>
  BY DEF ChunkDone, PollToHost, Idle, ClearToHost, Handle, Published, portVars
<1>2. ~ request_pending_ /\ waiting' = FALSE
  <2>1. CASE Published
    BY <2>1 DEF Published, Answered
  <2>2. CASE PollToHost
    BY <2>2 DEF PollToHost, IInv, Shape, OneCaller, NoJob
  <2>3. CASE ChunkDone \/ Idle \/ ClearToHost \/ Handle
    BY <2>3, HostIdle DEF ChunkDone, Idle, ClearToHost, Handle, Finished, IInv, Shape
  <2> QED BY <2>1, <2>2, <2>3
<1>3. DOMAIN job' = JobFields /\ (job'.kind = "none" => job' = NoJob)
  <2>1. CASE Published
    BY <2>1 DEF Published, IInv, Shape, OneCaller, NoJob
  <2>2. CASE PollToHost \/ ClearToHost
    BY <2>2 DEF PollToHost, ClearToHost, JobFields
  <2>3. CASE ChunkDone \/ Idle \/ Handle
    BY <2>3 DEF ChunkDone, Idle, Handle, NoJob, JobFields
  <2> QED BY <2>1, <2>2, <2>3
<1> QED BY <1>1, <1>2, <1>3, HostKeeps

\* FESVR posts the boot address.
LEMMA PublishStep == IInv /\ Publish => IInv'
<1> SUFFICES ASSUME IInv, Publish PROVE IInv'
  OBVIOUS
<1>1. job = NoJob /\ phase = "load" /\ UNCHANGED <<access, channel>>
  BY DEF Publish, portVars
<1>2. ~ request_pending_
  BY <1>1 DEF IInv, OneCaller, NoJob
<1>3. CASE Throws
  BY <1>1, <1>2, <1>3, ThrowKeeps
<1>4. CASE phase' = "publish" /\ job' = job /\ Post(TRUE, BootRegister, BootWord, MaxBytes)
  BY <1>1, <1>2, <1>4, PostKeeps
<1> QED BY <1>3, <1>4 DEF Publish

\* Every step of the host.
LEMMA HostKeepsIInv == IInv /\ HostStep => IInv'
<1> SUFFICES ASSUME IInv, HostStep PROVE IInv'
  OBVIOUS
<1>1. CASE SwitchToTarget
  <2>1. UNCHANGED <<access, channel, requestVars, waiting, job, phase>>
    BY <1>1 DEF SwitchToTarget, portVars, hostVars
  <2> QED BY <2>1, Frame
<1>2. CASE TransactFails
  BY <1>2, ThrowKeeps DEF TransactFails, Answered, portVars
<1> QED
  BY <1>1, <1>2, ChunkStep, SegmentStep, LoopStep, PublishStep DEF HostStep

------------------------------------------------------------------------------
LEMMA NextIInv == IInv /\ [Next]_vars => IInv'
<1> SUFFICES ASSUME IInv, [Next]_vars PROVE IInv'
  OBVIOUS
<1>1. CASE ResetEdge \/ Register \/ ReleaseReset \/ StartupFails \/ HartStep \/ UNCHANGED vars
  <2>1. UNCHANGED <<access, channel, requestVars, waiting, job, phase>>
    BY <1>1 DEF ResetEdge, Register, ReleaseReset, StartupFails, HartStep, vars, portVars, hostVars
  <2> QED BY <2>1, Frame
<1>2. CASE Construct
  <2>1. UNCHANGED <<access, channel, requestVars, waiting, job>> /\ phase' = "load" /\ phase = "off"
    BY <1>2 DEF Construct, portVars
  <2> QED
    BY <2>1 DEF requestVars, IInv, Shape, Posted, Taken, Returned, FlitExpected, OneCaller, NoJob, NoFlit
<1>3. CASE Edge \/ HostStep \/ Memories
  BY <1>3, EdgeStep, HostKeepsIInv, MemoryKeeps
<1> QED BY <1>1, <1>2, <1>3 DEF Next

\* For any program, memory map and width, each request of the host is carried
\* out once, by a port that works on nothing else, and transact returns with
\* its answer.
THEOREM HostAnsweredOnce == Spec => []AnsweredOnce
<1>1. LoadInit => IInv
  BY InitIInv
<1>2. IInv /\ [Next]_vars => IInv'
  BY NextIInv
<1>3. IInv => AnsweredOnce
  BY IInvAnsweredOnce
<1> QED BY <1>1, <1>2, <1>3, PTL DEF Spec

------------------------------------------------------------------------------
(* Numbers and sequences.                                                  *)

\* The greater and the lesser of two numbers.
LEMMA MaxOfTwo ==
  ASSUME NEW a \in Int, NEW b \in Int
  PROVE  Max({a, b}) = IF a >= b THEN a ELSE b
BY DEF Max

LEMMA MinOfTwo ==
  ASSUME NEW a \in Int, NEW b \in Int
  PROVE  Min({a, b}) = IF a <= b THEN a ELSE b
BY DEF Min

\* A set of naturals has a least element.
LEMMA LeastElement ==
  ASSUME NEW S, S \subseteq Nat, S # {}
  PROVE  Min(S) \in S /\ \A y \in S : Min(S) <= y
<1> DEFINE below == {p \in Nat \X Nat : p[1] < p[2]}
<1>1. IsWellFoundedOn(below, Nat)
  BY NatLessThanWellFounded DEF OpToRel
<1>2. PICK x \in S : \A y \in S : <<y, x>> \notin below
  <2> HIDE DEF below
  <2> QED BY <1>1, WFMin
<1>3. \A y \in S : x <= y
  <2> SUFFICES ASSUME NEW y \in S, y < x PROVE FALSE
    OBVIOUS
  <2>1. <<y, x>> \in below
    OBVIOUS
  <2> QED BY <1>2, <2>1
<1> QED BY <1>3 DEF Min

\* And a bounded one has a greatest.
LEMMA GreatestElement ==
  ASSUME NEW m \in Nat, NEW S, S \subseteq 0 .. m, S # {}
  PROVE  Max(S) \in S
<1> DEFINE below == {m - x : x \in S}
<1>1. below \subseteq Nat /\ below # {}
  <2>1. \A x \in S : m - x \in Nat
    OBVIOUS
  <2> QED BY <2>1
<1>2. PICK k \in below : \A y \in below : k <= y
  <2> HIDE DEF below
  <2> QED BY <1>1, LeastElement
<1>3. PICK x \in S : k = m - x
  BY <1>2
<1>4. \A y \in S : x >= y
  BY <1>2, <1>3
<1> QED BY <1>4 DEF Max

\* A tuple that is given by its elements.
LEMMA TupleLen ==
  ASSUME NEW n \in Nat, NEW S, NEW f \in [1 .. n -> S]
  PROVE  f \in Seq(S) /\ Len(f) = n
BY SeqDef, LenProperties

\* What is left of a sequence, and what one more piece makes of it.
LEMMA SeqParts ==
  ASSUME NEW S, NEW s \in Seq(S), NEW n \in 1 .. Len(s)
  PROVE  /\ SubSeq(s, n + 1, Len(s)) \in Seq(S)
         /\ Len(SubSeq(s, n + 1, Len(s))) = Len(s) - n
         /\ \A i \in 1 .. Len(s) - n : SubSeq(s, n + 1, Len(s))[i] = s[n + i]
BY SubSeqProperties

\* A sequence and one behind it.
LEMMA SeqJoin ==
  ASSUME NEW S, NEW s \in Seq(S), NEW T, NEW t \in Seq(T)
  PROVE  /\ s \o t \in Seq(S \cup T) /\ Len(s \o t) = Len(s) + Len(t)
         /\ \A i \in 1 .. Len(s) : (s \o t)[i] = s[i]
         /\ \A i \in Len(s) + 1 .. Len(s) + Len(t) : (s \o t)[i] = t[i - Len(s)]
<1>1. s \in Seq(S \cup T) /\ t \in Seq(S \cup T)
  OBVIOUS
<1> QED BY <1>1, ConcatProperties

------------------------------------------------------------------------------
(* The byte stores.                                                        *)

\* An offset is the byte offset % PageSize of page PageOf(offset).
LEMMA PageParts ==
  ASSUME NEW o \in Nat
  PROVE  /\ PageOf(o) \in Nat /\ o % PageSize \in InPage
         /\ PageOf(o) * PageSize + (o % PageSize) = o
<1>1. o = PageSize * (o \div PageSize) + (o % PageSize)
  BY StoreAssumption
<1>2. o \div PageSize \in Int /\ o % PageSize \in 0 .. PageSize - 1
  BY StoreAssumption
<1>3. o \div PageSize >= 0
  <2> SUFFICES ASSUME NEW d \in Int, d = o \div PageSize, d < 0 PROVE FALSE
    BY <1>2
  <2>1. d * PageSize <= - PageSize
    BY StoreAssumption
  <2> QED BY StoreAssumption, <1>1, <1>2, <2>1
<1> QED BY StoreAssumption, <1>1, <1>2, <1>3 DEF PageOf, InPage

\* A page ends before the next one begins.
LEMMA PageOrder ==
  ASSUME NEW p \in Nat, NEW q \in Nat, p < q
  PROVE  (p + 1) * PageSize <= q * PageSize
BY StoreAssumption

\* The bytes of a page are on it.
LEMMA PageIs ==
  ASSUME NEW p \in Nat, NEW b \in InPage
  PROVE  PageOf(p * PageSize + b) = p /\ (p * PageSize + b) % PageSize = b
         /\ p * PageSize + b \in Nat
BY StoreAssumption DEF PageOf, InPage

\* What a write leaves at an offset.
LEMMA WriteBytesAt ==
  ASSUME NEW pages, NEW offset \in Nat, NEW bytes, NEW n \in Nat, Len(bytes) = n, NEW o \in Nat
  PROVE  ByteAt(WriteBytes(pages, offset, bytes), o) =
           IF o \in offset .. offset + n - 1 THEN bytes[o - offset + 1] ELSE ByteAt(pages, o)
<1> DEFINE range   == offset .. offset + n - 1
           touched == {PageOf(x) : x \in range}
           byte(p, b) == LET x == p * PageSize + b
                         IN IF x \in range THEN bytes[x - offset + 1] ELSE ByteAt(pages, x)
           after   == [p \in DOMAIN pages \cup touched |-> [b \in InPage |-> byte(p, b)]]
<1>1. WriteBytes(pages, offset, bytes) = after
  BY DEF WriteBytes
<1>2. /\ PageOf(o) \in Nat /\ o % PageSize \in InPage
      /\ PageOf(o) * PageSize + (o % PageSize) = o
  BY PageParts
<1>3. CASE PageOf(o) \in DOMAIN after
  <2>1. ByteAt(after, o) = byte(PageOf(o), o % PageSize)
    BY <1>2, <1>3 DEF ByteAt
  <2> QED BY <1>1, <1>2, <2>1
<1>4. CASE PageOf(o) \notin DOMAIN after
  <2>1. o \notin range /\ PageOf(o) \notin DOMAIN pages
    BY <1>4
  <2>2. ByteAt(after, o) = 0 /\ ByteAt(pages, o) = 0
    BY <1>4, <2>1 DEF ByteAt
  <2> QED BY <1>1, <2>1, <2>2
<1> QED BY <1>3, <1>4

\* What a clear leaves at an offset.
LEMMA ZeroBytesAt ==
  ASSUME NEW pages, NEW offset \in Nat, NEW n \in Nat, NEW o \in Nat
  PROVE  ByteAt(ZeroBytes(pages, offset, n), o) =
           IF o \in offset .. offset + n - 1 THEN 0 ELSE ByteAt(pages, o)
<1>1. CASE n = 0
  BY <1>1 DEF ZeroBytes
<1>2. CASE n # 0
  <2> DEFINE last   == offset + n - 1
             p      == PageOf(o)
             b      == o % PageSize
             inside(q) == q \in PageOf(offset) .. PageOf(last)
             whole(q)  == inside(q) /\ ZeroBegin(q, offset) = 0 /\ ZeroEnd(q, last) = PageSize
             after  == [q \in {x \in DOMAIN pages : ~ whole(x)} |->
                          [i \in InPage |->
                             IF inside(q) /\ ZeroBegin(q, offset) <= i /\ i < ZeroEnd(q, last)
                             THEN 0 ELSE pages[q][i]]]
  <2>1. ZeroBytes(pages, offset, n) = after
    BY <1>2 DEF ZeroBytes
  <2>2. p \in Nat /\ b \in InPage /\ p * PageSize + b = o
    BY PageParts
  <2>3. /\ PageOf(offset) \in Nat /\ offset % PageSize \in InPage
        /\ PageOf(offset) * PageSize + (offset % PageSize) = offset
    BY PageParts
  <2>4. /\ last \in Nat /\ PageOf(last) \in Nat /\ last % PageSize \in InPage
        /\ PageOf(last) * PageSize + (last % PageSize) = last
    BY <1>2, PageParts
  <2> HIDE DEF last, p, b
  <2>5. ZeroBegin(p, offset) = IF offset >= p * PageSize THEN offset - p * PageSize ELSE 0
    BY <2>2, MaxOfTwo, StoreAssumption DEF ZeroBegin
  <2>6. inside(p) /\ ZeroBegin(p, offset) <= b /\ b < ZeroEnd(p, last) <=> offset <= o /\ o <= last
    <3>1. CASE p < PageOf(offset)
      BY <2>2, <2>3, <2>4, <3>1, PageOrder, StoreAssumption DEF InPage
    <3>2. CASE p > PageOf(last)
      BY <2>2, <2>3, <2>4, <3>2, PageOrder, StoreAssumption DEF InPage
    <3>3. CASE inside(p)
      <4>1. ZeroBegin(p, offset) <= b <=> offset <= o
        BY <2>2, <2>3, <2>5, StoreAssumption DEF InPage
      <4>2. b < ZeroEnd(p, last) <=> o <= last
        <5>1. CASE p = PageOf(last)
          BY <2>2, <2>4, <5>1, StoreAssumption DEF InPage, ZeroEnd
        <5>2. CASE p < PageOf(last)
          BY <2>2, <2>4, <5>2, PageOrder, StoreAssumption DEF InPage, ZeroEnd
        <5> QED BY <2>2, <2>4, <3>3, <5>1, <5>2
      <4> QED BY <3>3, <4>1, <4>2
    <3> QED BY <2>2, <2>3, <2>4, <3>1, <3>2, <3>3
  <2>7. CASE p \notin DOMAIN pages
    BY <2>1, <2>7 DEF ByteAt, p
  <2>8. CASE p \in DOMAIN pages /\ whole(p)
    <3>1. offset <= o /\ o <= last
      BY <2>2, <2>6, <2>8, StoreAssumption DEF InPage
    <3>2. ByteAt(after, o) = 0
      BY <2>8 DEF ByteAt, p
    <3> QED BY <2>1, <2>4, <3>1, <3>2 DEF last
  <2>9. CASE p \in DOMAIN pages /\ ~ whole(p)
    <3>1. ByteAt(after, o) = IF inside(p) /\ ZeroBegin(p, offset) <= b /\ b < ZeroEnd(p, last)
                             THEN 0 ELSE pages[p][b]
      BY <2>2, <2>9 DEF ByteAt, p, b
    <3>2. ByteAt(pages, o) = pages[p][b]
      BY <2>9 DEF ByteAt, p, b
    <3> QED BY <2>1, <2>4, <2>6, <3>1, <3>2 DEF last
  <2> QED BY <2>7, <2>8, <2>9
<1> QED BY <1>1, <1>2

\* What a write of the enabled bytes of a beat leaves at an offset.
LEMMA WriteBeatAt ==
  ASSUME NEW pages, NEW offset \in Nat, NEW n \in Nat, (offset % BeatBytes) + n <= BeatBytes,
         NEW data, DOMAIN data = offset .. offset + n - 1, NEW o \in Nat
  PROVE  ByteAt(WriteBeat(pages, offset, data), o) =
           IF o \in offset .. offset + n - 1 THEN data[o] ELSE ByteAt(pages, o)
<1> DEFINE beat  == offset - (offset % BeatBytes)
           byte(x) == IF x \in DOMAIN data THEN data[x] ELSE ByteAt(pages, x)
           bytes == [i \in 1 .. BeatBytes |-> byte(beat + i - 1)]
<1>1. offset = BeatBytes * (offset \div BeatBytes) + (offset % BeatBytes)
      /\ offset % BeatBytes \in 0 .. BeatBytes - 1
  BY StoreAssumption
<1>2. beat \in Nat /\ beat <= offset /\ offset + n <= beat + BeatBytes
  <2>1. offset % BeatBytes <= offset
    BY StoreAssumption
  <2>2. \A r \in Nat : r <= offset /\ r + n <= BeatBytes =>
          offset - r \in Nat /\ offset - r <= offset /\ offset + n <= (offset - r) + BeatBytes
    BY StoreAssumption
  <2> QED BY <1>1, <2>1, <2>2, StoreAssumption
<1>3. WriteBeat(pages, offset, data) = WriteBytes(pages, beat, bytes)
  BY DEF WriteBeat
<1>4. Len(bytes) = BeatBytes
  <2>1. bytes \in [1 .. BeatBytes -> {byte(beat + i - 1) : i \in 1 .. BeatBytes}]
    OBVIOUS
  <2> QED BY <2>1, TupleLen, StoreAssumption
<1>5. ByteAt(WriteBytes(pages, beat, bytes), o) =
        IF o \in beat .. beat + BeatBytes - 1 THEN bytes[o - beat + 1] ELSE ByteAt(pages, o)
  <2> HIDE DEF bytes, beat
  <2> QED BY <1>2, <1>4, WriteBytesAt, StoreAssumption
<1>6. o \in beat .. beat + BeatBytes - 1 => bytes[o - beat + 1] = byte(o)
  <2> SUFFICES ASSUME o \in beat .. beat + BeatBytes - 1 PROVE bytes[o - beat + 1] = byte(o)
    OBVIOUS
  <2>1. o - beat + 1 \in 1 .. BeatBytes /\ beat + (o - beat + 1) - 1 = o
    BY <1>2, StoreAssumption
  <2> HIDE DEF beat
  <2> QED BY <2>1
<1>7. o \in offset .. offset + n - 1 => o \in beat .. beat + BeatBytes - 1
  <2> HIDE DEF beat
  <2> QED BY <1>2, StoreAssumption
<1> HIDE DEF bytes, beat
<1> QED BY <1>3, <1>5, <1>6, <1>7

------------------------------------------------------------------------------
(* The data: what of the image is in memory, and what the port has read.   *)

\* The first n bytes from an address on.
Span(a, n) == a .. a + n - 1

BootBytes == Span(BootRegister, MaxBytes)

\* Registrations without an error are without a conflict, and none is lost.
RegistryInv ==
  /\ DOMAIN registry = {"memories", "error", "frozen"} /\ design \in Designs
  /\ registry.memories \subseteq design /\ registering \subseteq design
  /\ ~ registry.error => \A e, m \in registry.memories : ~ Conflict(e, m)
  /\ saw_reset /\ ~ registry.error => design \subseteq registry.memories \cup registering
  /\ image_memories \subseteq Windows

PhaseInv ==
  /\ phase \in {"off", "load", "publish", "poll", "done"}
  /\ loading_ <=> phase \in {"off", "load"}
  /\ job # NoJob => phase \in {"load", "poll"}
  /\ waiting => phase \in {"load", "poll"} \/ (phase = "publish" /\ job = NoJob)
  /\ failed_ => ~ waiting /\ job = NoJob

\* What is known of a byte that was read at a.
Fetched(a, v) ==
  /\ phase = "load" /\ a \in Memory => v = image[a]
  /\ phase = "poll" /\ a = ToHost /\ v = Exit => hart = "exiting"

\* A chunk of the image: the bytes it has left are the image's, and outside
\* the boot-address register; those it has read are the image's.
ChunkInv ==
  /\ job.kind # "read" => \A i \in DOMAIN job.bytes :
       LET a == job.address + i - 1
       IN /\ a \in Memory => job.bytes[i] = image[a]
          /\ a \notin BootBytes
          /\ job.kind = "clear" => job.bytes[i] = 0
  /\ job.kind = "read" => \A i \in DOMAIN job.got :
       Fetched(job.address - Len(job.got) + i - 1, job.got[i])

\* FESVR's loop: one byte, tohost.
LoopInv ==
  /\ (job.bytes = <<0>> /\ job.address = ToHost) \/ job.bytes = <<>>
  /\ job.kind \in {"read", "write"}
  /\ job.kind = "read" /\ job.bytes # <<>> => job.got = <<>>
  /\ job.got = <<Exit>> => hart = "exiting"

JobInv ==
  /\ ops \in Nat
  /\ job # NoJob =>
       /\ job.kind \in {"read", "write", "clear"}
       /\ job.address \in Nat /\ job.bytes \in Seq(Nat) /\ (\E S : job.got \in Seq(S))
       /\ phase = "load" => ChunkInv
       /\ phase = "poll" => LoopInv

\* What transact was called for.
RequestInv ==
  waiting =>
    /\ request_.address \in Nat /\ request_.length \in 1 .. MaxBytes
    /\ phase = "publish" =>
         request_.write /\ request_.address = BootRegister
    /\ phase # "publish" =>
         /\ request_.write = (job.kind # "read") /\ request_.address = job.address
         /\ request_.length <= Len(job.bytes)
         /\ \A i \in 0 .. request_.length - 1 : request_.data[i] = job.bytes[i + 1]

Transfers == {"ReadPending", "WriteAwaitDBID", "WriteData", "WriteAwaitComp"}

\* Where the port is in the request it has accepted.
ProgressInv ==
  access.state # "Idle" =>
    /\ access.state \in Transfers \cup {"Request", "Response"}
    /\ access.offset \in Nat /\ access.remaining \in Nat
    /\ access.address = request_.address + access.offset
    /\ access.offset + access.remaining = request_.length
    /\ access.state # "Response" =>
         CommandSupported(request_) /\ access.status = Success /\ access.remaining > 0
    /\ access.state = "Response" /\ access.status = Success => access.remaining = 0
    /\ access.state \in Transfers =>
         access.size \in Fragments /\ (access.state = "ReadPending" <=> ~ access.write)

FlitInv ==
  /\ performed \in BOOLEAN
  /\ performed => access.state = "WriteAwaitComp"
  /\ channel # NoFlit =>
       /\ access.state = "ReadPending" => channel.opcode = "CompData"
       /\ access.state = "WriteAwaitDBID" => channel.opcode = "DBIDResp"
       /\ access.state = "WriteAwaitComp" =>
            channel.opcode = "Comp" /\ (channel.outcome = "ok" => performed)

\* How much of the request has been carried out.
Landed == access.offset + (IF performed THEN access.size ELSE 0)

\* The bytes the port has written are in memory.
WrittenInv ==
  phase = "load" /\ waiting /\ request_.write =>
    LET n == IF request_pending_
             THEN IF access.state = "Idle" THEN 0 ELSE Landed
             ELSE IF response_.status = Success THEN request_.length ELSE 0
    IN \A a \in Span(request_.address, n) \cap Memory : MemoryAt(a) = image[a]

\* The bytes the port has read were in memory.
ReadInv ==
  waiting /\ ~ request_.write =>
    /\ access.state # "Idle" =>
         /\ \A i \in 0 .. access.offset - 1 : Fetched(request_.address + i, access.result[i])
         /\ access.state = "ReadPending" /\ channel # NoFlit /\ channel.outcome = "ok" =>
              \A i \in 0 .. access.size - 1 : Fetched(access.address + i, channel.data[i])
    /\ ~ request_pending_ /\ response_.status = Success =>
         \A i \in 0 .. request_.length - 1 : Fetched(request_.address + i, response_.data[i])

\* The image is in memory but for the bytes of a chunk under way; the boot
\* address is zero until it is published.
MemoryInv ==
  /\ DOMAIN stores = {w.id : w \in Windows}
  /\ image = [a \in Memory |-> image[a]] /\ image[ToHost] = 0
  /\ \A a \in Memory :
       \/ MemoryAt(a) = image[a]
       \/ phase = "load" /\ failed_
       \/ phase = "load" /\ job # NoJob /\ job.kind # "read" /\ a \in Span(job.address, Len(job.bytes))
  /\ phase \in {"off", "load"} => \A a \in BootBytes : MemoryAt(a) = 0

\* The hart runs after the image has been loaded, and only tohost is in its
\* cache.
HartInv ==
  /\ hart \in {"rom", "asking", "exiting"}
  /\ dirty = [a \in DOMAIN dirty |-> dirty[a]] /\ DOMAIN dirty \subseteq {ToHost}
  /\ hart = "rom" => DOMAIN dirty = {}
  /\ hart # "rom" => phase \notin {"off", "load"}
  /\ ToHost \in DOMAIN dirty /\ dirty[ToHost] = Exit => hart = "exiting"
  /\ phase = "done" => hart = "exiting"

SeenInv == seen.got = seen.expected

LInv == /\ RegistryInv /\ PhaseInv /\ JobInv /\ RequestInv /\ ProgressInv /\ FlitInv
        /\ WrittenInv /\ ReadInv /\ MemoryInv /\ HartInv /\ SeenInv

------------------------------------------------------------------------------
(* The memory map.                                                         *)

\* An address is in one window at most.
LEMMA WindowIs ==
  ASSUME NEW w \in Windows, NEW a \in Int, InWindow(a, w)
  PROVE  WindowOf(a) = w
<1>1. \A x \in Windows : InWindow(a, x) => x = w
  <2> SUFFICES ASSUME NEW x \in Windows, InWindow(a, x), x # w PROVE FALSE
    OBVIOUS
  <2>1. ~ Overlap(w, x)
    BY WindowAssumption
  <2> QED BY <2>1, WindowAssumption DEF InWindow, Overlap
<1> QED BY <1>1 DEF WindowOf

\* A window is in the address space, and so are the offsets into it.
LEMMA WindowTypes ==
  ASSUME NEW w \in Windows
  PROVE  /\ w.base \in Nat /\ w.size \in Nat \ {0} /\ w.id # NoRegion.id
         /\ \A a : a \in Int /\ InWindow(a, w) => a \in Nat /\ a - w.base \in Nat
BY WindowAssumption DEF InWindow

\* A step writes n bytes to one memory, from address lo on.
Wrote(w, lo, n, bytes) ==
  /\ \A a \in Span(lo, n) : InWindow(a, w)
  /\ \A x \in Windows : x # w => stores'[x.id] = stores[x.id]
  /\ \A o \in Nat : ByteAt(stores'[w.id], o) = IF o + w.base \in Span(lo, n) THEN bytes[o + w.base]
                                               ELSE ByteAt(stores[w.id], o)

\* What the memories hold after it.
LEMMA MemoryAfter ==
  ASSUME NEW w \in Windows, NEW lo \in Nat, NEW n \in Nat, NEW bytes, Wrote(w, lo, n, bytes),
         NEW a \in Int, InMap(a)
  PROVE  MemoryAt(a)' = IF a \in Span(lo, n) THEN bytes[a] ELSE MemoryAt(a)
<1>1. PICK x \in Windows : InWindow(a, x)
  BY DEF InMap
<1>2. WindowOf(a) = x /\ a - x.base \in Nat /\ x.base \in Nat /\ w.base \in Nat
  BY <1>1, WindowIs, WindowTypes
<1>3. MemoryAt(a)' = ByteAt(stores'[x.id], a - x.base) /\ MemoryAt(a) = ByteAt(stores[x.id], a - x.base)
  BY <1>2 DEF MemoryAt
<1>4. CASE x = w
  <2>1. (a - w.base) + w.base = a
    BY <1>2
  <2> QED BY <1>2, <1>3, <1>4, <2>1 DEF Wrote
<1>5. CASE x # w
  <2>1. stores'[x.id] = stores[x.id]
    BY <1>5 DEF Wrote
  <2>2. a \notin Span(lo, n)
    BY <1>1, <1>5, WindowIs DEF Wrote
  <2> QED BY <1>3, <2>1, <2>2
<1> QED BY <1>4, <1>5

\* Memory is what the stores hold.
LEMMA MemoryStays ==
  ASSUME stores' = stores
  PROVE  \A a : MemoryAt(a)' = MemoryAt(a)
BY DEF MemoryAt

\* The boot-address register is a memory, but no RAM.
LEMMA BootIsApart ==
  /\ BootRegister \in Nat
  /\ \A a \in BootBytes : a \in Nat /\ InMap(a) /\ a \notin Memory
  /\ \A a \in Memory : a \in Nat /\ InMap(a)
<1>1. PICK w \in Windows : w.base = BootRegister /\ w.size >= MaxBytes
  BY DesignAssumption
<1>2. BootRegister \in Nat /\ w.size \in Nat
  BY <1>1, WindowTypes
<1>3. ASSUME NEW a \in BootBytes
      PROVE  a \in Nat /\ InWindow(a, w)
  BY <1>1, <1>2, <1>3, PortAssumption DEF BootBytes, Span, InWindow
<1>4. ASSUME NEW a \in Memory
      PROVE  a \in Nat /\ \E x \in Windows : InWindow(a, x) /\ x.base # BootRegister
  <2>1. PICK x \in Windows : x.base # BootRegister /\ a \in x.base .. x.base + x.size - 1
    BY <1>4 DEF Memory
  <2> QED BY <2>1, WindowTypes DEF InWindow
<1>5. ASSUME NEW a \in BootBytes PROVE a \notin Memory
  BY <1>1, <1>3, <1>4, <1>5, WindowIs
<1> QED BY <1>2, <1>3, <1>4, <1>5 DEF InMap

------------------------------------------------------------------------------
\* What a part of the invariant does not speak of may change.
LEMMA Frames ==
  ASSUME LInv
  PROVE  /\ UNCHANGED <<registry, registering, design, saw_reset, image_memories>> => RegistryInv'
         /\ UNCHANGED <<phase, loading_, job, waiting, failed_>> => PhaseInv'
         /\ UNCHANGED <<job, phase, image, hart, ops>> => JobInv'
         /\ UNCHANGED <<waiting, request_, job, phase>> => RequestInv'
         /\ UNCHANGED <<access, request_>> => ProgressInv'
         /\ UNCHANGED <<access, channel, performed>> => FlitInv'
         /\ UNCHANGED <<stores, image, phase, failed_, job>> => MemoryInv'
         /\ UNCHANGED <<hart, dirty, phase>> => HartInv'
         /\ UNCHANGED seen => SeenInv'
<1> USE DEF LInv
<1>1. UNCHANGED <<registry, registering, design, saw_reset, image_memories>> => RegistryInv'
  BY DEF RegistryInv
<1>2. UNCHANGED <<phase, loading_, job, waiting, failed_>> => PhaseInv'
  BY DEF PhaseInv
<1>3. UNCHANGED <<job, phase, image, hart, ops>> => JobInv'
  BY DEF JobInv, ChunkInv, LoopInv, Fetched
<1>4. UNCHANGED <<waiting, request_, job, phase>> => RequestInv'
  BY DEF RequestInv
<1>5. UNCHANGED <<access, request_>> => ProgressInv'
  BY DEF ProgressInv, CommandSupported, Fragments
<1>6. UNCHANGED <<access, channel, performed>> => FlitInv'
  BY DEF FlitInv
<1>7. UNCHANGED <<stores, image, phase, failed_, job>> => MemoryInv'
  BY MemoryStays DEF MemoryInv
<1>8. UNCHANGED <<hart, dirty, phase>> => HartInv'
  BY DEF HartInv
<1>9. UNCHANGED seen => SeenInv'
  BY DEF SeenInv
<1> QED BY <1>1, <1>2, <1>3, <1>4, <1>5, <1>6, <1>7, <1>8, <1>9

\* While no request is under way at the port, or a new one has just been
\* posted, the port's part is that of an idle port.
LEMMA IdlePort ==
  ASSUME IInv, LInv, ~ request_pending_, UNCHANGED <<access, channel, performed>>,
         waiting' = FALSE \/ (waiting' = TRUE /\ request_pending_' = TRUE), RequestInv'
  PROVE  ProgressInv' /\ FlitInv' /\ WrittenInv' /\ ReadInv'
<1>1. access.state = "Idle" /\ access' = access
  BY DEF IInv, Returned
<1>2. ProgressInv' /\ FlitInv'
  BY <1>1, Frames DEF ProgressInv
<1>3. WrittenInv'
  <2>1. CASE waiting' = FALSE
    BY <2>1 DEF WrittenInv
  <2>2. CASE waiting' = TRUE /\ request_pending_' = TRUE
    <3>1. request_'.address \in Nat
      BY <2>2 DEF RequestInv
    <3>2. Span(request_'.address, 0) = {}
      BY <3>1 DEF Span
    <3> QED BY <1>1, <2>2, <3>2 DEF WrittenInv
  <2> QED BY <2>1, <2>2
<1>4. ReadInv'
  BY <1>1 DEF ReadInv
<1> QED BY <1>2, <1>3, <1>4

\* Before reset every memory is zero and nothing is under way.
LEMMA InitLInv == LoadInit => LInv
<1> SUFFICES ASSUME LoadInit PROVE LInv
  OBVIOUS
<1> USE DEF LoadInit, PortInit
<1>1. RegistryInv
  BY DEF RegistryInv, NoRegistry
<1>2. PhaseInv /\ JobInv /\ RequestInv
  BY DEF PhaseInv, JobInv, RequestInv
<1>3. ProgressInv /\ FlitInv
  BY DEF ProgressInv, FlitInv
<1>4. WrittenInv /\ ReadInv
  BY DEF WrittenInv, ReadInv
<1>5. ASSUME NEW a \in Int, InMap(a) PROVE MemoryAt(a) = 0
  <2>1. PICK w \in Windows : InWindow(a, w)
    BY <1>5 DEF InMap
  <2>2. WindowOf(a) = w
    BY <2>1, WindowIs
  <2>3. stores[w.id] = EmptyStore
    OBVIOUS
  <2> QED BY <2>2, <2>3 DEF MemoryAt, ByteAt, EmptyStore
<1>6. MemoryInv
  <2>1. DOMAIN stores = {w.id : w \in Windows}
    OBVIOUS
  <2>2. image = [a \in Memory |-> 0] /\ image[ToHost] = 0
    BY ProgramAssumption
  <2>3. \A a \in Memory : MemoryAt(a) = 0
    BY <1>5, BootIsApart
  <2>4. \A a \in BootBytes : MemoryAt(a) = 0
    BY <1>5, BootIsApart
  <2> QED BY <2>1, <2>2, <2>3, <2>4 DEF MemoryInv
<1>7. HartInv /\ SeenInv
  BY DEF HartInv, SeenInv, NothingSeen
<1> QED BY <1>1, <1>2, <1>3, <1>4, <1>6, <1>7 DEF LInv

------------------------------------------------------------------------------
(* The edge.                                                               *)

\* What is known of a byte does not change before a chunk begins, the phase
\* changes or the hart moves.
LEMMA FetchedStays ==
  ASSUME UNCHANGED <<phase, image, hart>>
  PROVE  \A a, v : Fetched(a, v)' <=> Fetched(a, v)
BY DEF Fetched

\* A transfer under way is not empty and within the request.
LEMMA TransferTypes ==
  ASSUME LInv, access.state \in Transfers
  PROVE  /\ access.state \notin {"Idle", "Request", "Response"}
         /\ access.offset \in Nat /\ access.remaining \in Nat
         /\ access.size \in Nat \ {0} /\ access.size <= access.remaining
         /\ CommandSupported(request_) /\ access.status = Success
         /\ access.address = request_.address + access.offset
         /\ access.offset + access.remaining = request_.length
         /\ Aligned(access.address, access.size)
         /\ Supported(access.address, access.size, access.write)
         /\ (access.state = "ReadPending" <=> ~ access.write)
BY DEF LInv, ProgressInv, Fragments, Transfers

\* The port's part, but for the step to or from Idle.
LEMMA ProgressStep ==
  ASSUME IInv, LInv, Issue \/ SendData \/ Receive, UNCHANGED request_
  PROVE  ProgressInv' /\ FlitInv'
<1> USE DEF IInv, Shape, AccessFields
<1>0. ProgressInv /\ FlitInv /\ FlitExpected
  BY DEF LInv
<1>1. CASE Issue
  <2>1. /\ access.state = "Request" /\ UNCHANGED <<channel, performed>>
        /\ performed = FALSE /\ channel = NoFlit
    BY <1>0, <1>1 DEF Issue, FlitInv, FlitExpected
  <2>2. CASE Fragments = {}
    <3>1. access' = [access EXCEPT !.state = "Response", !.status = AccessFault]
      BY <1>1, <2>2 DEF Issue
    <3> QED BY <1>0, <2>1, <3>1 DEF ProgressInv, FlitInv, Transfers, AccessFault, Success
  <2>3. CASE Fragments # {}
    <3>1. access' = [access EXCEPT !.size = Max(Fragments),
                       !.state = IF access.write THEN "WriteAwaitDBID" ELSE "ReadPending"]
      BY <1>1, <2>3 DEF Issue
    <3>2. access.remaining \in Nat /\ Fragments \subseteq 0 .. access.remaining
      BY <1>0, <2>1 DEF ProgressInv, Fragments
    <3>3. Max(Fragments) \in Fragments
      BY <2>3, <3>2, GreatestElement
    <3>4. /\ access'.size = Max(Fragments) /\ access'.state \in Transfers
          /\ access'.state = (IF access.write THEN "WriteAwaitDBID" ELSE "ReadPending")
          /\ access'.write = access.write /\ access'.offset = access.offset
          /\ access'.address = access.address /\ access'.remaining = access.remaining
          /\ access'.status = access.status
      BY <3>1 DEF Transfers
    <3>5. Fragments' = Fragments
      BY <3>4 DEF Fragments
    <3>6. CommandSupported(request_)' = CommandSupported(request_)
      BY DEF CommandSupported
    <3> QED BY <1>0, <2>1, <3>3, <3>4, <3>5, <3>6 DEF ProgressInv, FlitInv, Transfers
  <2> QED BY <2>2, <2>3
<1>2. CASE SendData
  <2>1. /\ access.state = "WriteData" /\ access' = [access EXCEPT !.state = "WriteAwaitComp"]
        /\ UNCHANGED <<channel, performed>> /\ performed = FALSE /\ channel = NoFlit
    BY <1>0, <1>2 DEF SendData, FlitInv, FlitExpected
  <2>2. Fragments' = Fragments /\ CommandSupported(request_)' = CommandSupported(request_)
    BY <2>1 DEF Fragments, CommandSupported
  <2> QED BY <1>0, <2>1, <2>2 DEF ProgressInv, FlitInv, Transfers
<1>3. CASE Receive
  <2>1. /\ access.state \in Transfers \ {"WriteData"} /\ channel # NoFlit
        /\ channel' = NoFlit /\ performed' = FALSE
    BY <1>0, <1>3 DEF Receive, FlitExpected, Transfers
  <2>2. /\ access.offset \in Nat /\ access.remaining \in Nat
        /\ access.size \in Nat \ {0} /\ access.size <= access.remaining
        /\ access.address = request_.address + access.offset
        /\ access.offset + access.remaining = request_.length
        /\ access.status = Success /\ CommandSupported(request_)
    BY <2>1, TransferTypes
  <2>3. FlitInv'
    BY <2>1 DEF FlitInv
  <2>4. CommandSupported(request_)' = CommandSupported(request_)
    BY DEF CommandSupported
  <2>5. CASE channel.outcome # "ok"
    <3>1. access' = [access EXCEPT !.state = "Response",
               !.status = IF channel.outcome = "protocol" THEN ProtocolError ELSE SlaveError]
      BY <1>3, <2>5 DEF Receive
    <3> QED BY <2>2, <2>3, <3>1 DEF ProgressInv, Transfers, ProtocolError, SlaveError, Success
  <2>6. CASE channel.outcome = "ok" /\ channel.opcode = "DBIDResp"
    <3>1. access' = [access EXCEPT !.state = "WriteData"]
      BY <1>3, <2>6 DEF Receive
    <3>2. access.state = "WriteAwaitDBID"
      BY <1>0, <2>1, <2>6 DEF FlitInv, Transfers
    <3>3. Fragments' = Fragments
      BY <3>1 DEF Fragments
    <3> QED BY <1>0, <2>2, <2>3, <2>4, <3>1, <3>2, <3>3 DEF ProgressInv, Transfers
  <2>7. CASE channel.outcome = "ok" /\ channel.opcode # "DBIDResp"
    <3>1. \E r : access' = [Advanced EXCEPT !.result = r]
      <4>1. Advanced = [Advanced EXCEPT !.result = access.result]
        BY DEF Advanced
      <4> QED BY <1>3, <2>7, <4>1 DEF Receive
    <3>2. /\ access'.address = access.address + access.size
          /\ access'.offset = access.offset + access.size
          /\ access'.remaining = access.remaining - access.size
          /\ access'.state = (IF access.remaining = access.size THEN "Response" ELSE "Request")
          /\ access'.status = access.status
      BY <3>1 DEF Advanced
    <3>3. request_.address + (access.offset + access.size) = access.address + access.size
          /\ (access.offset + access.size) + (access.remaining - access.size) = request_.length
      <4>1. request_.address + access.offset = access.address
        BY <2>2
      <4>2. request_.address \in Int
        BY <1>0, <2>1, <2>2 DEF LInv, RequestInv, Posted, Taken, Returned, OneCaller, Transfers
      <4> QED BY <2>2, <4>1, <4>2
    <3> QED BY <2>2, <2>3, <2>4, <3>2, <3>3 DEF ProgressInv, Transfers
  <2> QED BY <2>5, <2>6, <2>7
<1> QED BY <1>1, <1>2, <1>3

\* The port works on the request that is pending.
LEMMA Busy ==
  ASSUME IInv, LInv, access.state # "Idle"
  PROVE  /\ request_pending_ = TRUE /\ request_accepted_ = TRUE
         /\ request_exposed_ = TRUE /\ waiting = TRUE
         /\ request_.address \in Nat /\ request_.length \in 1 .. MaxBytes
         /\ access.write = request_.write /\ access.data = request_.data
<1>1. request_pending_ = TRUE /\ request_accepted_ = TRUE /\ request_exposed_ = TRUE /\ waiting = TRUE
  BY DEF IInv, Shape, Posted, Taken, Returned, OneCaller
<1>2. access.write = request_.write /\ access.data = request_.data
  BY <1>1 DEF IInv, Taken
<1> QED BY <1>1, <1>2 DEF LInv, RequestInv

\* What has landed only counts on.
LEMMA WrittenStep ==
  ASSUME IInv, LInv, Issue \/ SendData \/ Receive, access'.state # "Idle", access.state # "Idle",
         UNCHANGED <<request_, waiting, phase, image, stores, response_>>, request_pending_' = TRUE
  PROVE  WrittenInv'
<1> USE DEF IInv, Shape, AccessFields
<1>0. /\ ProgressInv /\ FlitInv /\ FlitExpected /\ WrittenInv
      /\ request_pending_ = TRUE /\ waiting = TRUE /\ request_.address \in Nat
      /\ access.offset \in Nat
  BY Busy DEF LInv, ProgressInv
<1> SUFFICES ASSUME request_.write PROVE WrittenInv'
  BY <1>0 DEF WrittenInv
<1>1. SUFFICES Landed' \in Nat /\ Landed \in Nat /\ Landed' <= Landed
  <2>1. SUFFICES ASSUME phase = "load", request_.write,
                        NEW a \in Span(request_.address, Landed') \cap Memory
                 PROVE  MemoryAt(a)' = image[a]
    BY <1>0 DEF WrittenInv
  <2>2. a \in Span(request_.address, Landed)
    BY <1>0, <1>1 DEF Span
  <2> QED BY <1>0, <2>1, <2>2, MemoryStays DEF WrittenInv
<1>2. CASE Issue \/ SendData
  <2>1. /\ access.state \in {"Request", "WriteData"} /\ performed' = performed
        /\ access'.offset = access.offset
    BY <1>2 DEF Issue, SendData
  <2>2. performed = FALSE
    BY <1>0, <2>1 DEF FlitInv
  <2> QED BY <1>0, <2>1, <2>2 DEF Landed
<1>3. CASE Receive
  <2>1. /\ access.state \in Transfers \ {"WriteData"} /\ channel # NoFlit
        /\ channel' = NoFlit /\ performed' = FALSE
    BY <1>0, <1>3 DEF Receive, FlitExpected, Transfers
  <2>2. access.size \in Nat
    BY <2>1, TransferTypes
  <2>3. Landed = access.offset + (IF performed THEN access.size ELSE 0) 
      /\ Landed' = access'.offset + 0
    BY <1>0, <2>1 DEF Landed, FlitInv
  <2>4. CASE channel.outcome # "ok" \/ channel.opcode = "DBIDResp"
    <3>1. access'.offset = access.offset
      BY <1>3, <2>4 DEF Receive
    <3> QED BY <1>0, <2>2, <2>3, <3>1
  <2>5. CASE channel.outcome = "ok" /\ channel.opcode = "Comp"
    <3>1. access'.offset = access.offset + access.size
      BY <1>3, <2>5 DEF Receive, Advanced
    <3>2. performed
      BY <1>0, <2>1, <2>5 DEF FlitInv, Transfers
    <3> QED BY <1>0, <2>2, <2>3, <3>1, <3>2
  <2>6. CASE channel.outcome = "ok" /\ channel.opcode = "CompData"
    <3>1. access'.offset = access.offset + access.size
      BY <1>3, <2>6 DEF Receive, Advanced
    <3>2. access.state = "ReadPending" /\ ~ access.write
      BY <1>0, <2>1, <2>6, TransferTypes DEF FlitInv, Transfers
    <3>3. FALSE
      BY <1>0, <2>1, <3>2, Busy
    <3> QED BY <3>3
  <2> QED BY <1>0, <2>1, <2>4, <2>5, <2>6 DEF FlitInv, Transfers
<1> QED BY <1>2, <1>3

\* Lanes are filled in order, by what the flit brought.
LEMMA ReadStep ==
  ASSUME IInv, LInv, Issue \/ SendData \/ Receive, access'.state # "Idle", access.state # "Idle",
         UNCHANGED <<request_, waiting, phase, image, hart, response_>>, request_pending_' = TRUE
  PROVE  ReadInv'
<1> USE DEF IInv, Shape, AccessFields
<1>0. /\ ProgressInv /\ FlitInv /\ FlitExpected /\ ReadInv
      /\ request_pending_ = TRUE /\ waiting = TRUE /\ request_.address \in Nat
      /\ request_.length \in 1 .. MaxBytes /\ access.write = request_.write
      /\ access.offset \in Nat
  BY Busy DEF LInv, ProgressInv
<1> SUFFICES ASSUME ~ request_.write PROVE ReadInv'
  BY <1>0 DEF ReadInv
<1>1. \A a, v : Fetched(a, v)' <=> Fetched(a, v)
  BY FetchedStays
<1>2. CASE access'.offset = access.offset /\ access'.result = access.result /\ channel' = NoFlit
  BY <1>0, <1>1, <1>2 DEF ReadInv
<1>3. CASE Issue \/ SendData
  <2>1. /\ access.state \in {"Request", "WriteData"} /\ channel' = channel
        /\ access'.offset = access.offset /\ access'.result = access.result
    BY <1>3 DEF Issue, SendData
  <2>2. channel = NoFlit
    BY <1>0, <2>1 DEF FlitExpected
  <2> QED BY <1>2, <2>1, <2>2
<1>4. CASE Receive
  <2>1. /\ access.state \in Transfers \ {"WriteData"} /\ channel # NoFlit
        /\ channel' = NoFlit /\ performed' = FALSE
    BY <1>0, <1>4 DEF Receive, FlitExpected, Transfers
  <2>2. /\ access.state = "ReadPending" /\ channel.opcode = "CompData"
        /\ access.size \in Nat /\ access.size <= access.remaining /\ access.remaining \in Nat
        /\ access.offset + access.remaining = request_.length
        /\ access.address = request_.address + access.offset
    BY <1>0, <2>1, TransferTypes DEF FlitInv
  <2>3. CASE channel.outcome # "ok"
    <3>1. access'.offset = access.offset /\ access'.result = access.result
      BY <1>4, <2>3 DEF Receive
    <3> QED BY <1>2, <2>1, <3>1
  <2>4. CASE channel.outcome = "ok"
    <3>1. access' = [Advanced EXCEPT !.result =
               [i \in Lanes |-> IF i \in Transferred THEN channel.data[i - access.offset]
                                ELSE access.result[i]]]
      BY <1>4, <2>2, <2>4 DEF Receive
    <3>2. /\ access'.offset = access.offset + access.size
          /\ access'.result = [i \in Lanes |-> IF i \in Transferred THEN channel.data[i - access.offset]
                                ELSE access.result[i]]
      BY <3>1 DEF Advanced
    <3>3. ASSUME NEW i \in 0 .. access'.offset - 1
          PROVE  Fetched(request_.address + i, access'.result[i])
      <4>1. i \in Lanes /\ i \in Nat
        BY <1>0, <2>2, <3>2, PortAssumption DEF Lanes
      <4>2. CASE i < access.offset
        <5>1. i \notin Transferred
          BY <1>0, <2>2, <4>1, <4>2 DEF Transferred
        <5>2. Fetched(request_.address + i, access.result[i])
          BY <1>0, <4>1, <4>2, <2>2 DEF ReadInv
        <5> QED BY <3>2, <4>1, <5>1, <5>2
      <4>3. CASE i >= access.offset
        <5>1. i \in Transferred /\ i - access.offset \in 0 .. access.size - 1
          BY <1>0, <2>2, <3>2, <4>1, <4>3 DEF Transferred
        <5>2. Fetched(access.address + (i - access.offset), channel.data[i - access.offset])
          BY <1>0, <2>1, <2>2, <2>4, <5>1 DEF ReadInv
        <5>3. access.address + (i - access.offset) = request_.address + i
          BY <1>0, <2>2, <4>1
        <5> QED BY <3>2, <4>1, <5>1, <5>2, <5>3
      <4> QED BY <1>0, <4>1, <4>2, <4>3
    <3> QED BY <1>0, <1>1, <2>1, <3>3 DEF ReadInv
  <2> QED BY <2>3, <2>4
<1> QED BY <1>3, <1>4

\* Taking the request, and giving the answer.
LEMMA AcceptStep ==
  ASSUME IInv, LInv, Accept(TRUE, request_), request_pending_ = TRUE, waiting = TRUE,
         UNCHANGED <<request_, waiting, phase, image, stores, hart, response_>>,
         request_pending_' = TRUE
  PROVE  ProgressInv' /\ FlitInv' /\ WrittenInv' /\ ReadInv'
<1> USE DEF IInv, Shape, AccessFields
<1>1. /\ access.state = "Idle" /\ UNCHANGED <<channel, performed>>
      /\ access'.state \in {"Request", "Response"} /\ access'.offset = 0
      /\ access'.address = request_.address /\ access'.remaining = request_.length
      /\ access'.state = (IF CommandSupported(request_) THEN "Request" ELSE "Response")
      /\ access'.status = (IF CommandSupported(request_) THEN Success ELSE AccessFault)
  BY DEF Accept
<1>2. performed = FALSE /\ channel = NoFlit
  BY <1>1 DEF LInv, FlitInv, FlitExpected
<1>3. request_.address \in Nat /\ request_.length \in 1 .. MaxBytes
  BY DEF LInv, RequestInv
<1>4. CommandSupported(request_)' = CommandSupported(request_)
  BY DEF CommandSupported
<1>5. ProgressInv'
  BY <1>1, <1>3, <1>4, PortAssumption DEF ProgressInv, Transfers, Success, AccessFault
<1>6. FlitInv'
  BY <1>1, <1>2 DEF FlitInv
<1>7. WrittenInv'
  <2>1. Landed' = 0
    BY <1>1, <1>2 DEF Landed
  <2>2. Span(request_.address, 0) = {}
    BY <1>3 DEF Span
  <2> QED BY <1>1, <2>1, <2>2 DEF WrittenInv
<1>8. ReadInv'
  BY <1>1, <1>2 DEF ReadInv
<1> QED BY <1>5, <1>6, <1>7, <1>8

\* The answer carries what the request has come to.
LEMMA AnswerStep ==
  ASSUME IInv, LInv, Answer(TRUE), access.state # "Idle",
         UNCHANGED <<request_, waiting, phase, image, stores, hart>>, request_pending_' = FALSE,
         response_' = [data |-> access.result, status |-> access.status]
  PROVE  ProgressInv' /\ FlitInv' /\ WrittenInv' /\ ReadInv'
<1> USE DEF IInv, Shape, AccessFields
<1>1. /\ access.state = "Response" /\ access'.state = "Idle" /\ UNCHANGED <<channel, performed>>
  BY DEF Answer
<1>2. performed = FALSE /\ channel = NoFlit
  BY <1>1 DEF LInv, FlitInv, FlitExpected
<1>3. ProgressInv' /\ FlitInv'
  BY <1>1, <1>2 DEF ProgressInv, FlitInv
<1>4. /\ request_pending_ = TRUE /\ waiting = TRUE /\ access.write = request_.write
      /\ request_.address \in Nat /\ request_.length \in 1 .. MaxBytes
  BY <1>1, Busy
<1>5. access.status = Success => access.offset = request_.length
  BY <1>1, <1>4 DEF LInv, ProgressInv
<1>6. access.offset \in Nat /\ Landed = access.offset
  BY <1>1, <1>2 DEF LInv, ProgressInv, Landed
<1>7. WrittenInv'
  <2>1. SUFFICES ASSUME phase = "load", request_.write, response_'.status = Success,
                        NEW a \in Span(request_.address, request_.length) \cap Memory
                 PROVE  MemoryAt(a)' = image[a]
    <3>1. Span(request_.address, 0) = {}
      BY <1>4 DEF Span
    <3> QED BY <1>4, <3>1 DEF WrittenInv
  <2>2. a \in Span(request_.address, Landed)
    BY <1>5, <1>6, <2>1
  <2> QED BY <1>1, <1>4, <2>1, <2>2, MemoryStays DEF LInv, WrittenInv
<1>8. ReadInv'
  <2>1. \A a, v : Fetched(a, v)' <=> Fetched(a, v)
    BY FetchedStays
  <2>2. waiting /\ ~ request_.write /\ access.status = Success =>
          \A i \in 0 .. request_.length - 1 : Fetched(request_.address + i, access.result[i])
    BY <1>1, <1>5 DEF LInv, ReadInv
  <2> QED BY <1>1, <1>4, <2>1, <2>2 DEF ReadInv
<1> QED BY <1>3, <1>7, <1>8

\* The parts the port has no hand in.
LEMMA PortFrame ==
  ASSUME LInv, UNCHANGED <<stores, dirty, shellVars, hostVars, request_, hart>>
  PROVE  RegistryInv' /\ PhaseInv' /\ JobInv' /\ RequestInv' /\ MemoryInv' /\ HartInv' /\ SeenInv'
BY Frames DEF shellVars, hostVars

\* A clock edge, by what the port does at it.
LEMMA EdgeLInv == IInv /\ LInv /\ Edge => LInv'
<1> SUFFICES ASSUME IInv, LInv, Edge PROVE LInv'
  OBVIOUS
<1>1. /\ UNCHANGED <<stores, dirty, shellVars, hostVars, request_, hart>>
      /\ UNCHANGED <<waiting, phase, image, job>>
  BY DEF Edge, hostVars
<1>2. AccessEdge(request_valid, request_, response_ready)
  BY DEF Edge
<1> DEFINE accepted == request_pending_ /\ request_exposed_
                         /\ (request_accepted_ \/ access.state = "Idle")
           answered == accepted /\ access.state = "Response"
<1>3. /\ request_pending_' = (request_pending_ /\ ~ answered)
      /\ response_' = IF answered THEN [data |-> access.result, status |-> access.status] ELSE response_
  BY DEF Edge, Tick
<1>4. SUFFICES ProgressInv' /\ FlitInv' /\ WrittenInv' /\ ReadInv'
  BY <1>1, PortFrame DEF LInv
<1>5. CASE access' = access /\ UNCHANGED <<channel, performed>> /\ ~ answered
  <2>1. request_pending_' = request_pending_ /\ response_' = response_
    BY <1>3, <1>5 DEF IInv, Shape
  <2>2. ProgressInv' /\ FlitInv'
    BY <1>1, <1>5, Frames
  <2>3. WrittenInv'
    BY <1>1, <1>5, <2>1, MemoryStays DEF LInv, WrittenInv, Landed
  <2>4. ReadInv'
    BY <1>1, <1>5, <2>1, FetchedStays DEF LInv, ReadInv
  <2> QED BY <2>2, <2>3, <2>4
<1>6. CASE access.state = "Idle"
  <2>1. ~ answered
    BY <1>6
  <2>2. CASE request_valid
    <3>1. /\ request_valid = TRUE /\ request_pending_ = TRUE
          /\ request_pending_' = TRUE /\ response_' = response_
      BY <1>3, <2>1, <2>2 DEF request_valid, IInv, Shape
    <3>2. waiting = TRUE
      BY <3>1 DEF IInv, Shape, OneCaller
    <3>3. Accept(TRUE, request_) \/ (access' = access /\ UNCHANGED <<channel, performed>>)
      BY <1>2, <1>6, <3>1 DEF AccessEdge, Issue, SendData, Receive, Answer, Wait, IInv, FlitExpected
    <3> QED BY <1>1, <1>5, <2>1, <3>1, <3>2, <3>3, AcceptStep
  <2>3. CASE ~ request_valid
    <3>1. access' = access /\ UNCHANGED <<channel, performed>>
      BY <1>2, <1>6, <2>3
         DEF AccessEdge, Accept, Issue, SendData, Receive, Answer, Wait, IInv, FlitExpected
    <3> QED BY <1>5, <2>1, <3>1
  <2> QED BY <2>2, <2>3
<1>7. CASE access.state = "Response"
  <2>1. request_pending_ = TRUE /\ request_exposed_ = TRUE /\ request_accepted_ = TRUE
    BY <1>7, Busy
  <2>2. answered /\ response_ready = TRUE
    BY <1>7, <2>1 DEF response_ready
  <2>3. Answer(TRUE)
    BY <1>2, <1>7, <2>2 DEF AccessEdge, Accept, Issue, SendData, Receive, Wait, IInv, FlitExpected
  <2>4. request_pending_' = FALSE /\ response_' = [data |-> access.result, status |-> access.status]
    BY <1>3, <2>1, <2>2
  <2> QED BY <1>1, <1>7, <2>3, <2>4, AnswerStep
<1>8. CASE access.state \notin {"Idle", "Response"}
  <2>1. ~ answered /\ request_pending_ = TRUE
    BY <1>8, Busy
  <2>2. request_pending_' = TRUE /\ response_' = response_
    BY <1>3, <2>1
  <2>3. CASE Issue \/ SendData \/ Receive
    <3>1. access'.state # "Idle"
      BY <2>3 DEF Issue, SendData, Receive, Advanced, IInv, Shape, AccessFields
    <3> QED BY <1>1, <1>8, <2>2, <2>3, <3>1, ProgressStep, WrittenStep, ReadStep
  <2>4. CASE Wait(request_valid, response_ready)
    BY <1>5, <2>1, <2>4 DEF Wait
  <2> QED BY <1>2, <1>8, <2>3, <2>4 DEF AccessEdge, Accept, Answer
<1> QED BY <1>6, <1>7, <1>8

------------------------------------------------------------------------------
(* The memory.                                                             *)

\* What the memory returns, to a read that the port has under way.
LEMMA CoherentFetched ==
  ASSUME LInv, waiting, ~ request_.write, NEW a
  PROVE  Fetched(a, CoherentAt(a))
<1>1. CASE phase = "load"
  <2>1. SUFFICES ASSUME a \in Memory PROVE CoherentAt(a) = image[a]
    BY <1>1 DEF Fetched
  <2>2. DOMAIN dirty = {}
    BY <1>1 DEF LInv, HartInv
  <2>3. CoherentAt(a) = MemoryAt(a)
    BY <2>2 DEF CoherentAt
  <2>4. ~ failed_ /\ job.kind = "read"
    BY <1>1 DEF LInv, PhaseInv, RequestInv
  <2> QED BY <2>1, <2>3, <2>4 DEF LInv, MemoryInv
<1>2. CASE phase = "poll"
  <2>1. SUFFICES ASSUME a = ToHost, CoherentAt(a) = Exit PROVE hart = "exiting"
    BY <1>2 DEF Fetched
  <2>2. MemoryAt(ToHost) = 0
    BY <1>2, ProgramAssumption DEF LInv, MemoryInv
  <2> QED BY <2>1, <2>2, ProgramAssumption DEF LInv, HartInv, CoherentAt
<1> QED BY <1>1, <1>2 DEF Fetched

\* A flit for the port.
LEMMA FlitStep ==
  ASSUME IInv, LInv, MemoryReads \/ MemoryGrants \/ MemoryCompletes,
         UNCHANGED <<shellVars, turn, hostVars, requestVars, hart>>
  PROVE  LInv'
<1>1. /\ UNCHANGED <<access, performed, stores, dirty, request_, request_pending_, response_>>
      /\ access.state \in {"ReadPending", "WriteAwaitDBID", "WriteAwaitComp"}
      /\ UNCHANGED <<shellVars, hostVars, hart>> /\ UNCHANGED <<waiting, phase, image>>
  BY DEF MemoryReads, MemoryGrants, MemoryCompletes, requestVars, hostVars
<1>2. SUFFICES FlitInv' /\ ReadInv'
  <2>1. ProgressInv'
    BY <1>1, Frames
  <2>2. WrittenInv'
    BY <1>1, MemoryStays DEF LInv, WrittenInv, Landed
  <2> QED BY <1>1, <1>2, <2>1, <2>2, PortFrame DEF LInv
<1>3. FlitInv'
  BY <1>1 DEF LInv, FlitInv, MemoryReads, MemoryGrants, MemoryCompletes, Flit
<1>4. \A a, v : Fetched(a, v)' <=> Fetched(a, v)
  BY <1>1, FetchedStays
<1>5. CASE MemoryReads
  <2>1. /\ access.state = "ReadPending"
        /\ channel'.data = [i \in Lanes |-> IF i < access.size THEN CoherentAt(access.address + i) ELSE 0]
    BY <1>5 DEF MemoryReads, Flit
  <2>2. /\ access.state \in Transfers /\ waiting = TRUE /\ ~ request_.write
        /\ request_.length \in 1 .. MaxBytes
    BY <1>1, <2>1, Busy, TransferTypes DEF Transfers
  <2>3. /\ access.size \in Nat /\ access.offset \in Nat /\ access.size <= access.remaining
        /\ access.offset + access.remaining = request_.length /\ access.remaining \in Nat
    BY <2>2, TransferTypes
  <2>4. ASSUME NEW i \in 0 .. access.size - 1
        PROVE  Fetched(access.address + i, channel'.data[i])
    <3>1. i \in Lanes /\ i < access.size
      BY <2>2, <2>3, PortAssumption DEF Lanes
    <3>2. channel'.data[i] = CoherentAt(access.address + i)
      BY <2>1, <3>1
    <3> QED BY <2>2, <3>2, CoherentFetched
  <2> QED BY <1>1, <1>3, <1>4, <2>4 DEF LInv, ReadInv
<1>6. CASE MemoryGrants \/ MemoryCompletes
  <2>1. access.state # "ReadPending"
    BY <1>6 DEF MemoryGrants, MemoryCompletes
  <2> QED BY <1>1, <1>3, <1>4, <2>1 DEF LInv, ReadInv
<1> QED BY <1>5, <1>6

\* A write that the port has under way is of one memory, and of one beat.
LEMMA WriteInWindow ==
  ASSUME IInv, LInv, access.state = "WriteAwaitComp",
         NEW w \in Windows, NEW x \in Span(access.address, access.size), InWindow(x, w)
  PROVE  /\ \A a \in Span(access.address, access.size) : InWindow(a, w)
         /\ ((access.address - w.base) % BeatBytes) + access.size <= BeatBytes
<1> DEFINE a == access.address
           n == access.size
<1>1. /\ request_.address \in Nat /\ request_.length \in 1 .. MaxBytes
      /\ access.offset \in Nat /\ n \in Nat \ {0}
      /\ a = request_.address + access.offset /\ Aligned(a, n)
      /\ Supported(a, n, access.write)
  BY Busy, TransferTypes DEF Transfers
<1>2. a \in Nat
  BY <1>1
<1> HIDE DEF a, n
<1>3. PICK s \in Services : s.first <= a /\ a <= s.last /\ a + n - 1 <= s.last
                         /\ n \in s.reads \cup s.writes
  BY <1>1 DEF Supported, SizesOf, ServiceOf
<1>4. InWindow(a, w) /\ InWindow(a + n - 1, w) /\ ((a - w.base) % BeatBytes) + n <= BeatBytes
  <2>1. a % n = 0 /\ a \in s.first .. s.last
    BY <1>1, <1>2, <1>3, ServiceAssumption DEF Aligned
  <2>2. x \in a .. a + n - 1
    BY DEF Span, a, n
  <2> QED BY <1>3, <2>1, <2>2, ServiceAssumption
<1>5. ASSUME NEW y \in Span(a, n) PROVE InWindow(y, w)
  <2>1. w.base \in Nat /\ w.size \in Nat /\ y \in Int /\ a <= y /\ y <= a + n - 1
    BY <1>1, <1>2, <1>5, WindowTypes DEF Span
  <2> QED BY <1>1, <1>2, <1>4, <2>1 DEF InWindow
<1> QED BY <1>4, <1>5 DEF a, n

\* Where it goes, and what it brings.
LEMMA WriteBrings ==
  ASSUME IInv, LInv, access.state = "WriteAwaitComp", NEW a \in Span(access.address, access.size)
  PROVE  /\ phase \in {"load", "publish", "poll"}
         /\ phase = "load" => (a \in Memory => DataFor(a) = image[a]) /\ a \notin BootBytes
         /\ phase = "publish" => a \in BootBytes
         /\ phase = "poll" => a = ToHost /\ DataFor(a) = 0
<1>1. /\ request_.write /\ request_.address \in Nat /\ request_.length \in 1 .. MaxBytes
      /\ access.data = request_.data /\ waiting
  BY Busy, TransferTypes DEF Transfers
<1>2. /\ access.offset \in Nat /\ access.remaining \in Nat
      /\ access.size \in Nat \ {0} /\ access.size <= access.remaining
      /\ access.address = request_.address + access.offset
      /\ access.offset + access.remaining = request_.length
  BY TransferTypes DEF Transfers
<1> DEFINE j == access.offset + (a - access.address)
<1>3. /\ j \in 0 .. request_.length - 1 /\ a = request_.address + j
      /\ DataFor(a) = request_.data[j]
  BY <1>1, <1>2 DEF Span, DataFor
<1> HIDE DEF j
<1>4. phase \in {"load", "publish", "poll"}
  BY <1>1 DEF LInv, PhaseInv
<1>5. CASE phase = "publish"
  <2>1. request_.address = BootRegister
    BY <1>1, <1>5 DEF LInv, RequestInv
  <2> QED BY <1>1, <1>3, <1>5, <2>1, PortAssumption DEF BootBytes, Span
<1>6. CASE phase # "publish"
  <2>1. job # NoJob
    BY <1>1, <1>6 DEF IInv, OneCaller, NoJob
  <2>2. /\ job.kind # "read" /\ request_.address = job.address
        /\ request_.length <= Len(job.bytes) /\ request_.data[j] = job.bytes[j + 1]
    BY <1>1, <1>3, <1>6 DEF LInv, RequestInv
  <2>3. /\ phase = "load" => ChunkInv
        /\ phase = "poll" => LoopInv
        /\ job.bytes \in Seq(Nat)
    BY <2>1 DEF LInv, JobInv
  <2>4. j + 1 \in DOMAIN job.bytes /\ job.address + (j + 1) - 1 = a
    BY <1>1, <1>3, <2>2, <2>3
  <2>5. CASE phase = "load"
    BY <1>3, <2>2, <2>3, <2>4, <2>5 DEF ChunkInv
  <2>6. CASE phase = "poll"
    <3>1. job.bytes = <<0>> /\ job.address = ToHost
      BY <2>3, <2>4, <2>6 DEF LoopInv
    <3>2. j = 0
      BY <1>3, <2>4, <3>1
    <3>3. a = ToHost
      BY <2>4, <3>1, <3>2, BootIsApart, ProgramAssumption
    <3>4. job.bytes[1] = 0
      BY <3>1
    <3> QED BY <1>3, <2>2, <2>6, <3>2, <3>3, <3>4
  <2> QED BY <1>4, <1>6, <2>5, <2>6
<1> QED BY <1>4, <1>5, <1>6

\* What the memories hold after the write.
LEMMA WriteLands ==
  ASSUME IInv, LInv, MemoryWrites
  PROVE  /\ DOMAIN stores' = {x.id : x \in Windows}
         /\ \A a \in Int : InMap(a) =>
              MemoryAt(a)' = IF a \in Span(access.address, access.size) THEN DataFor(a) ELSE MemoryAt(a)
<1> DEFINE lo == access.address
           n  == access.size
           w  == WindowOf(lo)
<1>1. access.state = "WriteAwaitComp" /\ DOMAIN stores = {x.id : x \in Windows}
  BY DEF MemoryWrites, LInv, MemoryInv
<1>2. lo \in Nat /\ n \in Nat \ {0} /\ lo \in Span(lo, n)
  <2>1. /\ request_.address \in Nat /\ access.offset \in Nat /\ n \in Nat \ {0}
        /\ lo = request_.address + access.offset
    BY <1>1, Busy, TransferTypes DEF Transfers
  <2> QED BY <2>1 DEF Span
<1>3. CASE ~ InMap(lo)
  <2>1. stores' = stores
    BY <1>3 DEF MemoryWrites
  <2>2. ASSUME NEW a \in Span(lo, n), InMap(a) PROVE FALSE
    <3>1. PICK x \in Windows : InWindow(a, x)
      BY <2>2 DEF InMap
    <3>2. InWindow(lo, x)
      BY <1>1, <1>2, <3>1, WriteInWindow
    <3> QED BY <1>3, <3>2 DEF InMap
  <2> HIDE DEF lo, n
  <2> QED BY <1>1, <2>1, <2>2, MemoryStays DEF lo, n
<1>4. CASE InMap(lo)
  <2>1. /\ w \in Windows /\ w.base \in Nat /\ lo - w.base \in Nat
        /\ \A a \in Span(lo, n) : InWindow(a, w)
        /\ ((lo - w.base) % BeatBytes) + n <= BeatBytes
    <3>1. PICK x \in Windows : InWindow(lo, x)
      BY <1>4 DEF InMap
    <3>2. w = x
      BY <1>2, <3>1, WindowIs
    <3>3. /\ \A a \in Span(lo, n) : InWindow(a, x)
          /\ ((lo - x.base) % BeatBytes) + n <= BeatBytes
      BY <1>1, <1>2, <3>1, WriteInWindow
    <3> QED BY <1>2, <3>1, <3>2, <3>3, WindowTypes
  <2> DEFINE data == [o \in {a - w.base : a \in Span(lo, n)} |-> DataFor(o + w.base)]
             pages == WriteBeat(stores[w.id], lo - w.base, data)
             bytes == [a \in Span(lo, n) |-> DataFor(a)]
  <2>2. stores' = [stores EXCEPT ![w.id] = pages]
    BY <1>4 DEF MemoryWrites, Span
  <2> HIDE DEF lo, n, w
  <2>3. DOMAIN data = (lo - w.base) .. (lo - w.base) + n - 1
    <3>1. ASSUME NEW o \in (lo - w.base) .. (lo - w.base) + n - 1
          PROVE  o \in DOMAIN data
      <4>1. o + w.base \in Span(lo, n) /\ (o + w.base) - w.base = o
        BY <1>2, <2>1 DEF Span
      <4> QED BY <4>1
    <3>2. ASSUME NEW a \in Span(lo, n)
          PROVE  a - w.base \in (lo - w.base) .. (lo - w.base) + n - 1
      BY <1>2, <2>1 DEF Span
    <3> QED BY <3>1, <3>2
  <2>4. ASSUME NEW o \in Nat
        PROVE  ByteAt(pages, o) = IF o + w.base \in Span(lo, n) THEN bytes[o + w.base]
                                  ELSE ByteAt(stores[w.id], o)
    <3> DEFINE off == lo - w.base
    <3>1. ByteAt(pages, o) = IF o \in off .. off + n - 1 THEN data[o] ELSE ByteAt(stores[w.id], o)
      <4> HIDE DEF data
      <4> QED BY <1>2, <2>1, <2>3, WriteBeatAt
    <3>2. o \in off .. off + n - 1 <=> o + w.base \in Span(lo, n)
      BY <1>2, <2>1 DEF Span
    <3>3. o \in off .. off + n - 1 => data[o] = bytes[o + w.base]
      BY <2>3, <3>2
    <3> QED BY <3>1, <3>2, <3>3
  <2>5. DOMAIN stores' = {x.id : x \in Windows}
    BY <1>1, <2>2
  <2>6. \A a \in Int : InMap(a) =>
             MemoryAt(a)' = IF a \in Span(lo, n) THEN DataFor(a) ELSE MemoryAt(a)
    <3>1. Wrote(w, lo, n, bytes)
      <4> HIDE DEF pages, bytes
      <4>1. \A x \in Windows : x # w => stores'[x.id] = stores[x.id]
        BY <1>1, <2>1, <2>2, WindowAssumption
      <4>2. stores'[w.id] = pages
        BY <1>1, <2>1, <2>2
      <4> QED BY <2>1, <2>4, <4>1, <4>2 DEF Wrote
    <3>2. ASSUME NEW a \in Int, InMap(a)
          PROVE  MemoryAt(a)' = IF a \in Span(lo, n) THEN bytes[a] ELSE MemoryAt(a)
      <4> HIDE DEF pages, bytes
      <4> QED BY <1>2, <2>1, <3>1, <3>2, MemoryAfter
    <3> QED BY <3>2
  <2> HIDE DEF data, pages, bytes
  <2> QED BY <2>5, <2>6 DEF lo, n
<1> QED BY <1>3, <1>4

\* A write that lands brings bytes of the image, the boot address or tohost's zero.
LEMMA WriteStep ==
  ASSUME IInv, LInv, MemoryWrites, UNCHANGED <<shellVars, turn, hostVars, requestVars, hart>>
  PROVE  LInv'
<1> DEFINE lo == access.address
           n  == access.size
<1>1. /\ access.state = "WriteAwaitComp" /\ channel = NoFlit /\ performed' = TRUE /\ performed = FALSE
      /\ UNCHANGED <<access, channel, request_, request_pending_, response_, registry, registering>>
      /\ UNCHANGED <<design, saw_reset, image_memories, phase, loading_, job, waiting, failed_, image>>
      /\ UNCHANGED <<hart, seen, ops>>
  BY DEF MemoryWrites, shellVars, hostVars, requestVars, LInv, FlitInv
<1>2. /\ request_pending_ = TRUE /\ waiting = TRUE /\ request_.address \in Nat
      /\ request_.length \in 1 .. MaxBytes /\ request_.write
      /\ access.offset \in Nat /\ n \in Nat \ {0} /\ lo = request_.address + access.offset
      /\ access.state \in Transfers
  BY <1>1, Busy, TransferTypes DEF Transfers
<1>3. dirty' = [a \in DOMAIN dirty \ Span(lo, n) |-> dirty[a]]
  BY DEF MemoryWrites, Span
<1>4. DOMAIN stores' = {x.id : x \in Windows}
  BY WriteLands
<1>5. \A a \in Int : InMap(a) =>
           MemoryAt(a)' = IF a \in Span(lo, n) THEN DataFor(a) ELSE MemoryAt(a)
  BY WriteLands
<1> HIDE DEF lo, n
<1>6. ASSUME NEW a \in Span(lo, n)
      PROVE  /\ phase \in {"load", "publish", "poll"}
             /\ phase = "load" => (a \in Memory => DataFor(a) = image[a]) /\ a \notin BootBytes
             /\ phase = "publish" => a \in BootBytes
             /\ phase = "poll" => a = ToHost /\ DataFor(a) = 0
  BY <1>1, <1>6, WriteBrings DEF lo, n
<1>7. MemoryInv'
  <2>1. ASSUME NEW a \in Memory
        PROVE  MemoryAt(a)' = image[a] \/ MemoryAt(a)' = MemoryAt(a)
    <3>1. a \in Nat /\ InMap(a) /\ a \notin BootBytes
      BY BootIsApart
    <3>2. a \in Span(lo, n) => DataFor(a) = image[a]
      BY <1>6, <3>1 DEF LInv, MemoryInv
    <3> QED BY <1>5, <3>1, <3>2
  <2>2. ASSUME phase \in {"off", "load"}, NEW a \in BootBytes
        PROVE  MemoryAt(a)' = MemoryAt(a)
    <3>1. a \in Nat /\ InMap(a)
      BY BootIsApart
    <3>2. a \notin Span(lo, n)
      BY <1>6, <2>2
    <3> QED BY <1>5, <3>1, <3>2
  <2> QED BY <1>1, <1>4, <2>1, <2>2 DEF LInv, MemoryInv
<1>8. WrittenInv'
  <2>1. Landed' = access.offset + n /\ Landed = access.offset
    BY <1>1, <1>2 DEF Landed, n
  <2>2. SUFFICES ASSUME phase = "load", NEW a \in Span(request_.address, access.offset + n) \cap Memory
                 PROVE  MemoryAt(a)' = image[a]
    BY <1>1, <1>2, <2>1 DEF WrittenInv, Transfers
  <2>3. a \in Nat /\ InMap(a)
    BY BootIsApart
  <2>4. CASE a \in Span(lo, n)
    BY <1>5, <1>6, <2>2, <2>3, <2>4
  <2>5. CASE a \notin Span(lo, n)
    <3>1. a \in Span(request_.address, access.offset)
      BY <1>2, <2>2, <2>3, <2>5 DEF Span
    <3>2. MemoryAt(a) = image[a]
      BY <1>1, <1>2, <2>1, <2>2, <3>1 DEF LInv, WrittenInv, Transfers
    <3> QED BY <1>5, <2>3, <2>5, <3>2
  <2> QED BY <2>4, <2>5
<1>9. HartInv'
  BY <1>1, <1>3 DEF LInv, HartInv
<1>10. FlitInv' /\ ReadInv'
  BY <1>1, <1>2 DEF FlitInv, ReadInv
<1>11. RegistryInv' /\ PhaseInv' /\ JobInv' /\ RequestInv' /\ ProgressInv' /\ SeenInv'
  BY <1>1, Frames
<1> QED BY <1>7, <1>8, <1>9, <1>10, <1>11 DEF LInv

------------------------------------------------------------------------------
(* The hart.                                                               *)

\* While the image is loaded the boot address is zero in the memory, and the
\* hart holds nothing of it.
LEMMA NotBooted ==
  ASSUME LInv, hart = "rom", phase \in {"off", "load"}
  PROVE  ~ Booted
<1>1. DOMAIN dirty = {}
  BY DEF LInv, HartInv
<1>2. ASSUME NEW i \in Lanes PROVE CoherentAt(BootRegister + i) = 0
  <2>1. BootRegister + i \in BootBytes
    BY BootIsApart, PortAssumption DEF Lanes, BootBytes, Span
  <2> QED BY <1>1, <2>1 DEF LInv, MemoryInv, CoherentAt
<1> QED BY <1>2 DEF Booted

\* The hart only writes tohost, and only after the boot address is published.
LEMMA HartLInv == IInv /\ LInv /\ HartStep => LInv'
<1> SUFFICES ASSUME IInv, LInv, HartStep PROVE LInv'
  OBVIOUS
<1>1. /\ UNCHANGED <<access, channel, performed, stores, registry, registering, design, saw_reset>>
      /\ UNCHANGED <<image_memories, phase, loading_, job, waiting, failed_, image, seen, ops>>
      /\ UNCHANGED <<request_, request_pending_, response_>>
  BY DEF HartStep, shellVars, hostVars, requestVars
<1>2. phase \notin {"off", "load"} /\ hart # "exiting"
  BY NotBooted DEF HartStep, LInv, HartInv
<1>3. PICK value, next : /\ StoresToHost(value, next) /\ hart' = next /\ next \in {"asking", "exiting"}
                         /\ value = Exit => next = "exiting"
  BY ProgramAssumption DEF HartStep, StoresToHost
<1>4. HartInv'
  <2>1. dirty' = [a \in DOMAIN dirty \cup {ToHost} |-> IF a = ToHost THEN value ELSE dirty[a]]
    BY <1>3 DEF StoresToHost
  <2>2. DOMAIN dirty' = {ToHost} /\ dirty'[ToHost] = value
    BY <2>1 DEF LInv, HartInv
  <2> QED BY <1>1, <1>2, <1>3, <2>1, <2>2 DEF LInv, HartInv
<1>5. \A a, v : Fetched(a, v) => Fetched(a, v)'
  BY <1>1, <1>2 DEF Fetched
<1>6. JobInv'
  BY <1>1, <1>2 DEF LInv, JobInv, LoopInv
<1>7. ReadInv'
  BY <1>1, <1>5 DEF LInv, ReadInv
<1>8. WrittenInv'
  BY <1>1, <1>2 DEF WrittenInv
<1>9. /\ RegistryInv' /\ PhaseInv' /\ RequestInv' /\ ProgressInv' /\ FlitInv' /\ MemoryInv' /\ SeenInv'
  BY <1>1, Frames
<1> QED BY <1>4, <1>6, <1>7, <1>8, <1>9 DEF LInv

------------------------------------------------------------------------------
(* Reset.                                                                  *)

\* A step that only the registrations see.
LEMMA ShellFrame ==
  ASSUME IInv, LInv, UNCHANGED <<portVars, hostVars, requestVars, hart>>, RegistryInv'
  PROVE  LInv'
<1>1. /\ UNCHANGED <<access, channel, performed, stores, dirty, phase, loading_, job, waiting>>
      /\ UNCHANGED <<failed_, image, seen, ops, request_, request_pending_, response_, hart>>
  BY DEF portVars, hostVars, requestVars
<1>2. WrittenInv'
  BY <1>1, MemoryStays DEF LInv, WrittenInv, Landed
<1>3. ReadInv'
  BY <1>1, FetchedStays DEF LInv, ReadInv
<1>4. /\ PhaseInv' /\ JobInv' /\ RequestInv' /\ ProgressInv' /\ FlitInv'
      /\ MemoryInv' /\ HartInv' /\ SeenInv'
  BY <1>1, Frames
<1> QED BY <1>2, <1>3, <1>4 DEF LInv

\* The registrations under reset.
LEMMA ResetLInv ==
  IInv /\ LInv /\ (ResetEdge \/ Register \/ ReleaseReset \/ StartupFails \/ UNCHANGED vars) => LInv'
<1> SUFFICES ASSUME IInv, LInv,
                    ResetEdge \/ Register \/ ReleaseReset \/ StartupFails \/ UNCHANGED vars
             PROVE  RegistryInv'
  BY ShellFrame DEF ResetEdge, Register, ReleaseReset, StartupFails, vars
<1>1. CASE ReleaseReset \/ StartupFails \/ UNCHANGED vars
  BY <1>1, Frames DEF ReleaseReset, StartupFails, vars, portVars, hostVars, shellVars
<1>2. CASE ResetEdge
  BY <1>2 DEF ResetEdge, hostVars, LInv, RegistryInv
<1>3. CASE Register
  <2>1. PICK m \in registering :
          registry' = Registered(registry, m) /\ registering' = registering \ {m}
    BY <1>3 DEF Register
  <2>2. UNCHANGED <<design, saw_reset, image_memories>>
    BY <1>3 DEF Register, hostVars
  <2>3. m \in design
    BY <2>1 DEF LInv, RegistryInv
  <2> DEFINE bad == \/ registry.error
                    \/ \E e \in registry.memories : Conflict(e, m)
                    \/ registry.frozen /\ m \notin registry.memories
  <2>4. registry' = IF bad THEN [registry EXCEPT !.error = TRUE]
                    ELSE [registry EXCEPT !.memories = @ \cup {m}]
    BY <2>1 DEF Registered
  <2>5. CASE bad
    BY <2>1, <2>2, <2>4, <2>5 DEF LInv, RegistryInv
  <2>6. CASE ~ bad
    <3>1. /\ registry'.memories = registry.memories \cup {m} /\ registry'.error = registry.error
          /\ DOMAIN registry' = {"memories", "error", "frozen"} /\ ~ registry.error
      BY <2>4, <2>6 DEF LInv, RegistryInv
    <3>2. \A e \in registry.memories : ~ Conflict(e, m) /\ ~ Conflict(m, e)
      BY <2>6 DEF Conflict, Overlap
    <3>3. ~ Conflict(m, m)
      BY DEF Conflict
    <3> QED BY <2>1, <2>2, <2>3, <3>1, <3>2, <3>3 DEF LInv, RegistryInv
  <2> QED BY <2>5, <2>6
<1> QED BY <1>1, <1>2, <1>3

\* After reset the registrations are the memories of the design.
LEMMA ConstructLInv == IInv /\ LInv /\ Construct => LInv'
<1> SUFFICES ASSUME IInv, LInv, Construct PROVE LInv'
  OBVIOUS
<1>1. /\ UNCHANGED <<access, channel, performed, stores, dirty, registering, design, saw_reset>>
      /\ UNCHANGED <<loading_, job, waiting, failed_, image, seen, ops, hart>>
      /\ UNCHANGED <<request_, request_pending_, response_>>
      /\ phase = "off" /\ phase' = "load" /\ registering = {} /\ saw_reset /\ ~ registry.error
      /\ registry' = [registry EXCEPT !.frozen = TRUE]
      /\ image_memories' = IF through_chi THEN {} ELSE registry.memories
  BY DEF Construct, Clocked, portVars, requestVars
<1>2. job = NoJob /\ ~ waiting /\ hart = "rom"
  BY <1>1 DEF LInv, PhaseInv, HartInv
<1>3. registry.memories \subseteq Windows
  <2>1. registry.memories = design /\ \A e, m \in design : ~ Conflict(e, m)
    BY <1>1 DEF LInv, RegistryInv
  <2> QED BY <2>1, DesignAssumption DEF LInv, RegistryInv
<1>4. RegistryInv'
  <2>1. image_memories' \subseteq Windows
    BY <1>1, <1>3
  <2>2. /\ registry'.memories = registry.memories /\ registry'.error = registry.error
        /\ DOMAIN registry' = {"memories", "error", "frozen"}
    BY <1>1 DEF LInv, RegistryInv
  <2> QED BY <1>1, <2>1, <2>2 DEF LInv, RegistryInv
<1>5. PhaseInv' /\ JobInv' /\ RequestInv' /\ WrittenInv' /\ ReadInv'
  BY <1>1, <1>2 DEF LInv, PhaseInv, JobInv, RequestInv, WrittenInv, ReadInv
<1>6. HartInv'
  BY <1>1, <1>2 DEF LInv, HartInv
<1>7. MemoryInv'
  BY <1>1, <1>2, MemoryStays DEF LInv, MemoryInv
<1>8. ProgressInv' /\ FlitInv' /\ SeenInv'
  BY <1>1, Frames
<1> QED BY <1>4, <1>5, <1>6, <1>7, <1>8 DEF LInv

------------------------------------------------------------------------------
(* The host.                                                               *)

\* A step of the host while no request is under way at the port.
LEMMA HostFrame ==
  ASSUME IInv, LInv, ~ request_pending_,
         UNCHANGED <<access, channel, performed, shellVars, image_memories, hart>>,
         waiting' = FALSE \/ (waiting' = TRUE /\ request_pending_' = TRUE),
         PhaseInv', JobInv', RequestInv', MemoryInv', HartInv', SeenInv'
  PROVE  LInv'
<1>1. UNCHANGED <<access, channel, performed, registry, registering, design, saw_reset, image_memories>>
  BY DEF shellVars
<1>2. RegistryInv'
  BY <1>1, Frames
<1>3. ProgressInv' /\ FlitInv' /\ WrittenInv' /\ ReadInv'
  BY <1>1, IdlePort
<1> QED BY <1>2, <1>3 DEF LInv

\* Between two chunks the image is in memory.
LEMMA BetweenChunks ==
  ASSUME LInv, ~ failed_, NEW a \in Memory,
         job = NoJob \/ phase # "load" \/ job.kind = "read" \/ job.bytes = <<>>
  PROVE  MemoryAt(a) = image[a]
<1>1. CASE job # NoJob /\ job.bytes = <<>>
  <2>1. Span(job.address, Len(job.bytes)) = {}
    BY <1>1 DEF LInv, JobInv, Span
  <2> QED BY <2>1 DEF LInv, MemoryInv
<1>2. CASE job = NoJob \/ phase # "load" \/ job.kind = "read"
  BY <1>2 DEF LInv, MemoryInv
<1> QED BY <1>1, <1>2

\* The memory keeps its image when FESVR goes on to another stage.
LEMMA MemoryFrame ==
  ASSUME LInv, UNCHANGED <<stores, image>>, phase' \in {"off", "load"} => phase \in {"off", "load"},
         (\A a \in Memory : MemoryAt(a) = image[a]) \/ (failed_' /\ phase' = "load")
  PROVE  MemoryInv'
BY MemoryStays DEF LInv, MemoryInv

\* An exception of the transport leaves the memory as it is.
LEMMA ThrowsLInv ==
  ASSUME IInv, LInv, HostRuns, ~ request_pending_, Throws, UNCHANGED <<portVars, shellVars, hart>>
  PROVE  LInv'
<1>1. /\ failed_' = TRUE /\ waiting' = FALSE /\ job' = NoJob
      /\ UNCHANGED <<phase, loading_, image_memories, image, seen, ops, stores, dirty, hart>>
  BY DEF Throws, portVars
<1>2. PhaseInv' /\ JobInv' /\ RequestInv'
  BY <1>1 DEF LInv, PhaseInv, JobInv, RequestInv
<1>3. MemoryInv'
  <2>1. CASE phase = "load"
    BY <1>1, <2>1, MemoryFrame
  <2>2. CASE phase # "load"
    BY <1>1, <2>2, BetweenChunks, MemoryFrame DEF HostRuns
  <2> QED BY <2>1, <2>2
<1>4. HartInv' /\ SeenInv'
  BY <1>1, Frames
<1> QED BY <1>1, <1>2, <1>3, <1>4, HostFrame DEF portVars

\* The switch to the target, and a request that has failed.
LEMMA FailsLInv ==
  IInv /\ LInv /\ (SwitchToTarget \/ TransactFails) => LInv'
<1> SUFFICES ASSUME IInv, LInv, SwitchToTarget \/ TransactFails PROVE LInv'
  OBVIOUS
<1>1. CASE SwitchToTarget
  <2>1. RegistryInv'
    BY <1>1, Frames DEF SwitchToTarget, shellVars, hostVars
  <2> QED BY <1>1, <2>1, ShellFrame DEF SwitchToTarget
<1>2. CASE TransactFails
  BY <1>2, ThrowsLInv DEF TransactFails, Answered
<1> QED BY <1>1, <1>2

\* FESVR publishes the entry point.
LEMMA PublishLInv == IInv /\ LInv /\ (Publish \/ Published) => LInv'
<1> SUFFICES ASSUME IInv, LInv, Publish \/ Published PROVE LInv'
  OBVIOUS
<1>1. /\ UNCHANGED <<portVars, shellVars, hart>> /\ HostRuns
      /\ UNCHANGED <<stores, dirty>>
  BY DEF Publish, Published, Answered, portVars
<1>2. CASE Published
  <2>1. /\ ~ request_pending_ /\ phase = "publish" /\ phase' = "poll" /\ waiting' = FALSE
        /\ UNCHANGED <<failed_, loading_, image_memories, job, image, seen, ops>>
    BY <1>2 DEF Published, Answered
  <2>2. job = NoJob /\ ~ failed_
    BY <1>1, <2>1 DEF LInv, PhaseInv, HostRuns
  <2>3. PhaseInv' /\ JobInv' /\ RequestInv' /\ HartInv' /\ SeenInv'
    BY <1>1, <2>1, <2>2 DEF LInv, PhaseInv, JobInv, RequestInv, HartInv, SeenInv
  <2>4. MemoryInv'
    BY <1>1, <2>1, <2>2, BetweenChunks, MemoryFrame
  <2> QED BY <1>1, <2>1, <2>3, <2>4, HostFrame DEF portVars
<1>3. CASE Publish
  <2>1. phase = "load" /\ job = NoJob /\ ~ failed_
    BY <1>1, <1>3 DEF Publish, HostRuns
  <2>2. ~ waiting /\ ~ request_pending_
    BY <2>1 DEF IInv, OneCaller, NoJob
  <2>3. CASE entry = 0
    BY <1>1, <1>3, <2>2, <2>3, ThrowsLInv DEF Publish
  <2>4. CASE entry # 0
    <3>1. /\ phase' = "publish" /\ loading_' = FALSE /\ waiting' = TRUE /\ request_pending_' = TRUE
          /\ request_' = [write |-> TRUE, address |-> BootRegister, data |-> BootWord, length |-> MaxBytes]
          /\ UNCHANGED <<failed_, image_memories, job, image, seen, ops>>
      BY <1>3, <2>4 DEF Publish, Post
    <3>2. RequestInv'
      BY <3>1, BootIsApart, PortAssumption DEF RequestInv
    <3>3. JobInv' /\ HartInv' /\ SeenInv'
      BY <1>1, <2>1, <3>1 DEF LInv, JobInv, HartInv, SeenInv
    <3>5. PhaseInv'
      BY <2>1, <3>1 DEF PhaseInv
    <3>4. MemoryInv'
      BY <1>1, <2>1, <3>1, BetweenChunks, MemoryFrame
    <3> QED BY <1>1, <2>2, <3>1, <3>2, <3>3, <3>4, <3>5, HostFrame DEF portVars
  <2> QED BY <2>3, <2>4
<1> QED BY <1>2, <1>3

\* FESVR's loop.
LEMMA LoopLInv == IInv /\ LInv /\ (PollToHost \/ Idle \/ ClearToHost \/ Handle) => LInv'
<1> SUFFICES ASSUME IInv, LInv, PollToHost \/ Idle \/ ClearToHost \/ Handle PROVE LInv'
  OBVIOUS
<1>1. /\ UNCHANGED <<portVars, shellVars, hart>> /\ UNCHANGED <<stores, dirty>>
      /\ UNCHANGED <<failed_, loading_, image_memories, waiting, image, seen, ops>>
      /\ HostRuns /\ phase = "poll"
  BY DEF PollToHost, Idle, ClearToHost, Handle, Finished, portVars
<1>2. ~ waiting /\ ~ request_pending_ /\ waiting' = FALSE
  <2>1. ~ waiting
    BY <1>1 DEF PollToHost, Idle, ClearToHost, Handle, Finished, IInv, OneCaller, NoJob
  <2> QED BY <1>1, <2>1 DEF IInv, Shape, OneCaller
<1>3. phase' \in {"poll", "done"} /\ (job' # NoJob => phase' = "poll")
      /\ (phase' = "done" => hart = "exiting")
  <2>1. CASE Handle
    <3>1. job # NoJob /\ job' = NoJob /\ phase' \in {"poll", "done"}
      BY <1>1, <2>1 DEF Handle, Finished
    <3>2. phase' = "done" => job.got = <<Exit>>
      BY <1>1, <2>1 DEF Handle
    <3> QED BY <1>1, <3>1, <3>2 DEF LInv, JobInv, LoopInv
  <2>2. CASE PollToHost \/ Idle \/ ClearToHost
    BY <1>1, <2>2 DEF PollToHost, Idle, ClearToHost
  <2> QED BY <2>1, <2>2
<1>4. PhaseInv' /\ RequestInv' /\ HartInv' /\ SeenInv'
  BY <1>1, <1>2, <1>3 DEF LInv, PhaseInv, RequestInv, HartInv, SeenInv, HostRuns
<1>5. MemoryInv'
  BY <1>1, <1>3, BetweenChunks, MemoryFrame DEF HostRuns
<1>6. JobInv'
  <2>1. CASE Idle \/ Handle
    BY <1>1, <2>1 DEF Idle, Handle, LInv, JobInv
  <2>2. ToHost \in Nat /\ <<0>> \in Seq(Nat) /\ <<>> \in Seq(Nat)
    BY BootIsApart, ProgramAssumption
  <2>3. CASE PollToHost
    <3>1. job' = [kind |-> "read", address |-> ToHost, bytes |-> <<0>>, got |-> <<>>] /\ phase' = "poll"
      BY <1>1, <2>3 DEF PollToHost
    <3> QED BY <1>1, <2>2, <3>1 DEF LInv, JobInv, LoopInv
  <2>4. CASE ClearToHost
    <3>1. /\ job' = [kind |-> "write", address |-> ToHost, bytes |-> <<0>>, got |-> job.got]
          /\ phase' = "poll" /\ job # NoJob
      BY <1>1, <2>4 DEF ClearToHost, Finished
    <3> QED BY <1>1, <2>2, <3>1 DEF LInv, JobInv, LoopInv
  <2> QED BY <2>1, <2>3, <2>4
<1> QED BY <1>1, <1>2, <1>4, <1>5, <1>6, HostFrame DEF portVars

------------------------------------------------------------------------------
(* A chunk of the image.                                                   *)

\* A segment is not empty and within what it is a segment of; if it has a
\* region, it lies in the memory of that region.
LEMMA SegmentIs ==
  ASSUME NEW regions, regions \subseteq Windows, NEW address \in Nat, NEW length \in Nat \ {0}
  PROVE  /\ Segment(regions, address, length).length \in 1 .. length
         /\ Segment(regions, address, length).region # NoRegion =>
              \E w \in Windows :
                /\ Segment(regions, address, length).region = [id |-> w.id, offset |-> address - w.base]
                /\ address - w.base \in Nat
                /\ \A a \in Span(address, Segment(regions, address, length).length) : InWindow(a, w)
<1> DEFINE holding == {r \in regions : r.base <= address /\ address < r.base + r.size}
           above   == {r.base : r \in {s \in regions : s.base > address}}
           s       == Segment(regions, address, length)
<1>1. CASE holding # {}
  <2> DEFINE r == CHOOSE x \in holding : TRUE
  <2>1. r \in holding
    BY <1>1
  <2>2. /\ s.region = [id |-> r.id, offset |-> address - r.base]
        /\ s.length = Min({length, r.base + r.size - address})
    BY <1>1 DEF Segment
  <2> HIDE DEF r, s
  <2>3. /\ r \in Windows /\ r.base \in Nat /\ r.size \in Nat /\ r.base <= address
        /\ address < r.base + r.size
    BY <2>1, WindowTypes
  <2>4. s.length = IF length <= r.base + r.size - address THEN length ELSE r.base + r.size - address
    BY <2>2, <2>3, MinOfTwo
  <2>5. s.length \in 1 .. length /\ s.length <= r.base + r.size - address
    BY <2>3, <2>4
  <2>6. \A a \in Span(address, s.length) : InWindow(a, r)
    BY <2>3, <2>5 DEF Span, InWindow
  <2>7. address - r.base \in Nat
    BY <2>3
  <2> QED BY <2>2, <2>3, <2>5, <2>6, <2>7 DEF s
<1>2. CASE holding = {}
  <2>1. /\ s.region = NoRegion
        /\ s.length = IF above = {} THEN length ELSE Min({length, Min(above) - address})
    BY <1>2 DEF Segment
  <2> HIDE DEF s
  <2>2. CASE above = {}
    <3>1. s.length = length
      BY <2>1, <2>2
    <3>2. s.length \in 1 .. length
      BY <3>1
    <3> QED BY <2>1, <3>2 DEF s
  <2>3. CASE above # {}
    <3>1. above \subseteq Nat /\ \A b \in above : b > address
      BY WindowTypes
    <3>2. Min(above) \in above
      <4> HIDE DEF above
      <4> QED BY <2>3, <3>1, LeastElement
    <3> HIDE DEF above
    <3>3. Min(above) - address \in Nat \ {0}
      <4>1. Min(above) \in Nat /\ Min(above) > address
        BY <3>1, <3>2
      <4> QED BY <4>1
    <3>4. s.length \in 1 .. length
      BY <2>1, <2>3, <3>3, MinOfTwo
    <3> QED BY <2>1, <3>4 DEF s
  <2> QED BY <2>2, <2>3
<1> QED BY <1>1, <1>2

\* What the transport works on next.
LEMMA NextSegmentIs ==
  ASSUME IInv, LInv, Working
  PROVE  /\ phase \in {"load", "poll"} /\ job.address \in Nat /\ Len(job.bytes) \in Nat \ {0}
         /\ NextSegment.length \in 1 .. Len(job.bytes)
         /\ NextSegment.region # NoRegion =>
              /\ phase = "load"
              /\ \E w \in Windows :
                   /\ NextSegment.region = [id |-> w.id, offset |-> job.address - w.base]
                   /\ job.address - w.base \in Nat
                   /\ \A a \in Span(job.address, NextSegment.length) : InWindow(a, w)
<1>1. /\ job # NoJob /\ job.bytes # <<>> /\ phase \in {"load", "poll"}
      /\ job.address \in Nat /\ job.bytes \in Seq(Nat) /\ (loading_ => phase = "load")
  BY DEF Working, LInv, PhaseInv, JobInv
<1>2. Len(job.bytes) \in Nat \ {0}
  BY <1>1
<1>3. CASE loading_
  <2>1. NextSegment = Segment(image_memories, job.address, Len(job.bytes))
    BY <1>3 DEF NextSegment
  <2>2. image_memories \subseteq Windows
    BY DEF LInv, RegistryInv
  <2> QED BY <1>1, <1>2, <1>3, <2>1, <2>2, SegmentIs
<1>4. CASE ~ loading_
  <2>1. NextSegment.region = NoRegion /\ NextSegment.length = Len(job.bytes)
    BY <1>4 DEF NextSegment
  <2> QED BY <1>1, <1>2, <2>1
<1> QED BY <1>3, <1>4

\* transact is called for a transfer of it.
LEMMA PostLInv == IInv /\ LInv /\ PostSegment => LInv'
<1> SUFFICES ASSUME IInv, LInv, PostSegment PROVE LInv'
  OBVIOUS
<1>1. /\ Working /\ HostRuns /\ ~ waiting /\ job # NoJob
      /\ UNCHANGED <<portVars, shellVars, hart>> /\ UNCHANGED <<stores, dirty>>
      /\ UNCHANGED <<phase, failed_, loading_, image_memories, job, image, seen, ops>>
      /\ waiting' = TRUE /\ request_pending_' = TRUE
  BY DEF PostSegment, Working, Post, portVars
<1> DEFINE n == TransferLength
           data == [i \in Lanes |-> IF i < n THEN job.bytes[i + 1] ELSE 0]
<1>2. request_' = [write |-> job.kind # "read", address |-> job.address, data |-> data, length |-> n]
  BY DEF PostSegment, Post
<1>3. phase \in {"load", "poll"} /\ job.address \in Nat /\ NextSegment.length \in 1 .. Len(job.bytes)
      /\ Len(job.bytes) \in Nat
  BY <1>1, NextSegmentIs
<1>4. n \in 1 .. MaxBytes /\ n <= Len(job.bytes)
  BY <1>3, MinOfTwo, PortAssumption DEF TransferLength
<1> HIDE DEF n
<1>5. ASSUME NEW i \in 0 .. n - 1 PROVE data[i] = job.bytes[i + 1]
  BY <1>4, PortAssumption DEF Lanes
<1>6. RequestInv'
  <2> HIDE DEF data
  <2> QED BY <1>1, <1>2, <1>3, <1>4, <1>5 DEF RequestInv
<1>7. PhaseInv'
  BY <1>1, <1>3 DEF LInv, PhaseInv, HostRuns
<1>8. JobInv' /\ MemoryInv' /\ HartInv' /\ SeenInv'
  BY <1>1, Frames
<1>9. ~ request_pending_
  BY <1>1, HostIdle
<1> QED BY <1>1, <1>6, <1>7, <1>8, <1>9, HostFrame DEF portVars

\* FESVR asks for a chunk.
LEMMA StartLInv == IInv /\ LInv /\ StartChunk => LInv'
<1> SUFFICES ASSUME IInv, LInv, StartChunk PROVE LInv'
  OBVIOUS
<1>1. /\ HostRuns /\ phase = "load" /\ job = NoJob /\ ~ failed_
      /\ UNCHANGED <<portVars, shellVars, hart>> /\ UNCHANGED <<stores, dirty>>
  BY DEF StartChunk, HostRuns, portVars
<1>2. ~ waiting /\ ~ request_pending_
  BY <1>1 DEF IInv, OneCaller, NoJob
<1>3. PICK op \in Ops :
        IF Reserved(op.kind, op.address, op.length) THEN Throws
        ELSE /\ job' = [kind |-> op.kind, address |-> op.address,
                        bytes |-> Payload(op, ops + 1), got |-> <<>>]
             /\ ops' = ops + 1 /\ seen' = NothingSeen
             /\ image' = IF op.kind = "read" THEN image
                         ELSE [a \in Memory |-> IF a \in Covered(op)
                                 THEN Payload(op, ops + 1)[a - op.address + 1] ELSE image[a]]
             /\ UNCHANGED <<phase, failed_, loading_, image_memories, waiting, exitcode, requestVars>>
  BY DEF StartChunk
<1>4. CASE Reserved(op.kind, op.address, op.length)
  BY <1>1, <1>2, <1>3, <1>4, ThrowsLInv
<1>5. CASE ~ Reserved(op.kind, op.address, op.length)
  <2> DEFINE bytes == Payload(op, ops + 1)
  <2>1. /\ job'.kind = op.kind /\ job'.address = op.address /\ job'.bytes = bytes /\ job'.got = <<>>
        /\ ops' = ops + 1 /\ seen' = NothingSeen
        /\ UNCHANGED <<phase, failed_, loading_, image_memories, waiting, requestVars>>
    BY <1>3, <1>5
  <2>2. image' = IF op.kind = "read" THEN image
                 ELSE [a \in Memory |-> IF a \in Covered(op) THEN bytes[a - op.address + 1] ELSE image[a]]
    BY <1>3, <1>5
  <2>3. /\ op.kind \in {"read", "write", "clear"} /\ op.address \in Nat /\ op.length \in Nat
        /\ ops \in Nat /\ (ops + 1) * NativeChunk \in Nat /\ (loading_ <=> phase \in {"off", "load"})
    BY LoadAssumption DEF LInv, JobInv, PhaseInv
  <2>4. bytes \in [1 .. op.length -> Nat]
    BY <2>3 DEF Payload
  <2>5. bytes \in Seq(Nat) /\ Len(bytes) = op.length /\ DOMAIN bytes = 1 .. op.length
    <3> HIDE DEF bytes
    <3> QED BY <2>3, <2>4, TupleLen
  <2>6. \A i \in 1 .. op.length : op.kind = "clear" \/ op.address + i - 1 = ToHost => bytes[i] = 0
    BY DEF Payload
  <2>7. image' = [a \in Memory |-> image'[a]]
    BY <2>2 DEF LInv, MemoryInv
  <2> HIDE DEF bytes
  <2>8. ASSUME NEW a \in Memory
        PROVE  /\ op.kind # "read" /\ a \in Covered(op) => image'[a] = bytes[a - op.address + 1]
               /\ op.kind = "read" \/ a \notin Covered(op) => image'[a] = image[a]
    BY <2>2
  <2>9. Span(op.address, op.length) = Covered(op)
    BY DEF Span, Covered
  <2>10. ChunkInv'
    <3>1. ASSUME op.kind # "read", NEW i \in 1 .. op.length
          PROVE  LET a == op.address + i - 1
                 IN /\ a \in Memory => bytes[i] = image'[a]
                    /\ a \notin BootBytes
                    /\ op.kind = "clear" => bytes[i] = 0
      <4> DEFINE a == op.address + i - 1
      <4>1. a \in Covered(op) /\ a - op.address + 1 = i /\ a \in Nat
        BY <2>3 DEF Covered
      <4>2. a \notin BootBytes
        BY <1>1, <1>5, <2>3, <3>1, BootIsApart, PortAssumption DEF Reserved, BootBytes, Span
      <4>3. a \in Memory => bytes[i] = image'[a]
        <5> HIDE DEF a
        <5> QED BY <2>8, <3>1, <4>1
      <4> QED BY <2>6, <3>1, <4>2, <4>3
    <3> QED BY <2>1, <2>5, <3>1 DEF ChunkInv
  <2>11. JobInv'
    BY <1>1, <2>1, <2>3, <2>5, <2>10 DEF JobInv
  <2>12. PhaseInv' /\ RequestInv' /\ SeenInv'
    BY <1>1, <1>2, <2>1 DEF LInv, PhaseInv, RequestInv, SeenInv, NothingSeen
  <2>13. HartInv'
    BY <1>1, <2>1, Frames
  <2>14. MemoryInv'
    <3>1. image'[ToHost] = 0
      <4>1. ToHost \in Memory /\ ToHost \in Nat /\ image[ToHost] = 0
        BY ProgramAssumption, BootIsApart DEF LInv, MemoryInv
      <4>2. CASE op.kind # "read" /\ ToHost \in Covered(op)
        <5>1. ToHost - op.address + 1 \in 1 .. op.length
              /\ op.address + (ToHost - op.address + 1) - 1 = ToHost
          BY <2>3, <4>1, <4>2 DEF Covered
        <5> QED BY <2>6, <2>8, <4>1, <4>2, <5>1
      <4> QED BY <2>8, <4>1, <4>2
    <3>2. ASSUME NEW a \in Memory
          PROVE  \/ MemoryAt(a)' = image'[a]
                 \/ job' # NoJob /\ job'.kind # "read" /\ a \in Span(op.address, op.length)
      <4>1. MemoryAt(a)' = image[a]
        BY <1>1, BetweenChunks, MemoryStays
      <4>2. job' # NoJob
        BY <2>1, <2>3 DEF NoJob
      <4> QED BY <2>1, <2>8, <2>9, <4>1, <4>2
    <3>3. \A a \in BootBytes : MemoryAt(a)' = 0
      BY <1>1, MemoryStays DEF LInv, MemoryInv
    <3> QED BY <1>1, <2>1, <2>5, <2>7, <3>1, <3>2, <3>3 DEF LInv, MemoryInv
  <2> QED BY <1>1, <1>2, <2>1, <2>11, <2>12, <2>13, <2>14, HostFrame DEF IInv, Shape, portVars
<1> QED BY <1>4, <1>5

\* A chunk that has gone on by n bytes.
LEMMA RestIs ==
  ASSUME LInv, job # NoJob, NEW n \in 1 .. Len(job.bytes), NEW read, job' = Rest(n, read),
         DOMAIN job = JobFields
  PROVE  /\ job'.kind = job.kind /\ job'.address = job.address + n /\ job'.got = job.got \o read
         /\ job'.bytes \in Seq(Nat) /\ Len(job'.bytes) = Len(job.bytes) - n
         /\ \A i \in 1 .. Len(job.bytes) - n : job'.bytes[i] = job.bytes[n + i]
         /\ job.address \in Nat /\ Len(job.bytes) \in Nat /\ DOMAIN job.bytes = 1 .. Len(job.bytes)
<1>1. job.bytes \in Seq(Nat) /\ job.address \in Nat
  BY DEF LInv, JobInv
<1>2. /\ job'.kind = job.kind /\ job'.address = job.address + n /\ job'.got = job.got \o read
      /\ job'.bytes = SubSeq(job.bytes, n + 1, Len(job.bytes))
  BY DEF Rest, JobFields
<1>3. job.address \in Nat /\ Len(job.bytes) \in Nat /\ DOMAIN job.bytes = 1 .. Len(job.bytes)
  BY <1>1
<1>4. /\ SubSeq(job.bytes, n + 1, Len(job.bytes)) \in Seq(Nat)
      /\ Len(SubSeq(job.bytes, n + 1, Len(job.bytes))) = Len(job.bytes) - n
      /\ \A i \in 1 .. Len(job.bytes) - n : SubSeq(job.bytes, n + 1, Len(job.bytes))[i] = job.bytes[n + i]
  BY <1>1, SeqParts
<1> QED BY <1>2, <1>3, <1>4

\* The bytes it has left and those it has read are the image's.
LEMMA RestChunk ==
  ASSUME IInv, LInv, job # NoJob, phase = "load", NEW n \in 1 .. Len(job.bytes), NEW read,
         job' = Rest(n, read), UNCHANGED <<phase, image, hart, ops>>,
         job.kind # "read" => read = <<>>,
         job.kind = "read" =>
           /\ \E T : read \in Seq(T)
           /\ Len(read) = n
           /\ \A k \in 1 .. n : Fetched(job.address + k - 1, read[k])
  PROVE  JobInv'
<1>1. /\ job'.kind = job.kind /\ job'.address = job.address + n /\ job'.got = job.got \o read
      /\ job'.bytes \in Seq(Nat) /\ Len(job'.bytes) = Len(job.bytes) - n
      /\ \A i \in 1 .. Len(job.bytes) - n : job'.bytes[i] = job.bytes[n + i]
      /\ job.address \in Nat /\ Len(job.bytes) \in Nat /\ DOMAIN job.bytes = 1 .. Len(job.bytes)
  BY RestIs DEF IInv, Shape
<1>2. job.kind \in {"read", "write", "clear"} /\ ChunkInv /\ ops \in Nat
  BY DEF LInv, JobInv
<1>3. PICK S : job.got \in Seq(S)
  BY DEF LInv, JobInv
<1>4. PICK T : read \in Seq(T)
  <2>1. <<>> \in Seq({})
    OBVIOUS
  <2> QED BY <2>1
<1>5. /\ job'.got \in Seq(S \cup T) /\ Len(job'.got) = Len(job.got) + Len(read)
      /\ \A i \in 1 .. Len(job.got) : job'.got[i] = job.got[i]
      /\ \A i \in Len(job.got) + 1 .. Len(job.got) + Len(read) : job'.got[i] = read[i - Len(job.got)]
  BY <1>1, <1>3, <1>4, SeqJoin
<1>6. /\ Len(job.got) \in Nat /\ DOMAIN job.got = 1 .. Len(job.got) /\ Len(read) \in Nat
      /\ DOMAIN job'.got = 1 .. Len(job'.got) /\ DOMAIN job'.bytes = 1 .. Len(job'.bytes)
  BY <1>1, <1>3, <1>4, <1>5
<1>7. ASSUME job.kind # "read", NEW i \in 1 .. Len(job.bytes) - n
      PROVE  LET a == job'.address + i - 1
             IN /\ a \in Memory => job'.bytes[i] = image[a]
                /\ a \notin BootBytes
                /\ job.kind = "clear" => job'.bytes[i] = 0
  <2>1. n + i \in DOMAIN job.bytes /\ job'.address + i - 1 = job.address + (n + i) - 1
    BY <1>1
  <2> QED BY <1>1, <1>2, <1>7, <2>1 DEF ChunkInv
<1>8. ASSUME job.kind = "read", NEW i \in 1 .. Len(job'.got)
      PROVE  Fetched(job'.address - Len(job'.got) + i - 1, job'.got[i])
  <2>1. job'.address - Len(job'.got) + i - 1 = job.address - Len(job.got) + i - 1 /\ Len(read) = n
    <3>1. Len(read) = n /\ i \in Nat
      BY <1>5, <1>6, <1>8
    <3>2. \A p, q, r \in Nat : (p + n) - (q + n) + r - 1 = p - q + r - 1
      OBVIOUS
    <3> QED BY <1>1, <1>5, <1>6, <3>1, <3>2
  <2>2. CASE i <= Len(job.got)
    <3>1. i \in 1 .. Len(job.got) /\ i \in DOMAIN job.got
      BY <1>6, <2>2
    <3>2. job'.got[i] = job.got[i]
      BY <1>5, <3>1
    <3>3. Fetched(job.address - Len(job.got) + i - 1, job.got[i])
      BY <1>2, <1>8, <3>1 DEF ChunkInv
    <3> QED BY <2>1, <3>2, <3>3
  <2>3. CASE i > Len(job.got)
    <3>1. i - Len(job.got) \in 1 .. n /\ i \in Len(job.got) + 1 .. Len(job.got) + Len(read)
      BY <1>5, <1>6, <2>1, <2>3
    <3>2. job.address + (i - Len(job.got)) - 1 = job.address - Len(job.got) + i - 1
      BY <1>1, <1>6
    <3> QED BY <1>5, <1>8, <2>1, <3>1, <3>2
  <2> QED BY <1>6, <2>2, <2>3, <1>5
<1>9. \A a, v : Fetched(a, v)' <=> Fetched(a, v)
  BY FetchedStays
<1>10. ChunkInv'
  BY <1>1, <1>6, <1>7, <1>8, <1>9 DEF ChunkInv
<1>11. job'.address \in Nat /\ \E Q : job'.got \in Seq(Q)
  BY <1>1, <1>5
<1> QED BY <1>1, <1>2, <1>10, <1>11 DEF JobInv

\* The memory has the image but for the bytes it has left.
LEMMA RestMemory ==
  ASSUME IInv, LInv, job # NoJob, phase = "load", ~ failed_, NEW n \in 1 .. Len(job.bytes), NEW read,
         job' = Rest(n, read), UNCHANGED <<phase, image, failed_>>,
         DOMAIN stores' = {w.id : w \in Windows},
         \A a \in Memory \cup BootBytes :
           \/ MemoryAt(a)' = MemoryAt(a) /\ (job.kind # "read" => a \notin Span(job.address, n))
           \/ a \in Memory /\ MemoryAt(a)' = image[a]
  PROVE  MemoryInv'
<1>1. /\ job'.kind = job.kind /\ job'.address = job.address + n
      /\ Len(job'.bytes) = Len(job.bytes) - n
      /\ job.address \in Nat /\ Len(job.bytes) \in Nat
  BY RestIs DEF IInv, Shape
<1>2. ASSUME NEW a \in Memory
      PROVE  \/ MemoryAt(a)' = image[a]
             \/ job' # NoJob /\ job'.kind # "read" /\ a \in Span(job'.address, Len(job'.bytes))
  <2>1. SUFFICES ASSUME MemoryAt(a)' = MemoryAt(a), MemoryAt(a) # image[a],
                        job.kind # "read" => a \notin Span(job.address, n)
                 PROVE  job' # NoJob /\ job'.kind # "read" /\ a \in Span(job'.address, Len(job'.bytes))
    OBVIOUS
  <2>2. job.kind # "read" /\ a \in Span(job.address, Len(job.bytes))
    BY <2>1 DEF LInv, MemoryInv
  <2>3. a \in Span(job'.address, Len(job'.bytes))
    BY <1>1, <2>1, <2>2 DEF Span
  <2>4. job' # NoJob
    BY <1>1 DEF IInv, OneCaller, NoJob
  <2> QED BY <1>1, <2>2, <2>3, <2>4
<1>3. ASSUME NEW a \in BootBytes PROVE MemoryAt(a)' = 0
  BY BootIsApart DEF LInv, MemoryInv
<1> QED BY <1>2, <1>3 DEF LInv, MemoryInv

\* Native access: the bytes of a segment, in the store of its region.
LEMMA NativeWrote ==
  ASSUME IInv, LInv, NativeSegment,
         NEW w \in Windows, NextSegment.region = [id |-> w.id, offset |-> job.address - w.base],
         job.address - w.base \in Nat,
         \A a \in Span(job.address, NextSegment.length) : InWindow(a, w)
  PROVE  /\ DOMAIN stores' = {x.id : x \in Windows}
         /\ job.kind \in {"write", "clear"} =>
              Wrote(w, job.address, NextSegment.length,
                    [a \in Span(job.address, NextSegment.length) |->
                       IF job.kind = "write" THEN job.bytes[a - job.address + 1] ELSE 0])
         /\ job.kind = "read" => \A a \in Nat : InMap(a) => MemoryAt(a)' = MemoryAt(a)
<1> DEFINE n   == NextSegment.length
           off == job.address - w.base
           pages == CASE job.kind = "write" -> WriteBytes(stores[w.id], off, SubSeq(job.bytes, 1, n))
                      [] job.kind = "clear" -> ZeroBytes(stores[w.id], off, n)
                      [] job.kind = "read"  -> stores[w.id]
           bytes == [a \in Span(job.address, n) |->
                       IF job.kind = "write" THEN job.bytes[a - job.address + 1] ELSE 0]
<1>1. DOMAIN stores = {x.id : x \in Windows} /\ Working
  BY DEF LInv, MemoryInv, NativeSegment
<1>2. /\ job.address \in Nat /\ Len(job.bytes) \in Nat /\ n \in 1 .. Len(job.bytes)
      /\ job.bytes \in Seq(Nat)
  BY <1>1, NextSegmentIs DEF Working, LInv, JobInv
<1>3. w.base \in Nat /\ off \in Nat /\ n \in Nat
  BY <1>2, WindowTypes
<1>4. stores' = [stores EXCEPT ![w.id] = pages]
  <2> DEFINE r == NextSegment.region
  <2>1. stores' = [stores EXCEPT ![r.id] =
             CASE job.kind = "write" -> WriteBytes(stores[r.id], r.offset, SubSeq(job.bytes, 1, n))
               [] job.kind = "clear" -> ZeroBytes(stores[r.id], r.offset, n)
               [] job.kind = "read"  -> stores[r.id]]
    BY Zenon DEF NativeSegment
  <2>2. r.id = w.id /\ r.offset = off
    OBVIOUS
  <2> HIDE DEF r, n, off
  <2> QED BY <2>1, <2>2, Zenon
<1>5. /\ DOMAIN stores' = {x.id : x \in Windows} /\ stores'[w.id] = pages
      /\ \A x \in Windows : x # w => stores'[x.id] = stores[x.id]
  <2> HIDE DEF pages
  <2> QED BY <1>1, <1>4, WindowAssumption
<1>6. ASSUME NEW o \in Nat
      PROVE  o \in off .. off + n - 1 <=> o + w.base \in Span(job.address, n)
  BY <1>2, <1>3, SMTT(60) DEF Span
<1>7. CASE job.kind = "write"
  <2>1. pages = WriteBytes(stores[w.id], off, SubSeq(job.bytes, 1, n))
    BY <1>7
  <2>2. /\ Len(SubSeq(job.bytes, 1, n)) = n
        /\ \A i \in 1 .. n : SubSeq(job.bytes, 1, n)[i] = job.bytes[i]
    BY <1>2, SubSeqProperties
  <2>3. ASSUME NEW o \in Nat
        PROVE  ByteAt(pages, o) = IF o + w.base \in Span(job.address, n) THEN bytes[o + w.base]
                                  ELSE ByteAt(stores[w.id], o)
    <3>1. ByteAt(pages, o) = IF o \in off .. off + n - 1 THEN SubSeq(job.bytes, 1, n)[o - off + 1]
                             ELSE ByteAt(stores[w.id], o)
      <4> DEFINE sub == SubSeq(job.bytes, 1, n)
      <4> HIDE DEF pages, off, n, sub
      <4>1. pages = WriteBytes(stores[w.id], off, sub) /\ Len(sub) = n
        BY <2>1, <2>2 DEF sub
      <4>2. ByteAt(WriteBytes(stores[w.id], off, sub), o) =
              IF o \in off .. off + n - 1 THEN sub[o - off + 1] ELSE ByteAt(stores[w.id], o)
        BY <1>3, <4>1, WriteBytesAt
      <4> QED BY <4>1, <4>2 DEF sub
    <3>2. o \in off .. off + n - 1 => SubSeq(job.bytes, 1, n)[o - off + 1] = bytes[o + w.base]
      <4> SUFFICES ASSUME o \in off .. off + n - 1
                   PROVE  SubSeq(job.bytes, 1, n)[o - off + 1] = bytes[o + w.base]
        OBVIOUS
      <4>1. o - off + 1 \in 1 .. n /\ (o + w.base) - job.address + 1 = o - off + 1
        BY <1>2, <1>3, SMTT(60)
      <4>2. bytes[o + w.base] = job.bytes[(o + w.base) - job.address + 1]
        BY <1>6, <1>7
      <4> HIDE DEF bytes, off, n
      <4> QED BY <2>2, <4>1, <4>2
    <3> HIDE DEF pages, off, n, bytes
    <3> QED BY <1>6, <3>1, <3>2
  <2>4. Wrote(w, job.address, n, bytes)
    <3> HIDE DEF pages, off, bytes
    <3> QED BY <1>5, <2>3 DEF Wrote
  <2> QED BY <1>5, <1>7, <2>4
<1>8. CASE job.kind = "clear"
  <2>1. pages = ZeroBytes(stores[w.id], off, n)
    BY <1>8
  <2>2. ASSUME NEW o \in Nat
        PROVE  ByteAt(pages, o) = IF o + w.base \in Span(job.address, n) THEN bytes[o + w.base]
                                  ELSE ByteAt(stores[w.id], o)
    <3>1. ByteAt(pages, o) = IF o \in off .. off + n - 1 THEN 0 ELSE ByteAt(stores[w.id], o)
      <4> HIDE DEF pages, off, n
      <4> QED BY <1>3, <2>1, ZeroBytesAt
    <3>2. o + w.base \in Span(job.address, n) => bytes[o + w.base] = 0
      BY <1>8
    <3> HIDE DEF pages, off, n, bytes
    <3> QED BY <1>6, <3>1, <3>2
  <2>3. Wrote(w, job.address, n, bytes)
    <3> HIDE DEF pages, off, bytes
    <3> QED BY <1>5, <2>2 DEF Wrote
  <2> QED BY <1>5, <1>8, <2>3
<1>9. CASE job.kind = "read"
  <2>1. pages = stores[w.id]
    BY <1>9
  <2>2. ASSUME NEW a \in Nat, InMap(a)
        PROVE  MemoryAt(a)' = MemoryAt(a)
    <3>1. PICK x \in Windows : InWindow(a, x)
      BY <2>2 DEF InMap
    <3>2. WindowOf(a) = x /\ stores'[x.id] = stores[x.id]
      <4> HIDE DEF pages
      <4> QED BY <1>5, <2>1, <3>1, WindowIs
    <3> QED BY <3>2 DEF MemoryAt
  <2> QED BY <1>5, <1>9, <2>2
<1>10. job.kind \in {"read", "write", "clear"}
  BY <1>1 DEF Working, LInv, JobInv
<1> QED BY <1>7, <1>8, <1>9, <1>10

\* A segment in a native store is written, cleared or read.
LEMMA NativeLInv == IInv /\ LInv /\ NativeSegment => LInv'
<1> SUFFICES ASSUME IInv, LInv, NativeSegment PROVE LInv'
  OBVIOUS
<1> DEFINE n == NextSegment.length
           lo == job.address
<1>1. /\ Working /\ HostRuns /\ ~ failed_ /\ job # NoJob /\ ~ waiting
      /\ NextSegment.region # NoRegion
      /\ UNCHANGED <<access, channel, performed, dirty, shellVars, hart>>
      /\ UNCHANGED <<phase, failed_, loading_, image_memories, waiting, image, seen, ops, requestVars>>
  BY DEF NativeSegment, Working, HostRuns
<1>2. /\ phase = "load" /\ lo \in Nat /\ Len(job.bytes) \in Nat /\ n \in 1 .. Len(job.bytes)
  BY <1>1, NextSegmentIs
<1>3. PICK w \in Windows :
        /\ NextSegment.region = [id |-> w.id, offset |-> lo - w.base]
        /\ lo - w.base \in Nat
        /\ \A a \in Span(lo, n) : InWindow(a, w)
  BY <1>1, NextSegmentIs
<1> DEFINE bytes == [a \in Span(lo, n) |->
                       IF job.kind = "write" THEN job.bytes[a - lo + 1] ELSE 0]
           read  == IF job.kind = "read" THEN ReadBytes(stores[w.id], lo - w.base, n) ELSE <<>>
<1>4. /\ DOMAIN stores' = {x.id : x \in Windows}
      /\ job.kind \in {"write", "clear"} => Wrote(w, lo, n, bytes)
      /\ job.kind = "read" => \A a \in Nat : InMap(a) => MemoryAt(a)' = MemoryAt(a)
  BY <1>3, NativeWrote
<1>5. job' = Rest(n, read)
  <2>1. /\ NextSegment.region.id = w.id /\ NextSegment.region.offset = lo - w.base
    BY <1>3
  <2> QED BY <2>1, Zenon DEF NativeSegment
<1>6. /\ job.kind \in {"read", "write", "clear"} /\ ChunkInv
      /\ job.bytes \in Seq(Nat) /\ DOMAIN job.bytes = 1 .. Len(job.bytes)
  BY <1>1, <1>2 DEF LInv, JobInv
<1> HIDE DEF n, lo
<1>7. ASSUME NEW a \in Memory \cup BootBytes
      PROVE  \/ MemoryAt(a)' = MemoryAt(a) /\ (job.kind # "read" => a \notin Span(lo, n))
             \/ a \in Memory /\ MemoryAt(a)' = image[a]
  <2>1. a \in Nat /\ InMap(a)
    BY BootIsApart
  <2>2. CASE job.kind = "read"
    BY <1>4, <2>1, <2>2
  <2>3. CASE job.kind # "read"
    <3>1. MemoryAt(a)' = IF a \in Span(lo, n) THEN bytes[a] ELSE MemoryAt(a)
      <4>1. Wrote(w, lo, n, bytes)
        BY <1>4, <1>6, <2>3
      <4> HIDE DEF bytes
      <4> QED BY <1>2, <2>1, <4>1, MemoryAfter
    <3>2. CASE a \in Span(lo, n)
      <4> DEFINE i == a - lo + 1
      <4>1. i \in DOMAIN job.bytes /\ lo + i - 1 = a
        BY <1>2, <1>6, <3>2 DEF Span
      <4>2. bytes[a] = IF job.kind = "write" THEN job.bytes[i] ELSE 0
        BY <3>2
      <4> HIDE DEF i, bytes
      <4>3. /\ a \in Memory => job.bytes[i] = image[a]
            /\ a \notin BootBytes /\ (job.kind = "clear" => job.bytes[i] = 0)
        BY <1>6, <2>3, <4>1 DEF ChunkInv, lo
      <4> QED BY <1>6, <2>3, <3>1, <3>2, <4>2, <4>3
    <3> QED BY <3>1, <3>2
  <2> QED BY <2>2, <2>3
<1>8. MemoryInv'
  <2> HIDE DEF read, bytes
  <2> QED BY <1>1, <1>2, <1>4, <1>5, <1>7, RestMemory DEF lo
<1>9. ASSUME job.kind = "read"
      PROVE  /\ \E T : read \in Seq(T)
             /\ Len(read) = n
             /\ \A k \in 1 .. n : Fetched(lo + k - 1, read[k])
  <2> DEFINE byte(k) == ByteAt(stores[w.id], lo - w.base + k - 1)
  <2>1. read = [k \in 1 .. n |-> byte(k)]
    BY <1>9 DEF ReadBytes
  <2>2. read \in [1 .. n -> {byte(k) : k \in 1 .. n}]
    BY <2>1
  <2>3. (\E T : read \in Seq(T)) /\ Len(read) = n
    <3> DEFINE S == {byte(k) : k \in 1 .. n}
    <3>1. read \in [1 .. n -> S]
      BY <2>2
    <3>2. n \in Nat
      BY <1>2
    <3> HIDE DEF read, S
    <3> QED BY <3>1, <3>2, TupleLen
  <2>4. ASSUME NEW k \in 1 .. n, lo + k - 1 \in Memory
        PROVE  read[k] = image[lo + k - 1]
    <3> DEFINE a == lo + k - 1
    <3>1. a \in Span(lo, n) /\ a \in Int
      BY <1>2 DEF Span
    <3>2. WindowOf(a) = w /\ w.base \in Nat
      BY <1>3, <3>1, WindowIs, WindowTypes
    <3>3. MemoryAt(a) = ByteAt(stores[w.id], a - w.base) /\ a - w.base = lo - w.base + k - 1
      BY <1>2, <3>2 DEF MemoryAt
    <3>4. MemoryAt(a) = image[a]
      BY <1>1, <1>9, <2>4, BetweenChunks
    <3>5. read[k] = byte(k)
      BY <2>1
    <3> HIDE DEF read, a
    <3> QED BY <3>3, <3>4, <3>5 DEF a
  <2>5. \A k \in 1 .. n : Fetched(lo + k - 1, read[k])
    <3> HIDE DEF read
    <3> QED BY <1>2, <2>4 DEF Fetched
  <2> HIDE DEF read
  <2> QED BY <2>3, <2>5
<1>10. job.kind # "read" => read = <<>>
  OBVIOUS
<1>11. JobInv'
  <2> HIDE DEF read
  <2> QED BY <1>1, <1>2, <1>5, <1>9, <1>10, RestChunk DEF lo
<1>12. ~ request_pending_ /\ waiting' = FALSE
  BY <1>1, HostIdle DEF IInv, Shape
<1>13. PhaseInv' /\ RequestInv'
  BY <1>1, <1>2, <1>12 DEF LInv, PhaseInv, RequestInv
<1>14. HartInv' /\ SeenInv'
  BY <1>1, Frames
<1> QED BY <1>1, <1>8, <1>11, <1>12, <1>13, <1>14, HostFrame

\* transact has returned: the transfer is done.
LEMMA AnsweredLInv == IInv /\ LInv /\ SegmentAnswered => LInv'
<1> SUFFICES ASSUME IInv, LInv, SegmentAnswered PROVE LInv'
  OBVIOUS
<1> DEFINE n == request_.length
           read == IF job.kind = "read" THEN [i \in 1 .. n |-> response_.data[i - 1]] ELSE <<>>
<1>1. /\ HostRuns /\ ~ failed_ /\ job # NoJob /\ waiting /\ ~ request_pending_
      /\ response_.status = Success /\ waiting' = FALSE /\ job' = Rest(n, read)
      /\ UNCHANGED <<portVars, shellVars, hart>> /\ UNCHANGED <<stores, dirty>>
      /\ UNCHANGED <<phase, failed_, loading_, image_memories, image, seen, ops>>
  BY DEF SegmentAnswered, Answered, HostRuns, portVars
<1>2. phase \in {"load", "poll"} /\ waiting = TRUE /\ request_pending_ = FALSE
  BY <1>1 DEF LInv, PhaseInv, IInv, Shape
<1>3. /\ request_.write <=> job.kind # "read"
      /\ request_.address = job.address /\ n \in 1 .. MaxBytes /\ n <= Len(job.bytes)
  BY <1>1, <1>2 DEF LInv, RequestInv
<1>4. /\ job.kind \in {"read", "write", "clear"} /\ job.address \in Nat /\ job.bytes \in Seq(Nat)
      /\ phase = "load" => ChunkInv
      /\ phase = "poll" => LoopInv
      /\ n \in 1 .. Len(job.bytes) /\ n \in Nat
  BY <1>1, <1>3, PortAssumption DEF LInv, JobInv
<1> HIDE DEF n
<1>5. ASSUME job.kind = "read"
      PROVE  /\ \E T : read \in Seq(T)
             /\ Len(read) = n
             /\ \A k \in 1 .. n : Fetched(job.address + k - 1, read[k])
  <2>1. read = [k \in 1 .. n |-> response_.data[k - 1]]
    BY <1>5
  <2>2. read \in [1 .. n -> {response_.data[k - 1] : k \in 1 .. n}]
    BY <2>1
  <2>3. read \in Seq({response_.data[k - 1] : k \in 1 .. n}) /\ Len(read) = n
    <3> HIDE DEF read
    <3> QED BY <1>4, <2>2, TupleLen
  <2>4. ASSUME NEW k \in 1 .. n
        PROVE  Fetched(job.address + k - 1, read[k])
    <3>1. k - 1 \in 0 .. n - 1 /\ job.address + (k - 1) = job.address + k - 1
      BY <1>4
    <3>2. Fetched(job.address + (k - 1), response_.data[k - 1])
      BY <1>1, <1>3, <1>5, <3>1 DEF LInv, ReadInv, n
    <3>3. read[k] = response_.data[k - 1]
      BY <2>1
    <3> HIDE DEF read
    <3> QED BY <3>1, <3>2, <3>3
  <2> HIDE DEF read
  <2> QED BY <2>3, <2>4
<1>6. job.kind # "read" => read = <<>>
  OBVIOUS
<1> HIDE DEF read
<1>7. PhaseInv' /\ RequestInv' /\ HartInv' /\ SeenInv'
  <2>1. PhaseInv' /\ RequestInv'
    BY <1>1, <1>2 DEF LInv, PhaseInv, RequestInv
  <2>2. HartInv' /\ SeenInv'
    BY <1>1, Frames
  <2> QED BY <2>1, <2>2
<1>8. CASE phase = "load"
  <2>1. JobInv'
    BY <1>1, <1>4, <1>5, <1>6, <1>8, RestChunk
  <2>2. ASSUME NEW a \in Memory \cup BootBytes
        PROVE  \/ MemoryAt(a)' = MemoryAt(a) /\ (job.kind # "read" => a \notin Span(job.address, n))
               \/ a \in Memory /\ MemoryAt(a)' = image[a]
    <3>1. MemoryAt(a)' = MemoryAt(a)
      BY <1>1, MemoryStays
    <3>2. ASSUME job.kind # "read", a \in Span(job.address, n)
          PROVE  a \in Memory /\ MemoryAt(a) = image[a]
      <4> DEFINE i == a - job.address + 1
      <4>1. i \in DOMAIN job.bytes /\ job.address + i - 1 = a
        BY <1>4, <3>2 DEF Span
      <4> HIDE DEF i
      <4>2. a \in Memory
        BY <1>4, <1>8, <3>2, <4>1 DEF ChunkInv
      <4>3. MemoryAt(a) = image[a]
        BY <1>1, <1>2, <1>3, <1>8, <3>2, <4>2 DEF LInv, WrittenInv, n
      <4> QED BY <4>2, <4>3
    <3> QED BY <3>1, <3>2
  <2>3. DOMAIN stores' = {w.id : w \in Windows}
    BY <1>1 DEF LInv, MemoryInv
  <2>4. MemoryInv'
    BY <1>1, <1>4, <1>8, <2>2, <2>3, RestMemory
  <2> QED BY <1>1, <1>7, <2>1, <2>4, HostFrame DEF portVars
<1>9. CASE phase = "poll"
  <2>1. MemoryInv'
    BY <1>1, <1>9, BetweenChunks, MemoryFrame
  <2>2. /\ job.bytes = <<0>> /\ job.address = ToHost /\ n = 1 /\ job.kind \in {"read", "write"}
        /\ job.kind = "read" => job.got = <<>>
        /\ job.got = <<Exit>> => hart = "exiting"
    <3>1. Len(job.bytes) # 0 /\ job.bytes # <<>>
      BY <1>4
    <3>2. job.bytes = <<0>>
      BY <1>4, <1>9, <3>1 DEF LoopInv
    <3>3. Len(job.bytes) = 1
      BY <3>2
    <3> QED BY <1>4, <1>9, <3>1, <3>2, <3>3 DEF LoopInv
  <2>3. /\ job'.kind = job.kind /\ job'.address = job.address + n /\ job'.got = job.got \o read
        /\ job'.bytes \in Seq(Nat) /\ Len(job'.bytes) = Len(job.bytes) - n
    BY <1>1, <1>4, RestIs DEF IInv, Shape
  <2>4. job'.bytes = <<>>
    BY <2>2, <2>3
  <2>5. PICK T : read \in Seq(T)
    <3>1. <<>> \in Seq({})
      OBVIOUS
    <3> QED BY <1>5, <1>6, <3>1
  <2>6. PICK S : job.got \in Seq(S)
    BY <1>1 DEF LInv, JobInv
  <2>7. job'.got \in Seq(S \cup T)
    BY <2>3, <2>5, <2>6, SeqJoin
  <2>8. job'.got = <<Exit>> => hart = "exiting"
    <3>1. CASE job.kind = "read"
      <4>1. job'.got = read
        <5>1. <<>> \o read = read
          BY <2>5
        <5> QED BY <2>2, <2>3, <3>1, <5>1
      <4>2. Fetched(job.address + 1 - 1, read[1])
        BY <1>5, <2>2, <3>1
      <4>3. ToHost \in Nat
        BY BootIsApart, ProgramAssumption
      <4> QED BY <1>9, <2>2, <4>1, <4>2, <4>3 DEF Fetched
    <3>2. CASE job.kind # "read"
      <4>1. job'.got = job.got
        BY <1>6, <2>3, <2>6, <3>2
      <4> QED BY <2>2, <4>1
    <3> QED BY <3>1, <3>2
  <2>9. LoopInv'
    BY <1>1, <2>2, <2>3, <2>4, <2>8 DEF LoopInv
  <2>10. job'.address \in Nat /\ ops' \in Nat
    BY <1>1, <1>4, <2>3 DEF LInv, JobInv
  <2>11. JobInv'
    BY <1>1, <1>9, <2>2, <2>3, <2>7, <2>9, <2>10 DEF JobInv
  <2> QED BY <1>1, <1>7, <2>1, <2>11, HostFrame DEF portVars
<1> QED BY <1>2, <1>8, <1>9

\* A chunk is done: what it has read is the image.
LEMMA DoneLInv == IInv /\ LInv /\ ChunkDone => LInv'
<1> SUFFICES ASSUME IInv, LInv, ChunkDone PROVE LInv'
  OBVIOUS
<1>1. /\ HostRuns /\ ~ failed_ /\ job # NoJob /\ job.bytes = <<>> /\ phase = "load" /\ ~ waiting
      /\ job' = NoJob
      /\ UNCHANGED <<portVars, shellVars, hart>> /\ UNCHANGED <<stores, dirty>>
      /\ UNCHANGED <<phase, failed_, loading_, image_memories, waiting, image, ops>>
  BY DEF ChunkDone, Finished, HostRuns, portVars
<1>2. ~ request_pending_ /\ waiting' = FALSE
  BY <1>1, HostIdle DEF IInv, Shape
<1>3. PhaseInv' /\ RequestInv' /\ JobInv'
  BY <1>1, <1>2 DEF LInv, PhaseInv, RequestInv, JobInv
<1>4. MemoryInv'
  BY <1>1, BetweenChunks, MemoryFrame
<1>5. HartInv'
  BY <1>1, Frames
<1>6. SeenInv'
  <2>1. CASE job.kind # "read"
    BY <2>1 DEF ChunkDone, LInv, SeenInv
  <2>2. CASE job.kind = "read"
    <3> DEFINE at(i)    == job.address - Len(job.got) + i - 1
               byte(i)  == IF at(i) \in Memory THEN image[at(i)] ELSE job.got[i]
               expected == [i \in 1 .. Len(job.got) |-> byte(i)]
    <3>1. seen' = [got |-> job.got, expected |-> expected]
      BY <2>2 DEF ChunkDone
    <3>2. PICK S : job.got \in Seq(S)
      BY <1>1 DEF LInv, JobInv
    <3>3. /\ DOMAIN job.got = 1 .. Len(job.got) /\ job.got = [i \in 1 .. Len(job.got) |-> job.got[i]]
      BY <3>2
    <3>4. ASSUME NEW i \in 1 .. Len(job.got) PROVE byte(i) = job.got[i]
      <4>1. Fetched(at(i), job.got[i])
        BY <1>1, <2>2, <3>3 DEF LInv, JobInv, ChunkInv
      <4> HIDE DEF at
      <4> QED BY <1>1, <4>1 DEF Fetched
    <3>5. expected = job.got
      <4> HIDE DEF byte
      <4> QED BY <3>3, <3>4
    <3> HIDE DEF expected
    <3> QED BY <3>1, <3>5 DEF SeenInv
  <2> QED BY <2>1, <2>2
<1> QED BY <1>1, <1>2, <1>3, <1>4, <1>5, <1>6, HostFrame DEF portVars

------------------------------------------------------------------------------
\* Every step keeps both invariants.
LEMMA NextLInv == IInv /\ LInv /\ [Next]_vars => LInv'
<1> SUFFICES ASSUME IInv, LInv, [Next]_vars PROVE LInv'
  OBVIOUS
<1>1. CASE Memories
  BY <1>1, FlitStep, WriteStep DEF Memories, MemoryStep
<1>2. CASE HostStep
  BY <1>2, FailsLInv, PublishLInv, LoopLInv, PostLInv, StartLInv, NativeLInv, AnsweredLInv, DoneLInv
     DEF HostStep
<1>3. CASE Edge \/ HartStep \/ Construct
  BY <1>3, EdgeLInv, HartLInv, ConstructLInv
<1>4. CASE ResetEdge \/ Register \/ ReleaseReset \/ StartupFails \/ UNCHANGED vars
  BY <1>4, ResetLInv
<1> QED BY <1>1, <1>2, <1>3, <1>4 DEF Next

\* Between two chunks, memory is the image the chunks describe.
LEMMA LInvLoadedExactly == LInv => LoadedExactly
<1> SUFFICES ASSUME LInv PROVE LoadedExactly
  OBVIOUS
<1>1. ASSUME job = NoJob, ~ failed_, hart = "rom", NEW a \in Memory
      PROVE  CoherentAt(a) = image[a]
  BY <1>1, BetweenChunks DEF LInv, HartInv, CoherentAt
<1> QED BY <1>1 DEF LoadedExactly, LInv, SeenInv

\* A hart that has left the ROM, or can, finds the image in memory.
LEMMA LInvBootAfterLoad == LInv => BootAfterLoad
<1> SUFFICES ASSUME LInv PROVE BootAfterLoad
  OBVIOUS
<1>1. ASSUME Booted \/ hart # "rom"
      PROVE  /\ ~ loading_ /\ phase \notin {"off", "load"}
  BY <1>1, NotBooted DEF LInv, HartInv, PhaseInv
<1>2. ASSUME Booted \/ hart # "rom", NEW a \in Memory \ {ToHost}
      PROVE  CoherentAt(a) = image[a]
  BY <1>1, <1>2 DEF LInv, HartInv, MemoryInv, CoherentAt
<1> QED BY <1>1, <1>2 DEF BootAfterLoad, LInv, HartInv

\* Wherever a chunk is, in a native store, in a request, at the port or in the
\* memory, its bytes are the image's.
THEOREM HostLoads == Spec => [](IInv /\ LInv)
<1>1. LoadInit => IInv /\ LInv
  BY InitIInv, InitLInv
<1>2. IInv /\ LInv /\ [Next]_vars => IInv' /\ LInv'
  BY NextIInv, NextLInv
<1> QED BY <1>1, <1>2, PTL DEF Spec

\* For any program, design, memory map and width: between two chunks the memory
\* is byte for byte the one the chunks describe, and a chunk that is read back
\* is that memory.
THEOREM HostLoadedExactly == Spec => []LoadedExactly
BY HostLoads, LInvLoadedExactly, PTL

\* For any program, design, memory map and width: a hart leaves the ROM with the
\* whole image in memory and native access closed, and the simulation passes
\* only when the program has exited.
THEOREM HostBootAfterLoad == Spec => []BootAfterLoad
BY HostLoads, LInvBootAfterLoad, PTL
=============================================================================
