---------------------------- MODULE UartPtyProofs ----------------------------
(***************************************************************************)
(* Theorems about UartPty, for any frame length and any bounds of the      *)
(* environment: output reaches the terminal once and in order, and paced   *)
(* input reaches the device.  Both are statements about the sequence of    *)
(* bytes that is spread over the kernel, the queues, the registers and the *)
(* far end: a tick moves its cuts, and only a new byte makes it longer.    *)
(***************************************************************************)
EXTENDS UartPty, SequenceTheorems, TLAPS

Bytes == Nat \ {NoByte}

TypeInv ==
  /\ typed \in Nat /\ sent \in Nat /\ resets \in Nat /\ busy \in Nat
  /\ kernel \in Seq(Bytes) /\ pty_to_uart \in Seq(Bytes) /\ accepted \in Seq(Bytes)
  /\ terminal \in Seq(Nat) /\ uart_to_pty \in Seq(Nat)
  /\ presented \in Nat

------------------------------------------------------------------------------
(* Cutting a sequence and making it longer.                                *)

\* What is taken and what is left are the whole.
LEMMA TakenAndLeft ==
  ASSUME NEW S, NEW s \in Seq(S), NEW n \in Nat, n <= Len(s)
  PROVE  /\ Taken(s, n) \in Seq(S) /\ Left(s, n) \in Seq(S)
         /\ Taken(s, n) \o Left(s, n) = s
<1>1. Len(s) \in Nat /\ \A i \in 1 .. Len(s) : s[i] \in S
  BY LenProperties, ElementOfSeq
<1>2. Taken(s, n) \in Seq(S) /\ Left(s, n) \in Seq(S)
  BY <1>1, SubSeqProperties DEF Taken, Left
<1>3. SubSeq(s, 1, n) \o SubSeq(s, n + 1, Len(s)) = SubSeq(s, 1, Len(s))
  <2>1. 1 \in 1 .. Len(s) + 1 /\ n \in 1 - 1 .. Len(s) /\ Len(s) \in n .. Len(s)
    BY <1>1
  <2> QED BY <2>1, ConcatAdjacentSubSeq
<1> QED BY <1>2, <1>3, SubSeqFull DEF Taken, Left

\* Where a concatenation is cut does not matter.
LEMMA Regroup ==
  ASSUME NEW S, NEW s \in Seq(S), NEW t \in Seq(S), NEW u \in Seq(S)
  PROVE  /\ s \o t \in Seq(S) /\ t \o u \in Seq(S)
         /\ (s \o t) \o u = s \o (t \o u)
<1>1. s \o t \in Seq(S) /\ t \o u \in Seq(S)
  BY ConcatProperties
<1>2. (s \o t) \o u = s \o (t \o u)
  <2>1. Len(s) \in Nat /\ Len(t) \in Nat /\ Len(u) \in Nat
    BY LenProperties
  <2>2. /\ Len(s \o t) = Len(s) + Len(t)
        /\ \A i \in 1 .. Len(s) + Len(t) :
             (s \o t)[i] = IF i <= Len(s) THEN s[i] ELSE t[i - Len(s)]
    BY ConcatProperties
  <2>3. /\ Len(t \o u) = Len(t) + Len(u)
        /\ \A i \in 1 .. Len(t) + Len(u) :
             (t \o u)[i] = IF i <= Len(t) THEN t[i] ELSE u[i - Len(t)]
    BY ConcatProperties
  <2>4. PICK st \in Seq(S), tu \in Seq(S) : st = s \o t /\ tu = t \o u
    BY <1>1
  <2>5. /\ st \o u \in Seq(S) /\ Len(st \o u) = Len(st) + Len(u)
        /\ \A i \in 1 .. Len(st) + Len(u) :
             (st \o u)[i] = IF i <= Len(st) THEN st[i] ELSE u[i - Len(st)]
    BY ConcatProperties
  <2>6. /\ s \o tu \in Seq(S) /\ Len(s \o tu) = Len(s) + Len(tu)
        /\ \A i \in 1 .. Len(s) + Len(tu) :
             (s \o tu)[i] = IF i <= Len(s) THEN s[i] ELSE tu[i - Len(s)]
    BY ConcatProperties
  <2>7. \A i \in 1 .. Len(st \o u) : (st \o u)[i] = (s \o tu)[i]
    BY <2>1, <2>2, <2>3, <2>4, <2>5, <2>6
  <2> QED BY <2>1, <2>2, <2>3, <2>4, <2>5, <2>6, <2>7, SeqEqual
<1> QED BY <1>1, <1>2

\* What is taken off the front of one sequence and put behind another.
LEMMA MoveTheCut ==
  ASSUME NEW S, NEW s \in Seq(S), NEW q \in Seq(S), NEW n \in Nat, n <= Len(q)
  PROVE  (s \o Taken(q, n)) \o Left(q, n) = s \o q
<1>1. PICK t \in Seq(S), u \in Seq(S) : t = Taken(q, n) /\ u = Left(q, n) /\ t \o u = q
  BY TakenAndLeft
<1>2. (s \o t) \o u = s \o (t \o u)
  BY SMTT(60), Regroup
<1> QED BY <1>1, <1>2

\* The head goes in front of the tail.
LEMMA HeadAndTail ==
  ASSUME NEW S, NEW s \in Seq(S), s # <<>>
  PROVE  Head(s) \in S /\ Tail(s) \in Seq(S) /\ <<Head(s)>> \o Tail(s) = s
<1>1. /\ Head(s) \in S /\ Tail(s) \in Seq(S) /\ Len(Tail(s)) = Len(s) - 1
      /\ \A i \in 1 .. Len(Tail(s)) : Tail(s)[i] = s[i + 1]
  BY HeadTailProperties
<1>2. Head(s) = s[1] /\ Len(s) \in Nat \ {0} /\ <<Head(s)>> \in Seq(S) /\ Len(<<Head(s)>>) = 1
  BY <1>1, EmptySeq, LenProperties
<1>3. /\ <<Head(s)>> \o Tail(s) \in Seq(S) /\ Len(<<Head(s)>> \o Tail(s)) = Len(s)
      /\ \A i \in 1 .. Len(s) : (<<Head(s)>> \o Tail(s))[i] = s[i]
  BY <1>1, <1>2, ConcatProperties
<1> QED BY <1>1, <1>3, SeqEqual

\* One more byte.
LEMMA OneMore ==
  ASSUME NEW n \in Nat
  PROVE  UpTo(n) \in Seq(Bytes) /\ Append(UpTo(n), n + 1) = UpTo(n + 1) /\ UpTo(0) = <<>>
<1>1. /\ UpTo(n) \in Seq(Bytes) /\ Len(UpTo(n)) = n
      /\ UpTo(n + 1) \in Seq(Bytes) /\ Len(UpTo(n + 1)) = n + 1 /\ n + 1 \in Bytes
  BY DEF UpTo, Bytes, NoByte
<1>2. /\ Append(UpTo(n), n + 1) \in Seq(Bytes) /\ Len(Append(UpTo(n), n + 1)) = n + 1
      /\ \A i \in 1 .. n : Append(UpTo(n), n + 1)[i] = UpTo(n)[i]
      /\ Append(UpTo(n), n + 1)[n + 1] = n + 1
  BY <1>1, AppendProperties
<1>3. \A i \in 1 .. n + 1 : Append(UpTo(n), n + 1)[i] = UpTo(n + 1)[i]
  BY <1>2 DEF UpTo
<1>4. UpTo(0) = <<>>
  BY DEF UpTo
<1> QED BY <1>1, <1>2, <1>3, <1>4, SeqEqual

Increasing(q) == \A i, j \in DOMAIN q : i < j => q[i] < q[j]
Bounded(q, n) == \A i \in DOMAIN q : q[i] <= n

\* Increasing bytes followed by a greater one.
LEMMA StillIncreasing ==
  ASSUME NEW q \in Seq(Nat), NEW n \in Nat, Increasing(q), Bounded(q, n)
  PROVE  Increasing(Append(q, n + 1)) /\ Bounded(Append(q, n + 1), n + 1)
<1> DEFINE a == Append(q, n + 1)
<1>1. /\ Len(q) \in Nat /\ DOMAIN q = 1 .. Len(q) /\ DOMAIN a = 1 .. Len(q) + 1
      /\ \A i \in 1 .. Len(q) : a[i] = q[i] /\ q[i] \in Nat
      /\ a[Len(q) + 1] = n + 1
  BY LenProperties, ElementOfSeq, AppendProperties
<1> HIDE DEF a
<1>2. Bounded(a, n + 1)
  BY <1>1 DEF Bounded
<1>3. Increasing(a)
  BY SMTT(60), <1>1 DEF Increasing, Bounded
<1> QED BY <1>2, <1>3 DEF a

------------------------------------------------------------------------------
(* Types.                                                                  *)

\* What stands on the wires to the transmitter.
Presented == IF presented = NoByte THEN <<>> ELSE <<presented>>

\* The state before the first edge.
LEMMA InitType == Init => TypeInv
BY EmptySeq DEF Init, TypeInv, NoByte

\* An edge, succeeding or failing, moves sequences of bytes.
LEMMA EdgeType ==
  ASSUME TypeInv, NEW frame \in BOOLEAN, NEW read \in Nat, NEW written \in Nat,
         Edge(frame, \/ TickSucceeds(frame, read, written, Ready)
                     \/ OpenFails \/ ReadFails(read) \/ WriteFails(frame, read, written))
  PROVE  TypeInv'
<1>1. typed' \in Nat /\ sent' \in Nat /\ resets' \in Nat
  BY DEF Edge, TypeInv
<1>2. busy' \in Nat /\ accepted' \in Seq(Bytes)
  <2>1. presented # NoByte => Append(accepted, presented) \in Seq(Bytes)
    BY AppendProperties DEF TypeInv, Bytes
  <2>2. Transmit
    BY DEF Edge
  <2>3. busy \in Nat /\ accepted \in Seq(Bytes) /\ FrameCycles \in Nat
    BY UartAssumption DEF TypeInv
  <2> QED BY <2>1, <2>2, <2>3 DEF Transmit
<1>3. Received(frame) \in Seq(Nat)
  BY AppendProperties DEF Received, TypeInv
<1>4. ASSUME ReadPty(read)
      PROVE  kernel' \in Seq(Bytes) /\ pty_to_uart \o Taken(kernel, read) \in Seq(Bytes)
  BY <1>4, TakenAndLeft, ConcatProperties DEF ReadPty, TypeInv
<1>5. ASSUME WritePty(Received(frame), written)
      PROVE  terminal' \in Seq(Nat) /\ uart_to_pty' \in Seq(Nat)
  BY <1>3, <1>5, TakenAndLeft, ConcatProperties DEF WritePty, TypeInv
<1>6. CASE TickSucceeds(frame, read, written, Ready)
  <2>1. /\ ReadPty(read) /\ WritePty(Received(frame), written)
        /\ TakeInput(pty_to_uart \o Taken(kernel, read), Ready)
    BY <1>6 DEF TickSucceeds
  <2>2. pty_to_uart' \in Seq(Bytes) /\ presented' \in Nat
    <3>1. PICK queue \in Seq(Bytes) : TakeInput(queue, Ready)
      BY <1>4, <2>1
    <3>2. queue # <<>> => Head(queue) \in Nat /\ Tail(queue) \in Seq(Bytes)
      BY HeadAndTail DEF Bytes
    <3> QED BY <3>1, <3>2 DEF TakeInput, NoByte
  <2> QED BY <1>1, <1>2, <1>4, <1>5, <2>1, <2>2 DEF TypeInv
<1>7. CASE OpenFails
  BY <1>1, <1>2, <1>7 DEF OpenFails, Fails, TypeInv, NoByte
<1>8. CASE ReadFails(read)
  BY <1>1, <1>2, <1>4, <1>8 DEF ReadFails, Fails, TypeInv, NoByte
<1>9. CASE WriteFails(frame, read, written)
  BY <1>1, <1>2, <1>4, <1>5, <1>9 DEF WriteFails, Fails, TypeInv, NoByte
<1> QED BY <1>6, <1>7, <1>8, <1>9 DEF Edge

\* Every step keeps the types.
LEMMA NextType == TypeInv /\ [Next]_vars => TypeInv'
<1> SUFFICES ASSUME TypeInv, [Next]_vars PROVE TypeInv'
  OBVIOUS
<1> USE DEF vars, hostVars, modelVars, rtlVars
<1>1. CASE Type
  <2>1. typed + 1 \in Bytes
    BY DEF TypeInv, Bytes, NoByte
  <2> QED BY <1>1, <2>1, AppendProperties DEF Type, TypeInv
<1>2. CASE AssertReset \/ ReleaseReset \/ StatusAssertion \/ UNCHANGED vars
  BY SMTT(60), <1>2 DEF AssertReset, ReleaseReset, StatusAssertion, TypeInv
<1>3. CASE EdgeSucceeds \/ EdgeFails
  <2>1. 0 .. MaxTyped \subseteq Nat /\ 0 .. MaxSent \subseteq Nat
    OBVIOUS
  <2>2. PICK frame \in BOOLEAN, read \in Nat, written \in Nat :
          Edge(frame, \/ TickSucceeds(frame, read, written, Ready)
                      \/ OpenFails \/ ReadFails(read) \/ WriteFails(frame, read, written))
    BY <1>3, <2>1 DEF EdgeSucceeds, EdgeFails, Edge
  <2> QED BY <2>2, EdgeType
<1> QED BY <1>1, <1>2, <1>3 DEF Next

------------------------------------------------------------------------------
(* Device to terminal.                                                     *)

Output == terminal \o uart_to_pty

\* Output grows in order; without a failure it is everything.
OutputInv ==
  /\ Increasing(Output) /\ Bounded(Output, sent)
  /\ ~ faulted => Output = UpTo(sent)

\* A write moves the cut between terminal and queue, nothing else.
LEMMA WriteMovesTheCut ==
  ASSUME TypeInv, NEW queue \in Seq(Nat), NEW n \in Nat, WritePty(queue, n)
  PROVE  Output' = terminal \o queue
<1>1. (terminal \o Taken(queue, n)) \o Left(queue, n) = terminal \o queue
  BY MoveTheCut DEF WritePty, TypeInv
<1> QED BY <1>1 DEF WritePty, Output

\* A tick leaves the output as it was, or makes it longer by the frame that
\* was completed; only a failed tick loses that.
LEMMA EdgeOutput ==
  ASSUME TypeInv, OutputInv, NEW frame \in BOOLEAN, NEW read \in Nat, NEW written \in Nat,
         Edge(frame, \/ TickSucceeds(frame, read, written, Ready)
                     \/ OpenFails \/ ReadFails(read) \/ WriteFails(frame, read, written))
  PROVE  OutputInv'
<1>1. /\ sent \in Nat /\ sent' = IF frame THEN sent + 1 ELSE sent
      /\ Output \in Seq(Nat) /\ Received(frame) \in Seq(Nat)
  BY ConcatProperties, AppendProperties DEF Edge, TypeInv, Output, Received
<1>2. terminal \o Received(frame) = IF frame THEN Append(Output, sent + 1) ELSE Output
  <2>1. CASE ~ frame
    BY <2>1 DEF Received, Output
  <2>2. CASE frame
    <3>1. Received(frame) = uart_to_pty \o <<sent + 1>>
      BY <1>1, <2>2, AppendIsConcat DEF Edge, Received, TypeInv
    <3>2. <<sent + 1>> \in Seq(Nat)
      BY <1>1
    <3>3. terminal \in Seq(Nat) /\ uart_to_pty \in Seq(Nat)
      BY DEF TypeInv
    <3>4. (terminal \o uart_to_pty) \o <<sent + 1>> = terminal \o (uart_to_pty \o <<sent + 1>>)
      BY <3>2, <3>3, Regroup
    <3>5. Append(Output, sent + 1) = Output \o <<sent + 1>>
      BY <1>1, AppendIsConcat
    <3> QED BY <2>2, <3>1, <3>4, <3>5 DEF Output
  <2> QED BY <2>1, <2>2
<1>3. Output' \in {Output, terminal \o Received(frame)}
  <2>1. CASE OpenFails \/ ReadFails(read)
    BY <2>1 DEF OpenFails, ReadFails, Output
  <2>2. CASE WritePty(Received(frame), written)
    BY <1>1, <2>2, WriteMovesTheCut
  <2> QED BY <2>1, <2>2 DEF Edge, TickSucceeds, WriteFails
<1>4. ~ faulted' => ~ faulted /\ Output' = terminal \o Received(frame)
  BY <1>1, WriteMovesTheCut
     DEF Edge, TickSucceeds, Succeeds, OpenFails, ReadFails, WriteFails, Fails
<1>5. Increasing(Output') /\ Bounded(Output', sent')
  <2>1. Bounded(Output, sent + 1)
    BY <1>1, LenProperties, ElementOfSeq DEF OutputInv, Bounded
  <2> QED BY <1>1, <1>2, <1>3, <2>1, StillIncreasing DEF OutputInv
<1>6. ~ faulted' => Output' = UpTo(sent')
  BY <1>1, <1>2, <1>4, OneMore DEF OutputInv
<1> QED BY <1>5, <1>6 DEF OutputInv, Increasing, Bounded, UpTo

\* Bytes received from the device reach the terminal once and in order
\* (uart_dpi.cc, write_pty), whatever a write takes and whenever reset comes.
THEOREM UartOutputTransparent == Spec => []OutputTransparent
<1>1. Init => TypeInv /\ OutputInv
  <2> SUFFICES ASSUME Init PROVE OutputInv
    BY InitType
  <2>1. Output = <<>> /\ sent = 0 /\ UpTo(0) = <<>>
    BY OneMore, ConcatEmptySeq, EmptySeq DEF Init, Output
  <2>2. DOMAIN Output = {}
    BY <2>1
  <2> QED BY <2>1, <2>2 DEF OutputInv, Increasing, Bounded
<1>2. TypeInv /\ OutputInv /\ [Next]_vars => OutputInv'
  <2> SUFFICES ASSUME TypeInv, OutputInv, [Next]_vars PROVE OutputInv'
    OBVIOUS
  <2>1. CASE EdgeSucceeds \/ EdgeFails
    <3>1. 0 .. MaxTyped \subseteq Nat /\ 0 .. MaxSent \subseteq Nat
      OBVIOUS
    <3>2. PICK frame \in BOOLEAN, read \in Nat, written \in Nat :
            Edge(frame, \/ TickSucceeds(frame, read, written, Ready)
                        \/ OpenFails \/ ReadFails(read) \/ WriteFails(frame, read, written))
      BY <2>1, <3>1 DEF EdgeSucceeds, EdgeFails, Edge
    <3> QED BY <3>2, EdgeOutput
  <2>2. CASE ~ (EdgeSucceeds \/ EdgeFails)
    <3>1. UNCHANGED <<terminal, uart_to_pty, sent, faulted>>
      BY <2>2 DEF Next, Type, AssertReset, ReleaseReset, StatusAssertion, vars, hostVars,
                  modelVars, rtlVars
    <3> QED BY <3>1 DEF OutputInv, Output, Increasing, Bounded, UpTo
  <2> QED BY <2>1, <2>2
<1>3. TypeInv /\ OutputInv => OutputTransparent
  <2> SUFFICES ASSUME TypeInv, OutputInv PROVE OutputTransparent
    OBVIOUS
  <2>1. /\ Output \in Seq(Nat) /\ Len(terminal) \in Nat /\ Len(uart_to_pty) \in Nat
        /\ DOMAIN terminal = 1 .. Len(terminal)
        /\ DOMAIN Output = 1 .. Len(terminal) + Len(uart_to_pty)
        /\ \A i \in DOMAIN terminal : Output[i] = terminal[i]
    BY ConcatProperties, LenProperties DEF TypeInv, Output
  <2>2. \A i, j \in DOMAIN terminal : i < j => terminal[i] < terminal[j]
    BY <2>1 DEF OutputInv, Increasing
  <2> QED BY <2>2 DEF OutputInv, OutputTransparent, Output
<1>4. TypeInv /\ [Next]_vars => TypeInv'
  BY NextType
<1> QED BY <1>1, <1>2, <1>3, <1>4, PTL DEF Spec

------------------------------------------------------------------------------
(* Terminal to device.                                                     *)

\* What was typed and the transmitter has not taken yet.
OnItsWay == Presented \o (pty_to_uart \o kernel)

Paced == ~ typedAhead /\ ~ faulted /\ resets = 0

\* Paced input is one byte at a time, and a byte is presented only to a
\* transmitter that will take it at the next edge.
PacedInv ==
  Paced => /\ accepted \o OnItsWay = UpTo(typed)
           /\ Len(OnItsWay) <= 1
           /\ presented # NoByte => ~ reset /\ busy = 0

\* The input's parts are sequences of bytes, and their lengths add up.
LEMMA InputTypes ==
  ASSUME TypeInv
  PROVE  /\ Presented \in Seq(Bytes) /\ pty_to_uart \o kernel \in Seq(Bytes)
         /\ OnItsWay \in Seq(Bytes)
         /\ Len(OnItsWay) = Len(Presented) + Len(pty_to_uart) + Len(kernel)
         /\ Len(Presented) = IF presented = NoByte THEN 0 ELSE 1
         /\ Len(pty_to_uart) \in Nat /\ Len(kernel) \in Nat
<1>1. /\ pty_to_uart \o kernel \in Seq(Bytes)
      /\ Len(pty_to_uart \o kernel) = Len(pty_to_uart) + Len(kernel)
      /\ Len(pty_to_uart) \in Nat /\ Len(kernel) \in Nat
  BY ConcatProperties, LenProperties DEF TypeInv
<1>2. Presented \in Seq(Bytes) /\ Len(Presented) = IF presented = NoByte THEN 0 ELSE 1
  <2>1. CASE presented = NoByte
    BY <2>1, EmptySeq DEF Presented
  <2>2. CASE presented # NoByte
    <3>1. presented \in Bytes
      BY <2>2 DEF TypeInv, Bytes
    <3> QED BY <2>2, <3>1 DEF Presented
  <2> QED BY <2>1, <2>2
<1>3. /\ OnItsWay \in Seq(Bytes)
      /\ Len(OnItsWay) = Len(Presented) + Len(pty_to_uart \o kernel)
  BY <1>1, <1>2, ConcatProperties DEF OnItsWay
<1> QED BY <1>1, <1>2, <1>3

\* Reading and presenting move bytes along their way.
LEMMA InputMoves ==
  ASSUME TypeInv, presented = NoByte, NEW read \in Nat, ReadPty(read),
         TakeInput(pty_to_uart \o Taken(kernel, read), Ready)
  PROVE  OnItsWay' = OnItsWay
<1>1. PICK queue \in Seq(Bytes), rest \in Seq(Bytes) :
        /\ queue = pty_to_uart \o Taken(kernel, read) /\ rest = kernel'
        /\ queue \o rest = pty_to_uart \o kernel
  <2>1. Taken(kernel, read) \in Seq(Bytes) /\ Left(kernel, read) \in Seq(Bytes)
    BY TakenAndLeft DEF ReadPty, TypeInv
  <2>2. pty_to_uart \o Taken(kernel, read) \in Seq(Bytes)
    BY <2>1, ConcatProperties DEF TypeInv
  <2>3. (pty_to_uart \o Taken(kernel, read)) \o Left(kernel, read) = pty_to_uart \o kernel
    BY MoveTheCut DEF ReadPty, TypeInv
  <2> QED BY <2>1, <2>2, <2>3 DEF ReadPty
<1>2. TakeInput(queue, Ready)
  BY <1>1
<1>3. OnItsWay = queue \o rest
  BY <1>1, InputTypes, ConcatEmptySeq DEF OnItsWay, Presented
<1>4. CASE ~ reset /\ Ready /\ queue # <<>>
  <2>1. presented' = Head(queue) /\ pty_to_uart' = Tail(queue)
    BY <1>2, <1>4 DEF TakeInput
  <2>2. /\ Head(queue) \in Bytes /\ Tail(queue) \in Seq(Bytes)
        /\ <<Head(queue)>> \o Tail(queue) = queue
    BY <1>4, HeadAndTail
  <2>3. OnItsWay' = <<Head(queue)>> \o (Tail(queue) \o rest)
    BY <1>1, <2>1, <2>2 DEF OnItsWay, Presented, Bytes
  <2>4. PICK h \in Seq(Bytes), t \in Seq(Bytes) : h = <<Head(queue)>> /\ t = Tail(queue)
    <3>1. <<Head(queue)>> \in Seq(Bytes)
      BY <2>2
    <3> QED BY <2>2, <3>1
  <2>5. (h \o t) \o rest = h \o (t \o rest)
    BY Regroup
  <2> QED BY <1>3, <2>2, <2>3, <2>4, <2>5
<1>5. CASE ~ (~ reset /\ Ready /\ queue # <<>>)
  <2>1. presented' = NoByte /\ pty_to_uart' = queue
    BY <1>2, <1>5 DEF TakeInput
  <2>2. OnItsWay' = <<>> \o (queue \o rest) /\ queue \o rest \in Seq(Bytes)
    BY <1>1, <2>1, ConcatProperties DEF OnItsWay, Presented
  <2> QED BY <1>3, <2>2, ConcatEmptySeq
<1> QED BY <1>4, <1>5

\* An edge that succeeds takes the byte that was presented, or moves the one
\* that was not.
LEMMA EdgeInput ==
  ASSUME TypeInv, PacedInv, Paced,
         NEW frame \in BOOLEAN, NEW read \in Nat, NEW written \in Nat,
         Edge(frame, TickSucceeds(frame, read, written, Ready))
  PROVE  /\ accepted' \o OnItsWay' = UpTo(typed)
         /\ Len(OnItsWay') <= 1
         /\ presented' # NoByte => ~ reset' /\ busy' = 0
<1>1. /\ Transmit /\ ReadPty(read) /\ reset' = reset
      /\ TakeInput(pty_to_uart \o Taken(kernel, read), Ready)
  BY DEF Edge, TickSucceeds
<1>2. /\ accepted \o OnItsWay = UpTo(typed) /\ Len(OnItsWay) <= 1
      /\ presented # NoByte => ~ reset /\ busy = 0
  BY DEF PacedInv
<1>3. CASE presented = NoByte
  <2>1. OnItsWay' = OnItsWay
    BY <1>1, <1>3, InputMoves
  <2>2. accepted' = accepted
    BY <1>1, <1>3 DEF Transmit
  <2>3. presented' # NoByte => Ready
    BY <1>1 DEF TakeInput
  <2>4. Ready => ~ reset /\ busy' = 0
    BY <1>1, <1>3 DEF Ready, Transmit
  <2> QED BY <1>1, <1>2, <2>1, <2>2, <2>3, <2>4
<1>4. CASE presented # NoByte
  <2>1. Len(kernel) = 0 /\ Len(pty_to_uart) = 0
    BY <1>2, <1>4, InputTypes
  <2>2. kernel = <<>> /\ pty_to_uart = <<>>
    BY <2>1, EmptySeq DEF TypeInv
  <2>3. Taken(kernel, read) = <<>> /\ kernel' = <<>>
    <3>1. read = 0
      BY <1>1, <2>1 DEF ReadPty
    <3> QED BY <1>1, <2>2, <3>1 DEF ReadPty, Taken, Left
  <2>4. presented' = NoByte /\ pty_to_uart' = <<>>
    BY <1>1, <2>2, <2>3 DEF TakeInput
  <2>5. OnItsWay' = <<>> /\ OnItsWay = <<presented>>
    BY <1>4, <2>2, <2>3, <2>4 DEF OnItsWay, Presented, TypeInv
  <2>6. accepted' = Append(accepted, presented) /\ accepted' \in Seq(Bytes)
    <3>1. presented \in Bytes /\ accepted \in Seq(Bytes)
      BY <1>4 DEF TypeInv, Bytes
    <3>2. Append(accepted, presented) \in Seq(Bytes)
      BY <3>1, AppendProperties
    <3>3. ~ reset /\ busy = 0
      BY <1>2, <1>4
    <3> QED BY <1>1, <1>4, <3>2, <3>3 DEF Transmit
  <2>7. Append(accepted, presented) = accepted \o <<presented>>
    BY <1>4, AppendIsConcat DEF TypeInv
  <2>8. accepted' \o <<>> = accepted'
    BY <2>6, ConcatEmptySeq
  <2> QED BY <1>2, <2>4, <2>5, <2>6, <2>7, <2>8
<1> QED BY <1>3, <1>4

\* A byte typed when nothing is on its way is the only one on its way.
LEMMA TypeInput ==
  ASSUME TypeInv, PacedInv, Paced, Type, ~ typedAhead'
  PROVE  /\ accepted' \o OnItsWay' = UpTo(typed')
         /\ Len(OnItsWay') <= 1
         /\ presented' = NoByte
<1>1. /\ kernel = <<>> /\ pty_to_uart = <<>> /\ presented = NoByte
      /\ typed' = typed + 1 /\ kernel' = Append(kernel, typed + 1)
      /\ UNCHANGED <<accepted, pty_to_uart, presented>>
  BY DEF Type, Quiet, modelVars, rtlVars
<1>2. typed \in Nat /\ typed + 1 \in Bytes /\ accepted \in Seq(Bytes)
  BY DEF TypeInv, Bytes, NoByte
<1>3. kernel' = <<typed + 1>>
  BY <1>1, <1>2
<1>4. OnItsWay' = <<typed + 1>> /\ OnItsWay = <<>>
  BY <1>1, <1>2, <1>3 DEF OnItsWay, Presented
<1>5. accepted = UpTo(typed)
  BY <1>2, <1>4, ConcatEmptySeq DEF PacedInv
<1>6. Append(accepted, typed + 1) = accepted \o <<typed + 1>>
  BY <1>2, AppendIsConcat
<1>7. accepted' \o OnItsWay' = UpTo(typed')
  <2>1. Append(UpTo(typed), typed + 1) = UpTo(typed + 1)
    BY <1>2, OneMore
  <2> QED BY <1>1, <1>4, <1>5, <1>6, <2>1
<1>8. Len(OnItsWay') <= 1 /\ presented' = NoByte
  BY <1>1, <1>4
<1> QED BY <1>7, <1>8

\* Bytes the terminal types one at a time all reach the device, in order
\* (uart_dpi.cc, uart_pty_tick, against the ready of uart-dpi.rhdl), as long
\* as reset stays low after the first.
THEOREM UartPacedInput == Spec => []PacedInput
<1>1. Init => TypeInv /\ PacedInv
  <2> SUFFICES ASSUME Init PROVE PacedInv
    BY InitType
  <2>1. /\ accepted = <<>> /\ OnItsWay = <<>> /\ typed = 0 /\ presented = NoByte
    BY DEF Init, OnItsWay, Presented
  <2> QED BY <2>1, OneMore DEF PacedInv
<1>2. TypeInv /\ PacedInv /\ [Next]_vars => PacedInv'
  <2> SUFFICES ASSUME TypeInv, PacedInv, [Next]_vars, Paced' PROVE PacedInv'
    BY DEF PacedInv
  <2>1. CASE Type
    <3>1. Paced /\ ~ typedAhead'
      BY <2>1 DEF Type, Paced, modelVars, rtlVars
    <3> QED BY <2>1, <3>1, TypeInput DEF PacedInv
  <2>2. CASE AssertReset
    BY <2>2 DEF AssertReset, Paced, TypeInv
  <2>3. CASE EdgeFails
    <3>1. faulted'
      BY <2>3 DEF EdgeFails, Edge, OpenFails, ReadFails, WriteFails, Fails
    <3> QED BY <3>1 DEF Paced
  <2>4. CASE EdgeSucceeds
    <3>1. 0 .. MaxTyped \subseteq Nat /\ 0 .. MaxSent \subseteq Nat
      OBVIOUS
    <3>2. PICK frame \in BOOLEAN, read \in Nat, written \in Nat :
            Edge(frame, TickSucceeds(frame, read, written, Ready))
      BY <2>4, <3>1 DEF EdgeSucceeds
    <3>3. Paced /\ typed' = typed
      BY <3>2 DEF Edge, TickSucceeds, Succeeds, Paced
    <3> QED BY <3>2, <3>3, EdgeInput DEF PacedInv
  <2>5. CASE ReleaseReset \/ StatusAssertion \/ UNCHANGED vars
    <3>1. /\ UNCHANGED <<typed, kernel, pty_to_uart, presented, busy, accepted>>
          /\ UNCHANGED <<typedAhead, faulted, resets>>
          /\ reset' => reset
      BY <2>5 DEF ReleaseReset, StatusAssertion, vars, hostVars, modelVars, rtlVars
    <3>2. Paced /\ OnItsWay' = OnItsWay
      BY <3>1 DEF Paced, OnItsWay, Presented
    <3> QED BY <3>1, <3>2 DEF PacedInv
  <2> QED BY <2>1, <2>2, <2>3, <2>4, <2>5 DEF Next
<1>3. TypeInv /\ PacedInv => PacedInput
  <2> SUFFICES ASSUME TypeInv, PacedInv, Paced PROVE PacedInput
    BY DEF PacedInput, Paced
  <2>1. /\ accepted \in Seq(Bytes) /\ Presented \in Seq(Bytes)
        /\ pty_to_uart \in Seq(Bytes) /\ kernel \in Seq(Bytes)
    BY InputTypes DEF TypeInv
  <2>2. ((accepted \o Presented) \o pty_to_uart) \o kernel = accepted \o OnItsWay
    <3>1. PICK ap \in Seq(Bytes), qk \in Seq(Bytes) :
            ap = accepted \o Presented /\ qk = pty_to_uart \o kernel
      BY <2>1, Regroup
    <3>2. (ap \o pty_to_uart) \o kernel = ap \o qk
      BY <2>1, <3>1, Regroup
    <3>3. (accepted \o Presented) \o qk = accepted \o (Presented \o qk)
      BY SMTT(60), <2>1, <3>1, Regroup
    <3> QED BY <3>1, <3>2, <3>3 DEF OnItsWay
  <2> QED BY <2>1, <2>2 DEF PacedInv, PacedInput, OnItsWay, Presented
<1>4. TypeInv /\ [Next]_vars => TypeInv'
  BY NextType
<1> QED BY <1>1, <1>2, <1>3, <1>4, PTL DEF Spec
=============================================================================
