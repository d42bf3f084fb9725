------------------------------ MODULE UartPty -------------------------------
(***************************************************************************)
(* The PTY model of a UART: uart_dpi.cc, called at every clock edge of     *)
(* uart-dpi.rhdl, between its two 8-N-1 engines and a host terminal.  A    *)
(* byte is named by its position in the stream it belongs to, so that a    *)
(* lost, repeated or reordered byte shows.  dpi_reg outputs are registers: *)
(* a tick sees the values before the edge and is seen after it.            *)
(***************************************************************************)
EXTENDS Naturals, Sequences, SequencesExt

CONSTANTS FrameCycles,  \* clock edges a frame keeps the transmitter busy
          MaxTyped, MaxSent, MaxResets  \* bounds of the environment

ASSUME UartAssumption ==
  /\ FrameCycles \in Nat \ {0}
  /\ MaxTyped \in Nat /\ MaxSent \in Nat /\ MaxResets \in Nat

VARIABLES
  \* the terminal and the kernel
  typed,        \* bytes the terminal has written
  kernel,       \* those the model has not read yet
  terminal,     \* bytes the terminal can read
  typedAhead,   \* history: it typed while an earlier byte was on its way
  \* UartModel
  open,
  pty_to_uart, uart_to_pty,
  \* uart-dpi.rhdl
  reset,
  resets,       \* history: how often reset was asserted again
  presented,    \* pty_to_uart_byte, NoByte when pty_to_uart_valid is low
  status,       \* what the last tick returned
  busy,         \* edges left of the transmitter's frame
  accepted,     \* history: bytes the transmitter took
  sent,         \* history: frames the receiver completed
  faulted,      \* history: a tick has failed
  stopped       \* the assertion on status has ended the simulation

hostVars  == <<typed, kernel, terminal, typedAhead>>
modelVars == <<open, pty_to_uart, uart_to_pty>>
rtlVars   == <<reset, resets, presented, status, busy, accepted, sent, faulted, stopped>>
vars      == <<hostVars, modelVars, rtlVars>>

NoByte == 0

Init ==
  /\ typed = 0 /\ kernel = <<>> /\ terminal = <<>> /\ typedAhead = FALSE
  /\ open = FALSE /\ pty_to_uart = <<>> /\ uart_to_pty = <<>>
  /\ reset = TRUE /\ resets = 0 /\ presented = NoByte /\ status = 0
  /\ busy = 0 /\ accepted = <<>> /\ sent = 0 /\ faulted = FALSE /\ stopped = FALSE

------------------------------------------------------------------------------
(* The environment.                                                        *)

\* Nothing the terminal typed is on its way to the transmitter.
Quiet == kernel = <<>> /\ pty_to_uart = <<>> /\ presented = NoByte

Type ==
  /\ open /\ typed < MaxTyped
  /\ typed' = typed + 1 /\ kernel' = Append(kernel, typed + 1)
  /\ typedAhead' = (typedAhead \/ ~ Quiet)
  /\ UNCHANGED <<terminal, modelVars, rtlVars>>

AssertReset ==
  /\ ~ reset /\ resets < MaxResets
  /\ reset' = TRUE /\ resets' = resets + 1
  /\ UNCHANGED <<hostVars, modelVars, presented, status, busy, accepted, sent, faulted, stopped>>

ReleaseReset ==
  /\ reset /\ reset' = FALSE
  /\ UNCHANGED <<hostVars, modelVars, resets, presented, status, busy, accepted, sent, faulted, stopped>>

------------------------------------------------------------------------------
(* uart_pty_tick.                                                          *)

Taken(s, n) == SubSeq(s, 1, n)
Left(s, n)  == SubSeq(s, n + 1, Len(s))

\* Reads until the kernel has nothing more (would block, end of file, no
\* slave) or the read fails; either way after any number of bytes.
ReadPty(n) ==
  /\ n <= Len(kernel)
  /\ kernel' = Left(kernel, n)

\* Mutant: a write that took a part of the queue empties it.
WritePtyWholeChunk(queue, n) ==
  /\ n <= Len(queue)
  /\ terminal' = terminal \o Taken(queue, n)
  /\ uart_to_pty' = IF n > 0 THEN <<>> ELSE queue

\* Writes until the queue is empty, the terminal's buffer is full or the
\* write fails; what was taken in part leaves the queue in part.
WritePty(queue, n) ==
  /\ n <= Len(queue)
  /\ terminal' = terminal \o Taken(queue, n)
  /\ uart_to_pty' = Left(queue, n)

\* Mutant: the transmitter's ready is not looked at.
TakeInputAlways(queue, ready) ==
  IF ~ reset /\ queue # <<>>
  THEN presented' = Head(queue) /\ pty_to_uart' = Tail(queue)
  ELSE presented' = NoByte /\ pty_to_uart' = queue

\* Mutant: the last byte of the queue stays there.
TakeInputButLast(queue, ready) ==
  IF ~ reset /\ ready /\ Len(queue) > 1
  THEN presented' = Head(queue) /\ pty_to_uart' = Tail(queue)
  ELSE presented' = NoByte /\ pty_to_uart' = queue

\* A byte leaves the queue as soon as the transmitter says it is ready.
TakeInput(queue, ready) ==
  IF ~ reset /\ ready /\ queue # <<>>
  THEN presented' = Head(queue) /\ pty_to_uart' = Tail(queue)
  ELSE presented' = NoByte /\ pty_to_uart' = queue

Succeeds == status' = 0 /\ faulted' = faulted
Fails    == faulted' = TRUE /\ presented' = NoByte

OpenFails ==
  /\ ~ open /\ status' = 2 /\ Fails
  /\ UNCHANGED <<open, kernel, terminal, pty_to_uart, uart_to_pty>>

ReadFails(read) ==
  /\ open' = TRUE /\ ReadPty(read) /\ status' = 4 /\ Fails
  /\ pty_to_uart' = pty_to_uart \o Taken(kernel, read)
  /\ UNCHANGED <<terminal, uart_to_pty>>

\* The frame the receiver completes in this cycle, if any.
Received(frame) == IF frame /\ ~ reset THEN Append(uart_to_pty, sent + 1) ELSE uart_to_pty

WriteFails(frame, read, written) ==
  /\ open' = TRUE /\ ReadPty(read) /\ WritePty(Received(frame), written)
  /\ written < Len(Received(frame)) /\ status' = 4 /\ Fails
  /\ pty_to_uart' = pty_to_uart \o Taken(kernel, read)

TickSucceeds(frame, read, written, ready) ==
  /\ open' = TRUE /\ ReadPty(read) /\ WritePty(Received(frame), written) /\ Succeeds
  /\ TakeInput(pty_to_uart \o Taken(kernel, read), ready)

------------------------------------------------------------------------------
(* One clock edge of UartDPI.                                              *)

Ready == busy = 0 /\ ~ reset

\* The transmitter at the edge: reset, accept, or count the frame down.
Transmit ==
  IF reset THEN busy' = 0 /\ UNCHANGED accepted
  ELSE IF busy = 0 /\ presented # NoByte
       THEN busy' = FrameCycles /\ accepted' = Append(accepted, presented)
       ELSE busy' = (IF busy = 0 THEN 0 ELSE busy - 1) /\ UNCHANGED accepted

Running == ~ stopped /\ (reset \/ status = 0)

Edge(frame, tick) ==
  /\ Running
  /\ frame => ~ reset /\ sent < MaxSent
  /\ sent' = IF frame THEN sent + 1 ELSE sent
  /\ Transmit
  /\ tick
  /\ UNCHANGED <<typed, typedAhead, reset, resets, stopped>>

EdgeSucceeds ==
  \E frame \in BOOLEAN, read \in 0 .. MaxTyped, written \in 0 .. MaxSent :
    Edge(frame, TickSucceeds(frame, read, written, Ready))

EdgeFails ==
  \E frame \in BOOLEAN, read \in 0 .. MaxTyped, written \in 0 .. MaxSent :
    Edge(frame, OpenFails \/ ReadFails(read) \/ WriteFails(frame, read, written))

\* assert(status === 0): outside reset, a failed tick ends the simulation.
StatusAssertion ==
  /\ ~ stopped /\ ~ reset /\ status # 0
  /\ stopped' = TRUE
  /\ UNCHANGED <<hostVars, modelVars, reset, resets, presented, status, busy, accepted, sent, faulted>>

Next == Type \/ AssertReset \/ ReleaseReset \/ EdgeSucceeds \/ EdgeFails \/ StatusAssertion

\* The clock runs, the assertion with it; a reset ends; and a terminal that is open neither blocks
\* the reads nor the writes for ever.
EdgeProgresses ==
  \E frame \in BOOLEAN, read \in 0 .. MaxTyped, written \in 0 .. MaxSent :
    /\ read > 0 \/ kernel = <<>>
    /\ written > 0 \/ Received(frame) = <<>>
    /\ Edge(frame, TickSucceeds(frame, read, written, Ready))

Spec == Init /\ [][Next]_vars /\ WF_vars(ReleaseReset) /\ WF_vars(EdgeProgresses)
          /\ WF_vars(StatusAssertion)

------------------------------------------------------------------------------
(* Properties.                                                             *)

UpTo(n) == [i \in 1 .. n |-> i]

\* Device to terminal: whatever the terminal's buffer takes at a time, and
\* whenever reset comes, every byte whose frame was completed reaches the
\* terminal once and in order, unless a tick has failed.
OutputTransparent ==
  /\ ~ faulted => terminal \o uart_to_pty = UpTo(sent)
  /\ \A i, j \in DOMAIN terminal : i < j => terminal[i] < terminal[j]

\* Terminal to device, for a terminal that waits until a byte has been taken
\* before it types the next (as the SoC test does): nothing is lost while
\* reset stays low.
PacedInput ==
  ~ typedAhead /\ ~ faulted /\ resets = 0 =>
    accepted \o (IF presented = NoByte THEN <<>> ELSE <<presented>>) \o pty_to_uart \o kernel
      = UpTo(typed)

\* Neither queue keeps a byte for ever.
QueuesDrain ==
  []<>(stopped \/ (kernel = <<>> /\ pty_to_uart = <<>> /\ uart_to_pty = <<>>))

\* sims/README.md: the PTY is raw and byte-transparent.  The device is given
\* what was typed, in order, and nothing is left out.
InputTransparent == ~ faulted => IsPrefix(accepted, UpTo(typed))
=============================================================================
