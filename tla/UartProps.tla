------------------------------ MODULE UartProps ------------------------------
(***************************************************************************)
(* What a program, and whoever reads the serial line, may expect.          *)
(***************************************************************************)
EXTENDS Uart

\* The receiver gets the characters the program stores, in order, each once and
\* unchanged, although the store stays on the bus for the whole transmission and
\* the transmitter reloads its data in every clock of it (device.sv 135-192); an
\* answered store is already at the receiver.  (A reset in the middle of a frame may
\* swallow the next character.)
CharsInOrder == ~finish /\ resets = 0 => IsPrefix(received, issued) /\ IsPrefix(acked, received)

\* Every access of the processor is answered: the transmitter comes to rest in
\* spite of requests that stay (device.sv 154-168, 191).
Answered == req # NoRequest ~> req = NoRequest
=============================================================================
