------------------------------- MODULE GzSource -------------------------------
(***************************************************************************)
(* Reading the compressed stream a byte at a time:                         *)
(* GzUnpacker::gzReadSourceByte (src/src/libunpacker/LibUnpacker.cpp) and  *)
(* uzlib_get_byte (src/src/uzlib/tinflate.c), on a stream that may fall    *)
(* silent and speak again, or end, and a clock of millis() that wraps.     *)
(*                                                                         *)
(* Of a byte that could not be read uzlib_get_byte returns what the stack  *)
(* holds. The clock runs only while a byte is waited for: what it is when  *)
(* the call begins is any value.                                           *)
(***************************************************************************)
EXTENDS Integers, Sequences

CONSTANTS
  ClockSize,           \* values of millis(), 2^32 in the code
  targz_read_timeout,
  StackBytes           \* what an uninitialized byte may be (bound)

ASSUME ClockAssumption == targz_read_timeout \in Nat /\ ClockSize \in Nat \ 0..targz_read_timeout
ASSUME StackAssumption == StackBytes \subseteq 0..255 /\ StackBytes # {}

VARIABLES
  sent,       \* bytes the stream has given
  held,       \* bytes it has
  silent,     \* it gives none for now
  silences,   \* how often it may still fall silent (bound)
  now,        \* millis()
  waiting,    \* gzReadSourceByte is in its loop
  timeout,    \* until then
  waited,     \* turns of the loop, up to one past targz_read_timeout
  gaveUp,     \* a byte was given up, at some time of the call
  readSourceErrors  \* 0 or more than that

clockVars == <<now, waiting, timeout, waited>>
sourceVars == <<sent, held, silent, silences, clockVars, gaveUp, readSourceErrors>>

LastTick == ClockSize - 1
Available == ~silent /\ sent < held

SourceInit ==
  /\ sent = 0 /\ held = 0 /\ silent = FALSE /\ silences = 0 /\ now = 0 /\ waiting = FALSE
  /\ timeout = 0 /\ waited = 0 /\ gaveUp = FALSE /\ readSourceErrors = 0

\* gzUncompress is given a stream of n bytes.
Connect(n, most, time) ==
  /\ sent' = 0 /\ held' = n /\ silent' = FALSE /\ silences' = most /\ now' = time
  /\ waiting' = FALSE /\ timeout' = 0 /\ waited' = 0 /\ gaveUp' = FALSE /\ readSourceErrors' = 0

\* readBytes gives a byte.
Give ==
  /\ ~waiting /\ Available /\ sent' = sent + 1
  /\ UNCHANGED <<held, silent, silences, clockVars, gaveUp, readSourceErrors>>

\* The sender pauses, or goes on.
Pause ==
  /\ ~waiting /\ Available /\ silences > 0
  /\ silent' = TRUE /\ silences' = silences - 1
  /\ UNCHANGED <<sent, held, clockVars, gaveUp, readSourceErrors>>
Resume ==
  /\ silent /\ waiting /\ silent' = FALSE
  /\ UNCHANGED <<sent, held, silences, clockVars, gaveUp, readSourceErrors>>

\* (A bug: the timeout is not added.)
NoDeadline == now
Deadline == (now + targz_read_timeout) % ClockSize
\* readBytes gives none.
StartWaiting ==
  /\ ~waiting /\ ~Available
  /\ waiting' = TRUE /\ timeout' = Deadline /\ waited' = 0
  /\ UNCHANGED <<sent, held, silent, silences, now, gaveUp, readSourceErrors>>

\* now and timeout end with the loop.
LeaveLoop == waiting' = FALSE /\ timeout' = 0 /\ waited' = 0
\* available(): the byte is read again.
StopWaiting ==
  /\ waiting /\ Available /\ LeaveLoop
  /\ UNCHANGED <<sent, held, silent, silences, now, gaveUp, readSourceErrors>>

\* (A bug: the stream is waited for without end.)
NeverDue == FALSE
\* millis() > timeout
Due == now > timeout
GiveUp ==
  /\ waiting /\ ~Available /\ Due /\ LeaveLoop
  /\ gaveUp' = TRUE /\ readSourceErrors' = 1
  /\ UNCHANGED <<sent, held, silent, silences, now>>

\* vTaskDelay(1)
Delay ==
  /\ waiting /\ ~Available /\ ~Due
  /\ now' = (now + 1) % ClockSize
  /\ waited' = IF waited > targz_read_timeout THEN waited ELSE waited + 1
  /\ UNCHANGED <<sent, held, silent, silences, waiting, timeout, gaveUp, readSourceErrors>>

-----------------------------------------------------------------------------
\* A deadline before its start: millis() is about to wrap.
DeadlineWrapped == timeout < targz_read_timeout
\* A byte is only given up when the stream has been silent for longer than the timeout;
\* unless the deadline lies beyond the wrap of the clock, when one look is enough.
GivesUpAfterTimeout ==
  [][GiveUp => waited > targz_read_timeout \/ DeadlineWrapped]_sourceVars
=============================================================================
