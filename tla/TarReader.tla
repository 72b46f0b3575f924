----------------------------- MODULE TarReader -----------------------------
(***************************************************************************)
(* What TinyUntar (src/src/TinyUntar/untar.c) promises to its three        *)
(* callbacks, whatever way its input is chopped into steps: the blocks of  *)
(* an archive are consumed once each and in order; an entry is announced   *)
(* with its header block, given its data blocks in order, the last one     *)
(* marked as such, and ended; nothing is called after a callback refused.  *)
(* Blocks are named by their position in the archive.                      *)
(***************************************************************************)
EXTENDS Integers, Sequences

CONSTANT Archives      \* the archives a session may be opened on

VARIABLES
  archive,   \* the archive of the session
  pos,       \* blocks of it consumed so far
  cur,       \* position of the header of the entry being expanded, 0: none
  got,       \* data blocks of that entry delivered so far
  empties,   \* empty headers met so far
  entries,   \* entries ended so far
  status,    \* of the session
  calls      \* the callbacks the last step fired, in order

readerVars == <<archive, pos, cur, got, empties, entries, status, calls>>

HeaderCall(h) == [cb |-> "header", block |-> h, last |-> FALSE]
WriteCall(p, isLast) == [cb |-> "write", block |-> p, last |-> isLast]
EndCall(h) == [cb |-> "end", block |-> h, last |-> FALSE]

Running == status = "running"
StatusIf(ok) == IF ok THEN "running" ELSE "failed"

Init ==
  /\ archive = <<>> /\ pos = 0 /\ cur = 0 /\ got = 0
  /\ empties = 0 /\ entries = 0 /\ status = "closed" /\ calls = <<>>

\* A new session, on any archive. Allowed at any time: the caller may give up.
Open ==
  /\ status' = "running" /\ pos' = 0 /\ cur' = 0 /\ got' = 0
  /\ empties' = 0 /\ entries' = 0 /\ calls' = <<>>
  /\ archive' \in Archives

\* The device is powered off, or memory for a session is refused.
Close ==
  /\ archive' = <<>> /\ pos' = 0 /\ cur' = 0 /\ got' = 0
  /\ empties' = 0 /\ entries' = 0 /\ status' = "closed" /\ calls' = <<>>

AtHeader == Running /\ cur = 0 /\ empties < 2 /\ pos < Len(archive)

EmptyHeader ==
  /\ AtHeader /\ ~archive[pos + 1].named
  /\ pos' = pos + 1 /\ empties' = empties + 1 /\ calls' = <<>>
  /\ UNCHANGED <<archive, cur, got, entries, status>>

\* An entry is announced. When it is refused, or its first block is missing, the
\* session fails.
Header(ok) ==
  /\ AtHeader /\ archive[pos + 1].named
  /\ pos' = pos + 1 /\ cur' = IF ok THEN pos + 1 ELSE 0
  /\ status' = StatusIf(ok) /\ calls' = <<HeaderCall(pos + 1)>>
  /\ UNCHANGED <<archive, got, empties, entries>>

\* An entry without data may be announced and ended at once.
Bare(ok, ended) ==
  /\ AtHeader /\ archive[pos + 1].named /\ archive[pos + 1].blocks = 0
  /\ pos' = pos + 1 /\ status' = StatusIf(ok /\ ended)
  /\ entries' = IF ok /\ ended THEN entries + 1 ELSE entries
  /\ calls' = IF ok THEN <<HeaderCall(pos + 1), EndCall(pos + 1)>>
                    ELSE <<HeaderCall(pos + 1)>>
  /\ UNCHANGED <<archive, cur, got, empties>>

Write(ok) ==
  /\ Running /\ cur # 0 /\ got < archive[cur].blocks /\ pos < Len(archive)
  /\ calls' = <<WriteCall(pos + 1, got + 1 = archive[cur].blocks)>>
  /\ IF ok THEN pos' = pos + 1 /\ got' = got + 1 /\ UNCHANGED cur
           ELSE pos' = pos /\ got' = 0 /\ cur' = 0
  /\ status' = StatusIf(ok)
  /\ UNCHANGED <<archive, empties, entries>>

End(ok) ==
  /\ Running /\ cur # 0 /\ got = archive[cur].blocks
  /\ calls' = <<EndCall(cur)>> /\ cur' = 0 /\ got' = 0
  /\ entries' = IF ok THEN entries + 1 ELSE entries
  /\ status' = StatusIf(ok)
  /\ UNCHANGED <<archive, pos, empties>>

\* The two empty headers that end an archive have been seen.
Finish ==
  /\ Running /\ cur = 0 /\ empties = 2
  /\ status' = "done" /\ calls' = <<>>
  /\ UNCHANGED <<archive, pos, cur, got, empties, entries>>

\* The input stops before them.
Truncated ==
  /\ Running
  /\ cur = 0 => empties < 2
  /\ status' = "failed" /\ cur' = 0 /\ got' = 0 /\ calls' = <<>>
  /\ UNCHANGED <<archive, pos, empties, entries>>

Next ==
  \/ Open \/ Close \/ EmptyHeader \/ Finish \/ Truncated
  \/ \E ok \in BOOLEAN : Header(ok) \/ Write(ok) \/ End(ok)
  \/ \E ok, ended \in BOOLEAN : Bare(ok, ended)

Spec == Init /\ [][Next]_readerVars
=============================================================================
