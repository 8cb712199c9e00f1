----------------------------- MODULE SessionLog -----------------------------
(***************************************************************************)
(* What a monitoring session promises of its sample stream: an append-only *)
(* log with strictly increasing timestamps, a durable prefix that only     *)
(* grows, and readers that always see a prefix of the log.  SessionStore   *)
(* implements it.                                                          *)
(***************************************************************************)
EXTENDS Integers, Sequences

CONSTANT ExternalReader   \* whether a reader may come from another process

VARIABLES
  entries,   \* timestamps of the accepted samples
  durable,   \* how many of them are in the file
  status,    \* "open", "closing", "closed" or "crashed"
  view       \* what the latest reader was given

absVars == <<entries, durable, status, view>>

Ascending(s) == \A i, j \in 1 .. Len(s) : i < j => s[i] < s[j]

AbsInit ==
  /\ entries = <<>>
  /\ durable = 0
  /\ status = "open"
  /\ view = <<>>

\* At most one sample is added, at the end and later than all others.
Grow ==
  \/ entries' = entries
  \/ /\ Len(entries') = Len(entries) + 1
     /\ SubSeq(entries', 1, Len(entries)) = entries
     /\ Ascending(entries')

\* The operating system has some more of the log.
Sync == durable' \in durable .. Len(entries')

Record == status = "open" /\ Grow /\ Sync /\ UNCHANGED <<status, view>>

\* A reader inside the process sees everything, the pending sample too.
Capture ==
  /\ status = "open"
  /\ Grow
  /\ durable' = Len(entries')
  /\ view' = entries'
  /\ UNCHANGED status

\* A reader of the files sees what is durable.
ReadFiles ==
  /\ status = "closed" \/ ExternalReader
  /\ view' = SubSeq(entries, 1, durable)
  /\ UNCHANGED <<entries, durable, status>>

BeginClose ==
  /\ status = "open"
  /\ status' = "closing"
  /\ Grow
  /\ Sync
  /\ UNCHANGED view

FinishClose ==
  /\ status = "closing"
  /\ status' = "closed"
  /\ UNCHANGED <<entries, view>>
  /\ Sync

Lose ==
  /\ status \in {"open", "closing"}
  /\ status' = "crashed"
  /\ UNCHANGED <<entries, durable, view>>

AbsNext ==
  Record \/ Capture \/ ReadFiles \/ BeginClose \/ FinishClose \/ Lose

AbsSpec == AbsInit /\ [][AbsNext]_absVars
=============================================================================
