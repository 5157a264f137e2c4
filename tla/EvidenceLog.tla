---------------------------- MODULE EvidenceLog ----------------------------
(***************************************************************************)
(* What the docstrings of EvidenceRecorder promise its callers, without    *)
(* threads or a lock: one append-only log in one recording mode, to which  *)
(* a call adds all of its events or none, and whose snapshots are          *)
(* prefixes of it.  EvidenceRecorder implements this specification.        *)
(***************************************************************************)
EXTENDS EvidenceStream, SequencesExt

CONSTANT Readers

VARIABLES
  log,        \* the committed events
  mode,       \* the recording mode
  streams     \* streams[r]: the last stream returned to reader r

vars == <<log, mode, streams>>

EmptyStream == [mode |-> "none", events |-> <<>>]

Init ==
  /\ log = <<>>
  /\ mode \in {"none", "legacy"}
  /\ streams = [r \in Readers |-> EmptyStream]

\* The events of log' that log does not have.
Added == SubSeq(log', Len(log) + 1, Len(log'))

\* One call commits: a whole batch, numbered on from the mission's last event.
AppendBatch ==
  /\ IsStrictPrefix(log, log')
  /\ Len(Added) = Added[1].size
  /\ \A i \in DOMAIN Added :
       /\ Added[i].pos = i
       /\ Added[i].by = Added[1].by
       /\ AgreesWithMode(Added[i], mode)
  /\ Contiguous(log')
  /\ UNCHANGED <<mode, streams>>

\* for_occurrences, and resume before it restores the prefix.
ChooseMode ==
  /\ log = <<>>
  /\ mode' \in Modes
  /\ UNCHANGED <<log, streams>>

\* resume installs a validated prefix.
Restore ==
  /\ log = <<>>
  /\ WellFormed(log', mode)
  /\ UNCHANGED <<mode, streams>>

\* stream() returns what the log was at some moment since the reader's last call.
Publish(r) ==
  /\ \E n \in Len(streams[r].events)..Len(log), m \in Modes :
       /\ Homogeneous(SubSeq(log, 1, n), m)
       /\ n > 0 => m = mode
       /\ streams' = [streams EXCEPT ![r] = [mode |-> m, events |-> SubSeq(log, 1, n)]]
  /\ UNCHANGED <<log, mode>>

Next == AppendBatch \/ ChooseMode \/ Restore \/ \E r \in Readers : Publish(r)

Spec == Init /\ [][Next]_vars
=============================================================================
