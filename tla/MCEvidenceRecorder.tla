------------------------- MODULE MCEvidenceRecorder -------------------------
(* EvidenceRecorder on a small instance. *)
EXTENDS EvidenceRecorder

CONSTANTS t1, t2, m1, m2, o1

MCThreads == {t1, t2}
MCWriters == {t1, t2, Constructor}

Old(m, n, time, occ) ==
  [mission |-> m, sequence |-> n, timestamp |-> time, occurrence |-> occ,
   by |-> Constructor, pos |-> 1, size |-> 1]

\* Prior streams: empty, valid in each mode (one with its events out of
\* sequence order), with a gap, with mixed modes, later than the new clock.
MCPriors == {
  [mode |-> "none", events |-> <<Old(m1, 1, 1, NoOccurrence)>>],
  [mode |-> "legacy", events |-> <<Old(m1, 2, 2, NoOccurrence), Old(m1, 1, 1, NoOccurrence)>>],
  [mode |-> "explicit", events |-> <<>>],
  [mode |-> "explicit", events |-> <<Old(m1, 1, 1, o1)>>],
  [mode |-> "legacy", events |-> <<Old(m1, 2, 1, NoOccurrence)>>],
  [mode |-> "explicit", events |-> <<Old(m1, 1, 1, o1), Old(m1, 2, 1, NoOccurrence)>>],
  [mode |-> "legacy", events |-> <<Old(m1, 1, 3, NoOccurrence)>>]}
=============================================================================
