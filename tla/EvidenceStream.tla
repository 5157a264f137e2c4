--------------------------- MODULE EvidenceStream ---------------------------
(***************************************************************************)
(* The runtime-evidence stream that an EvidenceRecorder builds and that    *)
(* validate_runtime_events checks: what one event is, and the rules of a   *)
(* well-formed stream that the recorder itself is responsible for          *)
(* (sequence numbers, timestamps and the recording mode).  Event types and *)
(* their references are the business of EventValidation.                   *)
(***************************************************************************)
EXTENDS Integers, Sequences

CONSTANTS
  Missions,        \* mission_id values
  Occurrences,     \* explicit runtime occurrences (operation, occurrence, attempt)
  NoOccurrence,    \* an event without an "occurrence" field
  Writers,         \* whoever makes a recording call; "by" is an auxiliary field
  MaxSequence      \* the schema's upper bound of "sequence"

ASSUME StreamAssumption ==
  /\ NoOccurrence \notin Occurrences
  /\ MaxSequence \in Nat

\* The recording modes; schema version 1.0 streams have none.
Modes == {"none", "legacy", "explicit"}

(***************************************************************************)
(* An event, reduced to the stamped fields.  by, pos and size are          *)
(* auxiliary: the call that recorded the event, its position in that       *)
(* call's batch and the size of the batch.                                 *)
(***************************************************************************)
Event == [mission: Missions, sequence: Nat, timestamp: Nat,
          occurrence: Occurrences \cup {NoOccurrence},
          by: Writers, pos: Nat, size: Nat]

SameMission(s, i, j) == s[i].mission = s[j].mission

\* AN_EVT_DUPLICATE_SEQUENCE
NoDuplicateSequence(s) ==
  \A i, j \in DOMAIN s :
    SameMission(s, i, j) /\ s[i].sequence = s[j].sequence => i = j

\* AN_EVT_SEQUENCE_GAP: with no duplicates, contiguous from 1.
NoSequenceGap(s) ==
  \A i \in DOMAIN s :
    /\ s[i].sequence >= 1
    /\ \A k \in 1..s[i].sequence :
         \E j \in DOMAIN s : SameMission(s, i, j) /\ s[j].sequence = k

Contiguous(s) == NoDuplicateSequence(s) /\ NoSequenceGap(s)

\* AN_EVT_ORDER_INVALID
TimesOrdered(s) ==
  \A i, j \in DOMAIN s :
    SameMission(s, i, j) /\ s[i].sequence < s[j].sequence
      => s[i].timestamp <= s[j].timestamp

\* ADR-0042: an explicit stream has an occurrence on every event, any other on none.
AgreesWithMode(e, mode) == (e.occurrence # NoOccurrence) <=> (mode = "explicit")
Homogeneous(s, mode) == \A i \in DOMAIN s : AgreesWithMode(s[i], mode)

\* The validator's verdict on the rules above.
WellFormed(s, mode) == Contiguous(s) /\ TimesOrdered(s) /\ Homogeneous(s, mode)

\* n is the highest sequence of mission m in s, or 0 when m has no event.
IsHighestSequence(n, s, m) ==
  /\ \A i \in DOMAIN s : s[i].mission = m => s[i].sequence <= n
  /\ n = 0 \/ \E i \in DOMAIN s : s[i].mission = m /\ s[i].sequence = n

\* The calls whose batches are whole: all events of a batch are adjacent, in order.
BatchesWhole(s) ==
  \A i \in DOMAIN s :
    \A k \in 1..s[i].size :
      LET j == i - s[i].pos + k
      IN  /\ j \in DOMAIN s
          /\ SameMission(s, i, j)
          /\ s[j].by = s[i].by /\ s[j].pos = k /\ s[j].size = s[i].size
          /\ s[j].sequence - s[i].sequence = k - s[i].pos
=============================================================================
