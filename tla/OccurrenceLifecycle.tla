------------------------ MODULE OccurrenceLifecycle ------------------------
(***************************************************************************)
(* What ADR-0042 says of an occurrence: its attempts are numbered 1, 2,    *)
(* ...; only the last one is under way; an attempt that was denied, failed *)
(* or was left open may be followed by the next; a success closes the      *)
(* occurrence.  A crash loses the attempts that were not saved.            *)
(***************************************************************************)
EXTENDS Integers, Sequences, SequencesExt

CONSTANT Occurrences

VARIABLE history   \* history[o]: the outcome of each attempt of o so far

Outcomes == {"open", "denied", "failed", "succeeded"}

Init == history = [o \in Occurrences |-> <<>>]

\* An attempt is authorized or denied.
Begin(o) ==
  /\ history[o] # <<>> => Last(history[o]) # "succeeded"
  /\ \E outcome \in {"open", "denied"} :
       history' = [history EXCEPT ![o] = Append(@, outcome)]

\* The action of the last attempt failed or succeeded.
Close(o) ==
  /\ history[o] # <<>> /\ Last(history[o]) = "open"
  /\ \E outcome \in {"failed", "succeeded"} :
       history' = [history EXCEPT ![o] = Append(Front(@), outcome)]

Rollback ==
  /\ DOMAIN history' = Occurrences
  /\ \A o \in Occurrences : IsPrefix(history'[o], history[o])

Next == Rollback \/ \E o \in Occurrences : Begin(o) \/ Close(o)

Spec == Init /\ [][Next]_history
=============================================================================
