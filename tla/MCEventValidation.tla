-------------------------- MODULE MCEventValidation --------------------------
(* EventValidation on a small instance: every stream of at most MaxLength    *)
(* events over two occurrences, two operations, two attempts, two subjects.  *)
EXTENDS EventValidation

CONSTANTS o1, o2, p1, p2, x, y

\* (operation, occurrence, attempt, subject): o1 may move between operations and
\* be retried; o2 is another visit of p1; y is a second capability.
MCSlots == {<<p1, o1, 1, x>>, <<p2, o1, 1, x>>, <<p1, o1, 2, x>>, <<p1, o2, 1, x>>}

EventAt(type, slot) ==
  [type |-> type, operation |-> slot[1], occurrence |-> slot[2],
   attempt |-> slot[3], subject |-> slot[4]]

MCInputs ==
  {EventAt(type, slot) :
     type \in {"capability_allowed", "capability_denied", "tool_invoked",
               "runtime_failed", "approval_requested", "approval_granted"},
     slot \in MCSlots}
    \cup {EventAt(type, <<p1, o1, 1, y>>) : type \in {"capability_allowed", "tool_invoked"}}
=============================================================================
