----------------------------- MODULE ForkingLog -----------------------------
(***************************************************************************)
(* What a play session promises about its conversation, and no more: the   *)
(* current conversation is always one that was built by adding one turn to *)
(* (or redoing the last turn of) a conversation that was current at some   *)
(* earlier moment.  The writer may have started from an older version than *)
(* the current one, so two writers can fork the log and the later write    *)
(* wins; but a conversation never mixes the turns of two forks.            *)
(***************************************************************************)
EXTENDS Sequences, Naturals

CONSTANTS Content,  \* what a turn can say
          Openings, \* the conversations a session may open with
          Absent    \* there is no playable conversation

VARIABLES head,     \* the current conversation, or Absent
          versions  \* every conversation that has been current

vars == <<head, versions>>

Init == head = Absent /\ versions = {}

\* The conversation c becomes current.
Become(c) == head' = c /\ versions' = versions \union {c}

\* The engine is initialised, afresh or from an earlier session's state.
Install == \E c \in Openings : Become(c)

\* A turn, or a continuation, on top of some version.
Extend == \E v \in versions, x \in Content : Become(Append(v, x))

\* A regeneration of the last turn of some version.
Redo == \E v \in versions, x \in Content :
          Len(v) > 0 /\ Become([v EXCEPT ![Len(v)] = x])

\* The session ends, expires or fails.
Vanish == head' = Absent /\ UNCHANGED versions

\* Only a session that was never played is installed from outside.
Next == (versions = {} /\ Install) \/ Extend \/ Redo \/ Vanish

Spec == Init /\ [][Next]_vars
=============================================================================
