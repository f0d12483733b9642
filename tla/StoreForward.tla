---------------------------- MODULE StoreForward ----------------------------
(***************************************************************************)
(* What the edge agent promises of its buffer: an event is buffered once,  *)
(* stored in the cloud at some later point, and only a stored event is     *)
(* taken off the list of events still to be synced.  Nothing is ever       *)
(* un-stored or un-synced, and a retry may store an event again without    *)
(* effect.                                                                 *)
(***************************************************************************)
VARIABLES buffered, stored, synced
vars == <<buffered, stored, synced>>

Init == buffered = {} /\ stored = {} /\ synced = {}

\* One more event, numbered in order of arrival
Buffer ==
  /\ \E i \in buffered' : i \notin buffered /\ buffered' = buffered \cup {i}
  /\ UNCHANGED <<stored, synced>>

Store ==
  /\ stored \subseteq stored' /\ stored' \subseteq buffered
  /\ UNCHANGED <<buffered, synced>>

Sync ==
  /\ synced \subseteq synced' /\ synced' \subseteq stored
  /\ UNCHANGED <<buffered, stored>>

Next == Buffer \/ Store \/ Sync
Spec == Init /\ [][Next]_vars
=============================================================================
