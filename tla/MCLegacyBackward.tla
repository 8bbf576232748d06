-------------------------- MODULE MCLegacyBackward --------------------------
(* LegacyBackward with few paths; one of them has no tokens. *)
EXTENDS LegacyBackward

OneEmpty == {1}
Both     == {"event", "round"}
EventOnly == {"event"}

=============================================================================
