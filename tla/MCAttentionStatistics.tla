----------------------- MODULE MCAttentionStatistics -----------------------
(* AttentionStatistics with scores below, at and above 0, and a masked one. *)
EXTENDS AttentionStatistics

Quarter == <<1, 4>>
Two == <<2, 1>>
FourScores == {Zero, Quarter, One, Two}
Half == <<1, 2>>

=============================================================================
