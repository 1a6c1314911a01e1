-------------------------------- MODULE MCApp --------------------------------
(* The instances TLC checks App on. *)
EXTENDS App, TLC

CONSTANTS a, b, v1, v2

\* Two services.  Between two of these configurations a changes beside b that does not, or b
\* comes or goes beside a that does not change, or both at once.
Both == [n \in Names |-> v1]
BothNewer == [n \in Names |-> IF n = a THEN v2 ELSE v1]
OnlyNewer == [n \in Names |-> IF n = a THEN v2 ELSE None]

TwoConfigs == {Both, OnlyNewer}
ThreeConfigs == {Both, BothNewer, OnlyNewer}
=============================================================================
