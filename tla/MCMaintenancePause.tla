------------------------- MODULE MCMaintenancePause -------------------------
(* MaintenancePause for TLC. The contents of an object are strings: reviewed *)
(* carries the owner's labels and sources, foreign does not.                 *)
EXTENDS MaintenancePause

MCReviewedOnly == {"reviewed"}
MCRests == {"reviewed", "foreign"}
=============================================================================
