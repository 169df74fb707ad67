--------------------------- MODULE MCSessionTabs ---------------------------
(* Three sessions: one of the first tab, one on file, one to be created.   *)
EXTENDS SessionTabs
CONSTANTS s1, s2, s3
MCSessions == {s1, s2, s3}
MCSaved == {s2}
=============================================================================
