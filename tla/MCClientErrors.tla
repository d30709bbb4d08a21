--------------------------- MODULE MCClientErrors ---------------------------
(* Small instances of ClientErrors: every event crashes in the same place, so *)
(* the raw fingerprints collide, and so do the resolved ones.                  *)
EXTENDS ClientErrors, TLC

CONSTANTS Raw, Resolved, Release, Heavy

MCReleaseOf  == [e \in Events |-> Release]
MCRawFp      == [e \in Events |-> Raw]
MCResolvedFp == [e \in Events |-> Resolved]
MCWeight     == [e \in Events |-> IF e \in Heavy THEN 2 ELSE 1]
=============================================================================
