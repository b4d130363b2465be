--------------------------- MODULE MCStudentSync ---------------------------
(* Instances of StudentSync for TLC. *)
EXTENDS StudentSync

MCCalls == Ranks \X (1 .. MaxLife)
=============================================================================
