------------------------- MODULE MCInterviewScreen -------------------------
(* A short interview watched by one screen.                                *)
EXTENDS InterviewScreen
=============================================================================
