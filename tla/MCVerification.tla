---------------------------- MODULE MCVerification ----------------------------
(* A plan of one visible and one holdout command; the configuration gives    *)
(* the constants.  The verifier sends its commands an empty request; the     *)
(* larger one is what other callers of run_bounded send.                     *)
EXTENDS Verification
=============================================================================
