---------------------------- MODULE MCSmtpPool ----------------------------
(* Small instances of SmtpPool for TLC. *)
EXTENDS SmtpPool
=============================================================================
