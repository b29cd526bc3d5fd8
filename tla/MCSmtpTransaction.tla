------------------------- MODULE MCSmtpTransaction -------------------------
(* Small instances of SmtpTransaction for TLC. *)
EXTENDS SmtpTransaction

AllSettings ==
  [transfer : {"data", "bdat"}, pipelining : BOOLEAN, requireAll : BOOLEAN,
   late : BOOLEAN, garbled : BOOLEAN]
WholeBdatSettings ==
  {s \in AllSettings : s.transfer = "bdat" /\ s.late /\ ~s.garbled /\ ~s.requireAll}
PipelinedSettings ==
  {s \in AllSettings : s.transfer = "data" /\ ~s.late /\ s.garbled /\ s.pipelining /\ s.requireAll}
=============================================================================
