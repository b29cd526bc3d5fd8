----------------------------- MODULE MCSmtpDial -----------------------------
(* Small instances of SmtpDial for TLC. *)
EXTENDS SmtpDial

AllConfigs == [implicitTls : BOOLEAN, startTls : BOOLEAN, requireTls : BOOLEAN, auth : BOOLEAN,
               preferred : {<<>>, <<"LOGIN", "PLAIN">>, <<"XOAUTH2", "LOGIN">>}]
TlsConfigs == {c \in AllConfigs : c.implicitTls /\ c.auth}
AllOffers == SUBSET Keywords
=============================================================================
