------------------------------ MODULE Protocols ------------------------------
(***************************************************************************)
(* The protocol objects of the library, each on the stream engine of        *)
(* StreamIo: the message protocols between two peers (Messaging), and the   *)
(* SMTP and HTTP clients and the TLS socket against a server (Clients).     *)
(***************************************************************************)
EXTENDS Messaging, Clients

CONSTANT Scenarios     \* what may be run; see StreamIo

Init == IoInit(Scenarios)

Btc == protocol.name = "btc" /\ BtcStep
Zmtp == protocol.name = "zmtp" /\ ZmtpStep
Smtp == protocol.name = "smtp" /\ (SmtpStep \/ MailServer)
Http == protocol.name = "http" /\ (HttpStep \/ WebPeer)
Ssl == protocol.name = "tls" /\ (SslStep \/ TlsServer)

Next == Btc \/ Zmtp \/ Smtp \/ Http \/ Ssl \/ Io
Spec == Init /\ [][Next]_ioVars
=============================================================================
