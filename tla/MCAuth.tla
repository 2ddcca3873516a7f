------------------------------- MODULE MCAuth -------------------------------
(* Instances of Auth for TLC. *)
EXTENDS Auth, TLC
CONSTANTS phone, phone2, tablet, d1, d2, ip1, ip2

(* A phone that reconnects (two connections of one device) and a tablet. *)
MCDeviceOf == phone :> d1 @@ phone2 :> d1 @@ tablet :> d2
MCIpOf == phone :> ip1 @@ phone2 :> ip1 @@ tablet :> ip2

(* The ways to share three messages among them, up to renaming. *)
Sent(p, p2, t) == phone :> p @@ phone2 :> p2 @@ tablet :> t
Connected == {Sent(2, 0, 1)}
Reconnecting == Connected \cup {Sent(3, 0, 0), Sent(2, 1, 0), Sent(1, 1, 1)}
=============================================================================
