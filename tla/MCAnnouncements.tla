-------------------------- MODULE MCAnnouncements ---------------------------
(* Small instance of Announcements for TLC: a chain of two steps, whose     *)
(* second nobody can escalate, a test delivery, and two notices, to the     *)
(* same recipient or to two, one with a message of its own besides the      *)
(* digest.                                                                  *)
EXTENDS Announcements, TLC

CONSTANTS hod, dean, staff, i1, test, n1, n2

MCHolders == (1 :> {hod}) @@ (2 :> {dean})
MCEscalation == (1 :> {dean}) @@ (2 :> {})
MCUsers == {hod, dean, staff}
MCChannelsOf == (n1 :> {"email", "inApp"}) @@ (n2 :> {"sms"})
MCAudiences == {(n1 :> 1) @@ (n2 :> 1), (n1 :> 1) @@ (n2 :> 2)}
=============================================================================
