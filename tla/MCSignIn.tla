------------------------------ MODULE MCSignIn ------------------------------
(***************************************************************************)
(* SignIn with two browsers, two addresses, one of them an administrator's,*)
(* and two provider accounts: one whose address changes, and one whose     *)
(* address the provider does not vouch for.                                *)
(***************************************************************************)
EXTENDS SignIn

CONSTANTS b1, b2, ann, bob, google, linkedin, l1, l2

TwoBrowsers == {b1, b2}
People == {ann, bob}
Providers == {google, linkedin}
Trusted == {google}
Reported == [a \in Providers |-> IF a = google THEN People ELSE {bob}]
TwoLinks == {l1, l2}
Admins == {ann}
=============================================================================
