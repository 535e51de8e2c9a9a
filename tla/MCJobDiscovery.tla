--------------------------- MODULE MCJobDiscovery ---------------------------
(***************************************************************************)
(* JobDiscovery on small instances: three personas; one job from a         *)
(* source and by hand, another that resembles it.                          *)
(***************************************************************************)
EXTENDS JobDiscovery

CONSTANTS p1, p2, p3, ad1, ad2, own

Three == {p1, p2, p3}
AllAds == {ad1, ad2, own}
Keys == [x \in AllAds |-> IF x = own THEN NoKey ELSE <<x>>]
TheTexts == [x \in AllAds |-> IF x = ad1 THEN "t1" ELSE "t2"]
Alike == {<<"t1", "t2">>}
Fitting == {<<p1, ad2>>, <<p2, own>>}
Shows == [p \in Three |-> IF p = p1 THEN {{ad1}} ELSE IF p = p2 THEN {{ad2}} ELSE {}]
Times == [p \in Three |-> IF p = p1 THEN {0} ELSE IF p = p2 THEN {None} ELSE {0, Null}]
Pollable == {p1, p2}
Frequencies == [p \in Three |-> "Daily"]
Hand == {<<p1, own>>}
WithDate == {ad1}

\* Two personas: one submits a job and its own source shows the job, too.
Two == {p1, p2}
OwnFeed == [p \in Two |-> IF p = p1 THEN {{ad2}} ELSE {}]
NoTimes == [p \in Two |-> {None}]
=============================================================================
