----------------------------- MODULE MCIfaMatching -----------------------------
(***************************************************************************)
(* Small instances of IfaMatching for TLC.  The devices: one that can be   *)
(* recognised, another of the same application, the first one's IFA in     *)
(* another application, the first one with tracking switched off, the nil  *)
(* IFA of everybody who limits tracking, and an application id that is no  *)
(* UUID.                                                                   *)
(***************************************************************************)
EXTENDS IfaMatching, TLC

CONSTANTS a, b, named, i, j, zero

MCApp      == {a, b, named}
MCUuidApps == {a, b}
MCIfa      == {i, j}

Dev(app, ifa, tracking) == [app |-> app, ifa |-> ifa, tracking |-> tracking]

TwoDevices   == {Dev(a, i, TRUE), Dev(a, j, TRUE)}
ThreeDevices == TwoDevices \cup {Dev(a, i, FALSE)}
AllDevices ==
  TwoDevices \cup {Dev(b, i, TRUE), Dev(a, i, FALSE), Dev(a, zero, TRUE),
                   Dev(a, "malformed", TRUE), Dev(named, i, TRUE)}

Permuted == Permutations(Req) \cup Permutations(Id \ PriorIds)
=============================================================================
