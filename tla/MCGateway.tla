------------------------------- MODULE MCGateway -------------------------------
(***************************************************************************)
(* Small instances of Gateway for TLC.  The registry shows an application  *)
(* with a token, the same one with its token removed and its secrets       *)
(* exchanged, or none.                                                     *)
(***************************************************************************)
EXTENDS Gateway, TLC

CONSTANTS a, b, t, other, default, s1, s2, site, i, zero

MCApp      == {a, b}
MCUuidApps == {a}
MCIfa      == {i}
MCOrigins  == [x \in MCApp |-> IF x = a THEN {site} ELSE {}]

Show(x)  == [y \in MCApp |-> IF y = a THEN x ELSE None]
WithToken    == Show([token |-> t, ios |-> s1, android |-> None, web |-> s2])
WithoutToken == Show([token |-> None, ios |-> s2, android |-> s1, web |-> s1])

OneMap    == {WithToken}
TwoMaps   == {WithToken, NoApps}
ThreeMaps == {WithToken, WithoutToken, NoApps}

\* A registration of an identifiable device, signed for iOS.
Registration ==
  [route |-> "sdk", json |-> TRUE, app |-> a, platform |-> "ios", osName |-> None,
   origin |-> None, token |-> None, signature |-> s1, header |-> "absent", ifa |-> i,
   tracking |-> TRUE, recipient |-> None, events |-> 2, register |-> TRUE]

WebRegistration ==
  [Registration EXCEPT !.platform = "web", !.origin = site, !.signature = s2]

Batch(h) == [Registration EXCEPT !.header = h, !.token = t, !.register = FALSE,
                                 !.events = 3, !.recipient = "claimed"]

\* One request, with the combinations of what the rules look at.
Origins == {<<p, o, g>> \in {"ios", "android", "web", "unknown"}
                            \X {"iPhone OS", "Android", None} \X {site, None} :
              (p = "unknown" \/ o = None) /\ (p = "web" \/ g = None)}

Judgements ==
  {[Registration EXCEPT !.platform = c[1], !.osName = c[2], !.origin = c[3],
                        !.token = k, !.signature = z, !.events = n] :
     c \in Origins, k \in {t, other, default, None}, z \in {s1, s2, "invalid", None},
     n \in {0, 2}}
  \cup {[Registration EXCEPT !.app = b]}

\* Requests side by side: each way through the pipeline.
Traffic ==
  {Registration, [Registration EXCEPT !.header = "sealed"],
   [Registration EXCEPT !.tracking = FALSE, !.token = other],
   Batch("sealed"), Batch("forged"), Batch("short"),
   [Batch("absent") EXCEPT !.json = FALSE],
   [Batch("absent") EXCEPT !.route = "options"],
   [Batch("absent") EXCEPT !.route = "metrics"],
   [Batch("absent") EXCEPT !.route = "other"]}

Registering == {Registration, WebRegistration}
OnlyRegistration == {Registration}
Forged      == {[Registration EXCEPT !.header = "forged"]}

Permuted == Permutations(Req) \cup Permutations(Id \ PriorIds)
=============================================================================
