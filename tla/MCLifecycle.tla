------------------------------ MODULE MCLifecycle ------------------------------
(***************************************************************************)
(* Small instances of Lifecycle for TLC: the applications are those of the *)
(* configuration, of which one has a token and the other a secret that is  *)
(* not hexadecimal.                                                        *)
(***************************************************************************)
EXTENDS Lifecycle, TLC

CONSTANTS a, b, t, s

MCApp     == {a, b}
MCOrigins == [x \in MCApp |-> {}]

TestApps ==
  [x \in MCApp |->
     IF x = a THEN [token |-> t, ios |-> s, android |-> None, web |-> s]
              ELSE [token |-> None, ios |-> "not hex", android |-> s, web |-> None]]

MCTables == {TestApps}

ColumnsRead == {"app_id", "sdk_token", "ios_api_secret", "android_api_secret", "web_api_secret"}
=============================================================================
