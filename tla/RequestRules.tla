------------------------------ MODULE RequestRules ------------------------------
(***************************************************************************)
(* The rules a request is judged by, as pure operators: which platform it  *)
(* comes from, whether its Origin is allowed, whether the registry accepts *)
(* its token and signature, and which status an error is answered with.    *)
(*                                                                         *)
(* A signature is represented by the secret that made it over this very    *)
(* body, so hmac::verify(key, body, sig) is the equality sig = key; any    *)
(* value that is nobody's secret stands for a signature that does not      *)
(* decode or does not verify.                                              *)
(***************************************************************************)
CONSTANTS
  None,                 \* Rust's None
  App,                  \* application ids a request or a registry row may name
  Token,                \* values of XORC-Api-Token
  Secret,               \* HMAC keys that hex::decode accepts
  Origin,               \* values of the Origin header
  DefaultToken,         \* CONFIG.gateway.default_token
  AllowEmptySignature,  \* CONFIG.gateway.allow_empty_signature
  CorsEnabled,          \* the configuration has a [cors] section
  AllowedOrigins        \* CONFIG.origins: the allowed origins of each app id

ASSUME RulesAssumption ==
  /\ None \notin Token
  /\ None \notin Secret
  /\ None \notin Origin
  /\ DefaultToken \in Token
  /\ AllowEmptySignature \in BOOLEAN
  /\ CorsEnabled \in BOOLEAN
  /\ AllowedOrigins \in [App -> SUBSET Origin]

-----------------------------------------------------------------------------
(* The registry's view of the applications.                                *)

Application == [token   : Token \cup {None},
                ios     : Secret \cup {None},
                android : Secret \cup {None},
                web     : Secret \cup {None}]

\* An application without a token, or a secret, is still an application: None
\* in the map means that the HashMap has no entry for the id.
ASSUME NoneIsNoApplication == None \notin Application

AppMap == [App -> Application \cup {None}]

NoApps == [a \in App |-> None]

-----------------------------------------------------------------------------
Platforms == {"ios", "android", "web", "unknown"}

\* The device's platform field decides; os_name is only a fallback.
PlatformOf(m) ==
  IF m.platform \in {"ios", "android", "web"} THEN m.platform
  ELSE CASE m.osName \in {"iOS", "iPhone OS"} -> "ios"
         [] m.osName = "Android"               -> "android"
         [] OTHER                              -> "unknown"

-----------------------------------------------------------------------------
(* Cross-origin rules.                                                     *)

\* A missing Origin header is never valid, nor one of an app with no entry.
ValidOrigin(app, origin) ==
  origin # None /\ origin \in AllowedOrigins[app]

OriginRejected(m) ==
  /\ CorsEnabled
  /\ PlatformOf(m) = "web"
  /\ ~ValidOrigin(m.app, m.origin)

\* response_builder_origin adds the Access-Control headers on no other answer.
CorsHeaders(m) ==
  CorsEnabled /\ ValidOrigin(m.app, m.origin) /\ PlatformOf(m) = "web"

-----------------------------------------------------------------------------
(* Authentication of the application.                                      *)

ValidToken(app) == IF app.token = None THEN DefaultToken ELSE app.token

\* Faulty variant, for the sensitivity of the properties.
SecretForAnyPlatform(app, platform) == app.ios

SecretFor(app, platform) ==
  CASE platform = "ios"     -> app.ios
    [] platform = "android" -> app.android
    [] platform = "web"     -> app.web
    [] OTHER                -> None

SignatureVerifies(secret, m) == m.signature = secret

\* The checks in the order of the code; the first that fails names the error.
Validate(apps, m) ==
  LET app    == apps[m.app]
      secret == SecretFor(app, PlatformOf(m))
  IN  IF app = None THEN "AppDoesNotExist"
      ELSE IF m.token # None /\ m.token # ValidToken(app) THEN "InvalidToken"
      ELSE IF m.events = 0 THEN "InvalidPayload"
      ELSE IF AllowEmptySignature THEN "Ok"
      ELSE IF m.signature = None THEN "MissingSignature"
      ELSE IF secret = None THEN "AppDoesNotExist"
      ELSE IF ~SignatureVerifies(secret, m) THEN "InvalidSignature"
      ELSE "Ok"

\* Faulty variant: the default token stands in, as it does in validate.
TokenForOrDefault(apps, app) ==
  IF apps[app] = None THEN None ELSE ValidToken(apps[app])

\* token_for: the token of the app itself, never the default one.
TokenFor(apps, app) == IF apps[app] = None THEN None ELSE apps[app].token

-----------------------------------------------------------------------------
Errors == {"AppDoesNotExist", "InvalidToken", "MissingToken", "MissingSignature",
           "InvalidSignature", "UnknownOrigin", "BadDeviceId", "InvalidPayload",
           "InternalServerError", "ServiceUnavailable"}

StatusOf(error) ==
  CASE error \in {"AppDoesNotExist", "UnknownOrigin"}     -> 403
    [] error \in {"InvalidToken", "MissingToken",
                  "MissingSignature", "InvalidSignature"} -> 412
    [] error \in {"BadDeviceId", "InvalidPayload"}        -> 400
    [] error = "InternalServerError"                      -> 500
    [] error = "ServiceUnavailable"                       -> 503
=============================================================================
