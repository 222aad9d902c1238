------------------------------- MODULE Errors -------------------------------
(***************************************************************************)
(* TokenizerError (icebreaker-common): the variants by name, and what the  *)
(* proxy derives from one: the status and the class it records.            *)
(* UpstreamError is left out: nothing in the repository constructs it.     *)
(***************************************************************************)
EXTENDS Integers

Status500 ==
    {"CryptoError", "OAuthRefreshError", "SigningError", "ConfigError", "AuditError",
     "NonceStoreError", "InternalError"}

Status403 ==
    {"HostNotAllowed", "MethodNotAllowed", "PathNotAllowed", "BlockedAddress",
     "SecretLeakDetected", "UnsupportedContentEncoding"}

Status401 ==
    {"TokenExpired", "DecryptionError", "TokenReplayDetected",
     "ReplayProtectionUnavailable", "ReplayProtectionRequiresExpiry"}

TokenizerError ==
    Status500 \cup Status403 \cup Status401
        \cup {"Timeout", "RateLimitExceeded", "HttpError", "ProxyAuthRequired", "InvalidPayload"}

StatusCode(e) ==
    CASE e \in Status500 -> 500
      [] e \in Status403 -> 403
      [] e \in Status401 -> 401
      [] e = "Timeout" -> 504
      [] e = "RateLimitExceeded" -> 429
      [] e = "HttpError" -> 502
      [] e = "ProxyAuthRequired" -> 407
      [] e = "InvalidPayload" -> 400

\* error_class: "upstream" for an HttpError, a label of its own for every other
\* variant, for which the variant's name stands here.
ErrorClass(e) == IF e = "HttpError" THEN "upstream" ELSE e

StatusLabel == {"2xx", "3xx", "4xx", "5xx", "other"}

\* record_request's status label
StatusClass(status) ==
    CASE status \in 200..299 -> "2xx"
      [] status \in 300..399 -> "3xx"
      [] status \in 400..499 -> "4xx"
      [] status \in 500..599 -> "5xx"
      [] OTHER -> "other"
=============================================================================
