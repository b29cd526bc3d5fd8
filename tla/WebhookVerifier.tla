--------------------------- MODULE WebhookVerifier ---------------------------
(***************************************************************************)
(* What a webhook request must show before a listener sees its event:      *)
(* the options of a verifier, the checks of check(), the signature and     *)
(* decode() (webhook/verifier.ts, webhook/decode.ts), and how the fields   *)
(* of a framework become a request (webhook/handler.ts).  SHA-256 and HMAC *)
(* are the injective functions they stand for: tuples of their inputs.     *)
(***************************************************************************)
EXTENDS Integers, Sequences

Undefined == "undefined"
Empty == ""

\* An error is its HTTP status when it is a WebhookError, Other when it is not.
None == 0
BadRequest == 400
InvalidSignature == 401
TooLarge == 413
Other == 500

\* process(): the status that reports an error, whoever threw it.
StatusOf(error) == IF error = None THEN 204 ELSE error
-----------------------------------------------------------------------------
(* The verifier.  options: secret, keys (from key ID to secret), tolerance,  *)
(* maxBody.                                                                 *)

\* The constructor returns, and does not throw.
Constructs(options) ==
  /\ \A kid \in DOMAIN options.keys : kid # Empty /\ options.keys[kid] # Empty
  /\ options.tolerance >= 0
  /\ options.maxBody > 0
  /\ options.secret # Empty
  /\ options.secret # Undefined \/ DOMAIN options.keys # {}

\* signRequest(): everything the signature vouches for.
Mac(secret, stamp, id, method, url, body) == <<secret, stamp, id, method, url, body>>

\* Fault: an unknown key ID falls back on the default secret.
SecretOrDefault(options, kid) ==
  IF kid \in DOMAIN options.keys THEN options.keys[kid] ELSE options.secret

\* secretFor(): with several keys the request must name one of them.
SecretFor(options, kid) ==
  CASE DOMAIN options.keys = {} -> options.secret
    [] DOMAIN options.keys # {} /\ kid \in DOMAIN options.keys -> options.keys[kid]
    [] OTHER -> Undefined

\* The age of a timestamp is negative when it is ahead of the clock of the receiver.
\* Fault: one that is ahead is taken for fresh.
SkewOneSided(age) == age
Skew(age) == IF age < 0 THEN 0 - age ELSE age

\* check(): the error it throws for a request whose body has been read.
Check(options, request, body) ==
  LET secret == SecretFor(options, request.kid) IN
  CASE request.id = Empty -> BadRequest
    [] request.stamp.form = "missing" -> BadRequest
    [] request.signature.form = "missing" -> BadRequest
    [] /\ options.tolerance > 0
       /\ request.stamp.form = "text" \/ Skew(request.stamp.age) > options.tolerance -> BadRequest
    [] secret = Undefined -> BadRequest
    [] request.signature.form \in {"algorithm", "malformed"} -> BadRequest
    [] request.signature.mac #
         Mac(secret, request.stamp, request.id, request.method, request.url, body)
       -> InvalidSignature
    [] OTHER -> None

EventTypes == {"inbound_email", "delivery_status", "s3_egress_status"}

\* decode(): the type of the event, or Undefined when it throws.  A delivery
\* status is recognized by its status, whatever type the payload names.
Decode(payload) ==
  CASE ~payload.isObject -> Undefined
    [] payload.isObject /\ payload.event_type \in EventTypes \ {"delivery_status"}
       -> payload.event_type
    [] OTHER -> IF payload.hasStatus THEN "delivery_status" ELSE Undefined
-----------------------------------------------------------------------------
(* Requests that arrive as separate fields.                                 *)

\* partsToRequest() throws for a URL that is not absolute.
Converts(parts) == parts.url # "relative"

\* A method is trimmed, upper-cased and POST by default.
Method(method) == CASE method = Empty -> "POST" [] method = "post" -> "POST" [] OTHER -> method

\* A request that has no body by its method loses the one it came with.
HasBody(method) == Method(method) \notin {"GET", "HEAD"}
=============================================================================
