------------------------------ MODULE MCWebhook ------------------------------
(* Small instances of Webhook for TLC. *)
EXTENDS Webhook

CONSTANT d1

RawMessage == <<1, 2>>
NoKeys == [kid \in {} |-> Empty]
Keys == [k1 \in {"old", "new"} |-> IF k1 = "old" THEN "s1" ELSE "s2"]
Given(secret, keys, tolerance, maxBody) ==
  [secret |-> secret, keys |-> keys, tolerance |-> tolerance, maxBody |-> maxBody]
SomeOptions ==
  {Given("s1", NoKeys, 1, 2), Given("s1", NoKeys, 1, 1), Given(Undefined, Keys, 1, 2), Given("s1", Keys, 0, 2),
   Given(Undefined, NoKeys, 1, 2), Given(Empty, Keys, 1, 2), Given("s1", NoKeys, 0 - 1, 2),
   Given("s1", NoKeys, 1, 0), Given("s1", [kid \in {"old"} |-> Empty], 1, 2)}

Good == [id |-> "id", stamp |-> [form |-> "number", age |-> 0], form |-> "ok", kid |-> "old",
         secret |-> "s1", url |-> "public", method |-> "POST", parts |-> FALSE, used |-> FALSE,
         length |-> 2, split |-> TRUE, tail |-> "end", signal |-> "none"]
Parts == [Good EXCEPT !.parts = TRUE, !.method = "post"]
SomeArrivals ==
  {Good, Parts, [Good EXCEPT !.kid = "new", !.secret = "s2"],
   [Good EXCEPT !.id = Empty], [Good EXCEPT !.stamp.form = "missing"],
   [Good EXCEPT !.stamp.form = "text"], [Good EXCEPT !.stamp.age = 2],
   [Good EXCEPT !.stamp.age = 1], [Good EXCEPT !.stamp.age = 0 - 1], [Good EXCEPT !.stamp.age = 0 - 2],
   [Good EXCEPT !.form = "missing"], [Good EXCEPT !.form = "algorithm"],
   [Good EXCEPT !.form = "malformed"], [Good EXCEPT !.kid = Empty],
   [Good EXCEPT !.kid = "other"], [Good EXCEPT !.secret = "s2"], [Good EXCEPT !.used = TRUE],
   [Good EXCEPT !.length = 1], [Good EXCEPT !.length = 3, !.split = FALSE],
   [Good EXCEPT !.tail = "error"], [Good EXCEPT !.tail = "silent", !.signal = "live"],
   [Good EXCEPT !.length = 1, !.signal = "live"], [Good EXCEPT !.signal = "fired"],
   [Good EXCEPT !.url = "internal"], [Parts EXCEPT !.url = "relative"],
   [Parts EXCEPT !.length = 3], [Parts EXCEPT !.length = 1], [Parts EXCEPT !.method = "GET"],
   [Good EXCEPT !.method = "GET"]}

Raw(usable, size, digest) == [usable |-> usable, size |-> size, digest |-> digest]
Payload(isObject, type, hasStatus, raw) ==
  [isObject |-> isObject, event_type |-> type, hasStatus |-> hasStatus, raw |-> raw]
SomePayloads ==
  {Payload(TRUE, "inbound_email", FALSE, raw) :
     raw \in {Raw(TRUE, 0, <<>>), Raw(TRUE, 2, <<>>), Raw(TRUE, 2, <<1, 2>>), Raw(FALSE, 0, <<>>)}}
  \cup {Payload(TRUE, "s3_egress_status", TRUE, Raw(FALSE, 0, <<>>)),
        Payload(TRUE, "unknown", TRUE, Raw(FALSE, 0, <<>>)),
        Payload(TRUE, "unknown", FALSE, Raw(FALSE, 0, <<>>)),
        Payload(FALSE, "unknown", FALSE, Raw(FALSE, 0, <<>>))}

Client(username) == [baseUrl |-> "https:", username |-> username,
                     secret |-> IF username = Empty THEN Empty ELSE "s", timeout |-> 1]
Listener(type, runs, signal, username) ==
  [type |-> type, runs |-> runs, signal |-> signal, client |-> Client(username)]
SomeListeners ==
  {Listener("inbound_email", "plain", "none", Empty),
   Listener("inbound_email", "teach", "live", "u"),
   Listener("inbound_email", "fetch", "fired", Empty),
   Listener("delivery_status", "unsubscribe", "none", Empty)}

SomeDownloads ==
  {NoStream, Stream(<<<<1>>, <<2>>>>, "end"), Stream(<<<<1>>>>, "end"), Stream(<<<<1, 3>>>>, "end"),
   Stream(<<<<1, 2, 3>>>>, "end"), Stream(<<<<1, 2>>, <<3, 4>>>>, "end"),
   Stream(<<<<1>>>>, "error"), Stream(<<<<1>>>>, "silent")}
SomeResponses ==
  {[ok |-> ok, body |-> body] : ok \in BOOLEAN,
     body \in {Stream(<<<<1>>>>, "end"), Stream(<<<<1, 1>>>>, "end"), Stream(<<>>, "error"),
               Stream(<<<<1>>>>, "silent"), NoStream}}
=============================================================================
