----------------------------- MODULE Inventory -----------------------------
(***************************************************************************)
(* The inventory (inventory.py): JSON that declares services, read into    *)
(* the entries a scan works on.  It is read as a whole or not at all.      *)
(*                                                                         *)
(* A JSON object is a record with the keys it has; get(o, k, d) is         *)
(* Python's o.get(k, d).  A declared word is given as the coercions see it,*)
(* after strip(), lower() and the replacement of separators.  A text that  *)
(* is null or "" is <<>>: every reader takes both for "not given".         *)
(***************************************************************************)
EXTENDS Addresses, Integers

TlsMode == {"terminate", "reencrypt", "passthrough", "unknown"}

FrontendType ==
  { "f5", "nginx", "azure_front_door", "azure_app_gateway", "azure_app_service", "aws_alb",
    "aws_nlb", "aws_cloudfront", "cloudflare", "palo_alto", "other", "none", "unknown" }

DataClassification == {"public", "internal", "confidential", "regulated", "unknown"}
SensitivityHorizon == {"ephemeral", "short", "medium", "long", "unknown"}

get(object, key, default) == IF key \in DOMAIN object THEN object[key] ELSE default

-----------------------------------------------------------------------------
(* Declared words                                                          *)

\* The spellings that stand for a value besides its own name.
_ALIASES ==
  [ f5 |-> {"bigip", "big-ip", "ltm"}, other |-> {"avi"},
    azure_front_door |-> {"afd", "frontdoor", "front_door"},
    azure_app_gateway |-> {"appgw", "app_gateway", "application_gateway"},
    azure_app_service |-> {"appservice"}, aws_alb |-> {"alb", "elbv2"}, aws_nlb |-> {"nlb"},
    aws_cloudfront |-> {"cloudfront"}, palo_alto |-> {"panorama", "paloalto"},
    none |-> {"", "null", "direct", "origin"} ]

_MODE_ALIASES ==
  [ terminate |-> {"termination", "offload", "ssloffload"},
    reencrypt |-> {"bridge", "sslbridging"}, passthrough |-> {"pass", "tcp"},
    unknown |-> {""} ]

_CLASSIFICATION_ALIASES ==
  [ public |-> {"open", "unclassified"}, internal |-> {"staff"},
    confidential |-> {"private", "restricted", "sensitive"},
    regulated |-> {"pci", "phi", "phipa", "pii", "hipaa", "classified", "protected-b"},
    unknown |-> {""} ]

_HORIZON_ALIASES ==
  [ ephemeral |-> {"session", "transient", "days", "weeks"}, short |-> {"operational"},
    medium |-> {"years"}, long |-> {"decades", "permanent", "indefinite"}, unknown |-> {""} ]

\* A key that is missing or null: not the word "null", which is an alias.
Absent == "<absent>"

\* Nothing declared is "unknown"; a word that means nothing is an error.
Coerce(word, aliases, values) ==
  LET meant == { v \in values : word = v \/ word \in get(aliases, v, {}) }
  IN  CASE word = Absent -> Gives("unknown")
        [] word # Absent /\ meant # {} -> Gives(CHOOSE v \in meant : TRUE)
        [] OTHER -> Raises("InventoryError")

_coerce_frontend_type(word) == Coerce(word, _ALIASES, FrontendType)
_coerce_tls_mode(word) == Coerce(word, _MODE_ALIASES, TlsMode)
_coerce_classification(word) == Coerce(word, _CLASSIFICATION_ALIASES, DataClassification)
_coerce_horizon(word) == Coerce(word, _HORIZON_ALIASES, SensitivityHorizon)

-----------------------------------------------------------------------------
(* Endpoints and services                                                  *)

\* JSON values where an endpoint or a service is expected.
Text(t) == [kind |-> "text", text |-> t]
Object(o) == [kind |-> "object", fields |-> o]
Other == [kind |-> "other"]
NotGiven == [kind |-> "null"]

Endpoint(host, port, sni, repeat, role) ==
  [host |-> host, port |-> port, sni |-> sni, repeat |-> repeat, role |-> role]

\* The first of the results that raised, else the value.
Unless(results, value) ==
  LET i == SelectInSeq(results, LAMBDA r : ~r.ok)
  IN  IF i # 0 THEN results[i] ELSE Gives(value)

Valid(condition, exception) == IF condition THEN Gives(TRUE) ELSE Raises(exception)
ValueOf(reading, default) == IF reading.ok THEN reading.value ELSE default

\* `or`: the first text that is not empty.
FirstGiven(texts) ==
  LET i == SelectInSeq(texts, LAMBDA t : t # <<>>)
  IN  IF i = 0 THEN <<>> ELSE texts[i]

\* The repeat count is validated in an object, not behind a bare string.
_parse_endpoint(raw, default_port, default_sni, default_repeat, role) ==
  CASE raw.kind = "text" ->
         LET r == _split_host_port(raw.text, default_port)
         IN  IF r.ok THEN Gives(Endpoint(r.value.host, r.value.port, default_sni,
                                         default_repeat, role))
                     ELSE r
    [] raw.kind = "object" ->
         LET o == raw.fields
             host == FirstGiven(<<get(o, "ip", <<>>), get(o, "host", <<>>),
                                  get(o, "address", <<>>)>>)
             port == int(get(o, "port", <<default_port>>))
             repeat == get(o, "repeat", default_repeat)
         IN  Unless(<<Valid(host # <<>>, "InventoryError"), port,
                      Valid(repeat >= 1, "InventoryError")>>,
                    Endpoint(host, ValueOf(port, default_port), get(o, "sni", default_sni),
                             repeat, role))
    [] OTHER -> Raises("InventoryError")

\* Mutant of Declared: the block of defaults wins over the entry.
Declared_DefaultsWin(o, defaults, key) == get(defaults, key, get(o, key, Absent))

\* The entry's context, null included, goes before the defaults'.
Declared(o, defaults, key) == get(o, key, get(defaults, key, Absent))

\* One entry.  The service's name is its SNI unless the entry says otherwise,
\* and a frontend given as a string is one of unknown type.
parse_service(raw, defaults) ==
  IF raw.kind # "object" THEN Raises("AttributeError")
  ELSE
  LET o == raw.fields
      port == int(get(defaults, "port", <<"443">>))
      default_port == ValueOf(port, "443")
      default_repeat == get(defaults, "repeat", 1)
      name == FirstGiven(<<get(o, "service", <<>>), get(o, "name", <<>>)>>)
      sni == get(o, "sni", name)
      f == get(o, "frontend", get(o, "vip", NotGiven))
      block == IF f.kind = "object" THEN f.fields ELSE [k \in {} |-> {}]
      type == _coerce_frontend_type(get(block, "type", Absent))
      endpoint == _parse_endpoint(f, default_port, sni,
                                  get(defaults, "frontend_repeat", default_repeat), "frontend")
      mode == _coerce_tls_mode(get(block, "tls_mode", Absent))
      backends == [ i \in DOMAIN get(o, "backends", <<>>) |->
                      _parse_endpoint(o.backends[i], default_port, sni, default_repeat,
                                      "backend") ]
      classification == _coerce_classification(Declared(o, defaults, "data_classification"))
      horizon == _coerce_horizon(Declared(o, defaults, "sensitivity_horizon"))
  IN  Unless( <<port, Valid(name # <<>>, "InventoryError")>>
              \o (IF f.kind = "null" THEN <<>> ELSE <<type, endpoint, mode>>)
              \o backends
              \o <<Valid(f.kind # "null" \/ backends # <<>>, "InventoryError"),
                   classification, horizon>>,
        [ name |-> name, sni |-> sni,
          frontend |-> IF f.kind = "null" THEN <<>>
                       ELSE <<[ endpoint |-> endpoint.value, type |-> type.value,
                                tls_mode |-> mode.value ]>>,
          backends |-> [i \in DOMAIN backends |-> backends[i].value],
          data_classification |-> classification.value,
          sensitivity_horizon |-> horizon.value ])

\* {"services": [...], "defaults": {...}}, a bare list, or a single service:
\* the defaults are read in the first form only.
load_inventory(raw) ==
  LET defaults == IF raw.shape = "services" THEN raw.defaults ELSE [k \in {} |-> {}]
      services == [ i \in DOMAIN raw.entries |-> parse_service(raw.entries[i], defaults) ]
  IN  Unless(services, [i \in DOMAIN services |-> services[i].value])

-----------------------------------------------------------------------------
(* What a scan asks of a service                                           *)

has_frontend(service) ==
  service.frontend # <<>> /\ service.frontend[1].type # "none"

all_endpoints(service) ==
  [i \in DOMAIN service.frontend |-> service.frontend[i].endpoint] \o service.backends

effective_sni(endpoint, service) == FirstGiven(<<endpoint.sni, service.sni>>)
=============================================================================
