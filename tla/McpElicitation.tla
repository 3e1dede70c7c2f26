--------------------------- MODULE McpElicitation ---------------------------
(***************************************************************************)
(* The MCP adapter, src/adapters/mcp/elicitation.ts: the restricted form   *)
(* schemas of MCP elicitation, the request a pending continuation becomes, *)
(* the host-side receipt of that request, and the reading of a result.     *)
(*                                                                         *)
(* The functions are pure.  A string is an abstract value with a length    *)
(* and the formats it matches; a number is given in halves, so that an     *)
(* integer is an even one; a URL is what the adapter tests it for.         *)
(***************************************************************************)
EXTENDS ContinuationPayload, Integers

CONSTANTS
    Strings,        \* string values
    LengthOf,       \* LengthOf[s]: unicodeLength of s
    HasFormat,      \* the <<string, format>> pairs that validateStringFormat accepts
    Policy          \* the host's McpProjectionPolicy

Formats == {"email", "uri", "date", "date-time"}

ASSUME McpAssumption ==
    /\ LengthOf \in [Strings -> Nat]
    /\ HasFormat \subseteq Strings \X Formats

\* A value with its JavaScript type.
Boolean(b) == [is |-> "boolean", value |-> b]
Number(n) == [is |-> "number", value |-> n]
String(s) == [is |-> "string", value |-> s]
Array(s) == [is |-> "array", value |-> s]

IsUnique(s) == \A j, k \in DOMAIN s : s[j] = s[k] => j = k
Elements(s) == {s[k] : k \in DOMAIN s}

\* An optional bound that is given holds.
AtLeast(n, bound) == bound = Undefined \/ n >= bound
AtMost(n, bound) == bound = Undefined \/ n <= bound

-----------------------------------------------------------------------------
(* Schema definitions.  "enum" is a string with enum or oneOf options, plain, *)
(* titled or with enumNames; "array" a selection of several options.          *)

StringDefinitionIsValid(d) ==
    /\ d.minLength # Undefined /\ d.maxLength # Undefined => d.minLength <= d.maxLength
    /\ d.default # Undefined =>
         /\ AtLeast(LengthOf[d.default], d.minLength)
         /\ AtMost(LengthOf[d.default], d.maxLength)
         /\ d.format # Undefined => <<d.default, d.format>> \in HasFormat

NumberDefinitionIsValid(d) ==
    /\ d.minimum # Undefined /\ d.maximum # Undefined => d.minimum <= d.maximum
    /\ d.default # Undefined =>
         /\ d.type = "integer" => d.default % 2 = 0
         /\ AtLeast(d.default, d.minimum)
         /\ AtMost(d.default, d.maximum)

EnumDefinitionIsValid(d) ==
    /\ d.options # << >>
    /\ IsUnique(d.options)
    /\ d.enumNames \in {Undefined, Len(d.options)}
    /\ d.default # Undefined => d.default \in Elements(d.options)

MultiEnumDefinitionIsValid(d) ==
    /\ d.options # << >>
    /\ IsUnique(d.options)
    /\ d.minItems # Undefined /\ d.maxItems # Undefined => d.minItems <= d.maxItems
    /\ d.default # Undefined =>
         /\ IsUnique(d.default)
         /\ Elements(d.default) \subseteq Elements(d.options)
         /\ AtLeast(Len(d.default), d.minItems)
         /\ AtMost(Len(d.default), d.maxItems)

DefinitionIsValid(d) ==
    \/ d.type = "boolean"
    \/ d.type \in {"number", "integer"} /\ NumberDefinitionIsValid(d)
    \/ d.type = "string" /\ StringDefinitionIsValid(d)
    \/ d.type = "enum" /\ EnumDefinitionIsValid(d)
    \/ d.type = "array" /\ MultiEnumDefinitionIsValid(d)

\* properties maps names to definitions, required lists names.
RequestedSchemaIsValid(schema) ==
    /\ \A name \in DOMAIN schema.properties : DefinitionIsValid(schema.properties[name])
    /\ schema.required # Undefined =>
         /\ IsUnique(schema.required)
         /\ Elements(schema.required) \subseteq DOMAIN schema.properties

EmptySchema == [properties |-> << >>, required |-> Undefined]

-----------------------------------------------------------------------------
(* Values against their schema *)

FieldValueIsValid(v, d) ==
    \/ d.type = "boolean" /\ v.is = "boolean"
    \/ /\ d.type \in {"number", "integer"} /\ v.is = "number"
       /\ d.type = "integer" => v.value % 2 = 0
       /\ AtLeast(v.value, d.minimum)
       /\ AtMost(v.value, d.maximum)
    \/ /\ d.type = "array" /\ v.is = "array"
       /\ IsUnique(v.value)
       /\ AtLeast(Len(v.value), d.minItems)
       /\ AtMost(Len(v.value), d.maxItems)
       /\ Elements(v.value) \subseteq Elements(d.options)
    \/ d.type = "enum" /\ v.is = "string" /\ v.value \in Elements(d.options)
    \/ /\ d.type = "string" /\ v.is = "string"
       /\ AtLeast(LengthOf[v.value], d.minLength)
       /\ AtMost(LengthOf[v.value], d.maxLength)
       /\ d.format # Undefined => <<v.value, d.format>> \in HasFormat

\* validatedFormContent returns the content rather than throwing.
FormContentIsValid(content, schema) ==
    /\ DOMAIN content \subseteq DOMAIN schema.properties
    /\ schema.required # Undefined => Elements(schema.required) \subseteq DOMAIN content
    /\ \A name \in DOMAIN content : FieldValueIsValid(content[name], schema.properties[name])

-----------------------------------------------------------------------------
(* Projecting a continuation *)

\* What the adapter asks of a URL: isSensitiveQueryParameter, isLoopbackHostname.
Url ==
    [absolute : BOOLEAN, credentials : BOOLEAN, fragment : BOOLEAN, sensitiveQuery : BOOLEAN,
     protocol : {"https:", "http:", "other:"}, loopback : BOOLEAN]

\* policy.validateAuthorizationUrl is the set of URLs the host's validator
\* accepts (it may also reject or throw), Undefined if the host has none.
UrlBindingIsValid(url, policy) ==
    /\ url.absolute
    /\ ~ url.credentials
    /\ ~ url.fragment
    /\ ~ url.sensitiveQuery
    /\ \/ url.protocol = "https:"
       \/ url.protocol = "http:" /\ policy.allowInsecureLoopbackHttp /\ url.loopback
    /\ policy.validateAuthorizationUrl # Undefined
    /\ url \in policy.validateAuthorizationUrl

\* elicitation is the set of keys the client declared, or Undefined; an empty
\* object stands for form support.
SupportsMode(elicitation, mode) ==
    /\ elicitation # Undefined
    /\ mode \in elicitation \/ (mode = "form" /\ elicitation = {})

\* ContinuationPayloadSchema: an input may declare a requested schema, an
\* authorization no schema at all.
PayloadIsProjectable(i) ==
    \/ PayloadOf[i].kind = "authorization" /\ PayloadOf[i].responseSchema = Undefined
    \/ /\ PayloadOf[i].kind = "input"
       /\ \/ PayloadOf[i].responseSchema = Undefined
          \/ RequestedSchemaIsValid(PayloadOf[i].responseSchema)

RequestedSchemaOf(i) ==
    IF PayloadOf[i].responseSchema = Undefined THEN EmptySchema ELSE PayloadOf[i].responseSchema

ProjectionMetadata(continuation, context) ==
    [continuationId |-> continuation.continuationId,
     correlationId |-> CorrelationId[continuation.continuationId],
     expiresAt |-> continuation.expiresAt, requestId |-> context.requestId,
     relatedTask |-> context.relatedTask]

ToMcpElicitRequest(continuation, context, policy) ==
    LET i == continuation.continuationId
        request(mode, schema, binding) ==
            [id |-> context.requestId, mode |-> mode, requestedSchema |-> schema,
             urlBinding |-> binding, meta |-> ProjectionMetadata(continuation, context)]
    IN  IF continuation.status # "pending" THEN Refused("INVALID_PROTOCOL_TRANSITION")
        ELSE IF ~ PayloadIsProjectable(i) THEN Refused("INVALID_PROTOCOL_MESSAGE")
        ELSE IF PayloadOf[i].kind = "authorization"
          THEN IF ~ SupportsMode(context.elicitation, "url")
                 THEN Refused("UNSUPPORTED_PROTOCOL_CAPABILITY")
               ELSE IF context.urlBinding = Undefined THEN Refused("INVALID_PROTOCOL_BINDING")
               ELSE IF ~ UrlBindingIsValid(context.urlBinding.url, policy)
                 THEN Refused("INVALID_PROTOCOL_BINDING")
               ELSE Projected(request("url", Undefined, context.urlBinding))
        ELSE IF ~ SupportsMode(context.elicitation, "form")
          THEN Refused("UNSUPPORTED_PROTOCOL_CAPABILITY")
        ELSE IF context.urlBinding # Undefined THEN Refused("INVALID_PROTOCOL_BINDING")
        ELSE Projected(request("form", RequestedSchemaOf(i), Undefined))

\* requestHash: the digest of the whole request.
CreateMcpElicitationReceipt(continuation, request) ==
    [continuationId |-> continuation.continuationId,
     correlationId |-> CorrelationId[continuation.continuationId],
     mode |-> request.mode, requestId |-> request.id, requestHash |-> HashJson(request)]

IssueMcpElicitation(continuation, context, policy) ==
    LET projected == ToMcpElicitRequest(continuation, context, policy) IN
    IF projected.code # "ok" THEN projected
    ELSE Projected([request |-> projected.message,
                    receipt |-> CreateMcpElicitationReceipt(continuation, projected.message)])

-----------------------------------------------------------------------------
(* Reading a result *)

RequestIsBound(continuation, request) ==
    LET i == continuation.continuationId IN
    /\ PayloadIsProjectable(i)
    /\ request.meta.continuationId = i
    /\ request.meta.correlationId = CorrelationId[i]
    /\ request.meta.expiresAt = continuation.expiresAt
    /\ request.meta.requestId = request.id
    /\ request.mode = IF PayloadOf[i].kind = "authorization" THEN "url" ELSE "form"
    /\ request.mode = "form" => request.requestedSchema = RequestedSchemaOf(i)

\* Mutant of ReceiptMatches: the digest of the request is not compared.
ReceiptMatchesById(continuation, request, receipt) ==
    /\ receipt.continuationId = continuation.continuationId
    /\ receipt.correlationId = CorrelationId[continuation.continuationId]
    /\ receipt.mode = request.mode
    /\ receipt.requestId = request.id

ReceiptMatches(continuation, request, receipt) ==
    /\ receipt.continuationId = continuation.continuationId
    /\ receipt.correlationId = CorrelationId[continuation.continuationId]
    /\ receipt.mode = request.mode
    /\ receipt.requestId = request.id
    /\ receipt.requestHash = HashJson(request)

\* result is [action, content]; content is a function from names to values, or
\* Undefined.
ParseMcpElicitResult(continuation, request, receipt, result) ==
    IF continuation.status # "pending" THEN Refused("INVALID_PROTOCOL_TRANSITION")
    ELSE IF \/ ~ RequestIsBound(continuation, request)
            \/ ~ ReceiptMatches(continuation, request, receipt)
      THEN Refused("INVALID_PROTOCOL_BINDING")
    ELSE IF request.mode = "url"
      THEN IF result.content # Undefined THEN Refused("INVALID_PROTOCOL_MESSAGE")
           ELSE Projected([kind |-> "url_consent", action |-> result.action,
                           content |-> Undefined])
    ELSE IF result.action # "accept"
      THEN IF result.content # Undefined THEN Refused("INVALID_PROTOCOL_MESSAGE")
           ELSE Projected([kind |-> "form_response", action |-> result.action,
                           content |-> Undefined])
    ELSE IF \/ result.content = Undefined
            \/ ~ FormContentIsValid(result.content, request.requestedSchema)
      THEN Refused("INVALID_PROTOCOL_MESSAGE")
    ELSE Projected([kind |-> "form_response", action |-> "accept",
                    content |-> result.content])

ToMcpElicitationCompleteNotification(continuation, request, receipt) ==
    IF continuation.status # "resumed" THEN Refused("INVALID_PROTOCOL_TRANSITION")
    ELSE IF \/ request.mode # "url"
            \/ ~ RequestIsBound(continuation, request)
            \/ ~ ReceiptMatches(continuation, request, receipt)
      THEN Refused("INVALID_PROTOCOL_BINDING")
    ELSE Projected([elicitationId |-> request.urlBinding.elicitationId, meta |-> request.meta])
=============================================================================
