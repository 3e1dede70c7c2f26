----------------------------- MODULE MCHttpApi ------------------------------
(* An instance of HttpApi for TLC: one or two connections create, the others race. *)
EXTENDS HttpApi, TLC

CONSTANTS creator, x1, x2, x3, form, form2, login, t1, m1, task, key

MCIds == {form, form2, login}
MCTokenHashes == [sha256 : Calls \cup {ForgedToken}]
MCCorrelationId == [i \in MCIds |-> t1]

MCStrings == {"eu", "us", "asia"}
MCLengthOf == [s \in MCStrings |-> IF s = "asia" THEN 4 ELSE 2]
MCHasFormat == {<<"eu", "email">>, <<"asia", "email">>}

\* A required integer between 1 and 4, in halves, and an optional field of each
\* other type.
FormSchema ==
    [properties |->
        [amount |-> [type |-> "integer", minimum |-> 2, maximum |-> 8, default |-> 4],
         contact |-> [type |-> "string", minLength |-> 1, maxLength |-> 2,
                      format |-> "email", default |-> Undefined],
         region |-> [type |-> "enum", options |-> <<"eu", "us">>, enumNames |-> Undefined,
                     default |-> "us"],
         regions |-> [type |-> "array", options |-> <<"eu", "us">>, minItems |-> 1,
                      maxItems |-> Undefined, default |-> <<"eu">>],
         urgent |-> [type |-> "boolean", default |-> Undefined]],
     required |-> <<"amount">>]
MCSchemas == {FormSchema}
MCPayloadOf ==
    [i \in MCIds |-> IF i = login THEN [kind |-> "authorization", responseSchema |-> Undefined]
                     ELSE [kind |-> "input", responseSchema |-> FormSchema]]
FilledForm ==
    [amount |-> Number(8), contact |-> String("eu"), region |-> String("us"),
     regions |-> Array(<<"us", "eu">>), urgent |-> Boolean(TRUE)]

\* Each of the others is wrong in one way.
MCPayloads ==
    {FilledForm,
     [amount |-> Number(3)], [region |-> String("eu")], [amount |-> String("eu")],
     [amount |-> Number(2), contact |-> String("asia")],
     [amount |-> Number(2), regions |-> Array(<<"eu", "eu">>)],
     [amount |-> Number(2), note |-> String("us")]}

SafeUrl ==
    [absolute |-> TRUE, credentials |-> FALSE, fragment |-> FALSE, sensitiveQuery |-> FALSE,
     protocol |-> "https:", loopback |-> FALSE]
MCPolicy == [allowInsecureLoopbackHttp |-> FALSE, validateAuthorizationUrl |-> {SafeUrl}]

CreateRequestOf(i) == [op |-> "create", continuationId |-> i, expiresAt |-> Undefined]
PastRequest == [op |-> "create", continuationId |-> form, expiresAt |-> 0]
InspectRequestOf(i) == [op |-> "inspect", continuationId |-> i]
ResumeRequestOf(i) ==
    [op |-> "resume", continuationId |-> i, resumeToken |-> creator, idempotencyKey |-> key,
     resumePayload |-> FilledForm]
CancelRequestOf(i) ==
    [op |-> "cancel", continuationId |-> i, reason |-> Undefined,
     expectedVersion |-> Undefined]
MCRequests ==
    {PastRequest} \cup
    UNION {{CreateRequestOf(i), InspectRequestOf(i), ResumeRequestOf(i), CancelRequestOf(i)} :
              i \in MCIds}

Post(route, call) ==
    [route |-> route, body |-> "valid", headers |-> "valid", call |-> call,
     protocol |-> "none", context |-> Undefined]
Projection(i, protocol, body, context) ==
    [route |-> "project", body |-> body, headers |-> "valid", call |-> InspectRequestOf(i),
     protocol |-> protocol, context |-> context]

McpContext(i, related) ==
    [elicitation |-> {"form", "url"}, requestId |-> m1, relatedTask |-> related,
     urlBinding |-> IF i = login THEN [elicitationId |-> m1, url |-> SafeUrl] ELSE Undefined]

\* x1 and x2 project with the same request identifier, one continuation in different
\* contexts, or two in the same context: form2, which x3 may create beside form, asks
\* for the same input.
MCOffered ==
    [c \in Calls |->
        CASE c = creator ->
               {Post("create", CreateRequestOf(i)) : i \in {form, login}}
               \cup {Post("create", PastRequest),
                     [Post("create", CreateRequestOf(form)) EXCEPT !.body = "declared"]}
          [] c = x1 ->
               {Projection(i, "mcp", "valid", McpContext(i, Undefined)) : i \in {form, login}}
          [] c = x2 ->
               {Projection(i, "mcp", "valid", McpContext(i, task)) : i \in {form, login}}
               \cup {Projection(i, "a2a", "valid", [contextId |-> t1, taskId |-> task]) :
                        i \in {form, login}}
               \cup {Projection(form2, "mcp", "valid", McpContext(form2, Undefined)),
                     Projection(form, "ag-ui", "valid", [threadId |-> t1, runId |-> m1]),
                     Projection(form, "mcp", "tooLarge", McpContext(form, Undefined)),
                     Projection(form, "other", "valid", Undefined),
                     Post("resume", ResumeRequestOf(form)),
                     Post("events", InspectRequestOf(form))}
          [] c = x3 ->
               {Post("resume", ResumeRequestOf(i)) : i \in {form, login}}
               \cup {Post("create", CreateRequestOf(form2)),
                     Post("cancel", CancelRequestOf(form)),
                     [Post("cancel", CancelRequestOf(form)) EXCEPT !.body = "invalid"],
                     [Post("cancel", CancelRequestOf(form)) EXCEPT !.body = "malformed"],
                     [Post("resume", ResumeRequestOf(form)) EXCEPT !.headers = "noToken"]}]
=============================================================================
