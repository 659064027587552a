------------------------------ MODULE AuthRequests ------------------------------
(***************************************************************************)
(* How a tool asks for a credential of the user and gets it back           *)
(* (types/auth_handler.go, types/auth_tool.go, flow/llmflow/auth.go).  A   *)
(* configuration says which scheme is used and holds the credential it     *)
(* started with and the one that was exchanged for it.  A request for the  *)
(* client is made from it; the answer of the user is read from the events  *)
(* of the session and stored in its state.                                 *)
(*                                                                         *)
(* Keys of the state are taken to be right (see BufferPool for when they   *)
(* are not), and the Type of a scheme to be that of its Go type.  nil      *)
(* dereferences are the outcome "panic".                                   *)
(***************************************************************************)
EXTENDS Naturals, Sequences, FiniteSets

VARIABLES
  config,   \* the configuration: [scheme, flow, raw, exchanged]
  requested,\* outcome of making a request of it
  stored,   \* the credential in the state: of the configuration, or "none"
  answer,   \* what the events of the session say of it: kinds of the user's last event
  outcome   \* outcome of the last operation

vars == <<config, requested, stored, answer, outcome>>

Schemes == {"none", "apiKey", "http", "oauth2", "openId", "openIdWithConfig"}
(* Of an OAuth2 scheme: the flow that is defined, or what is missing.      *)
Flows == {"nil", "empty", "implicit", "code", "codeWithoutURL", "client", "password"}
Raws == {"nil", "plain", "noIds", "ids", "uri"}
Exchangeds == {"nil", "plain", "oauth2", "uri", "token"}

Configs ==
  {f \in [scheme : Schemes, flow : Flows, raw : Raws, exchanged : Exchangeds] :
     f.flow # "nil" => f.scheme = "oauth2"}

(* The user's last event: there may be none, or one without responses,     *)
(* with responses to other calls, or with an answer that names its scheme  *)
(* or does not.                                                            *)
Answers == {"noEvents", "text", "otherResponse", "answer", "answerWithoutScheme"}

Init ==
  /\ config \in Configs
  /\ requested = "none"
  /\ stored = "none"
  /\ answer \in Answers
  /\ outcome = "none"

IsOAuth == config.scheme \in {"oauth2", "openId", "openIdWithConfig"}
HasOAuth2(credential) == credential \notin {"nil", "plain"}
-----------------------------------------------------------------------------
(* The URI a user signs in with is built for schemes with an endpoint for  *)
(* authorization; it goes into a copy of the exchanged credential, which   *)
(* has to be there.                                                        *)
AuthorizationURL(flow) == flow \in {"implicit", "code", "client", "password"}

GenerateAuthURI ==
  CASE config.scheme = "openIdWithConfig" ->
         IF HasOAuth2(config.raw) /\ HasOAuth2(config.exchanged) THEN "newURI" ELSE "panic"
    [] config.scheme = "oauth2" /\ ~AuthorizationURL(config.flow) -> "error"
    [] config.scheme = "oauth2" /\ AuthorizationURL(config.flow) ->
         IF HasOAuth2(config.raw) /\ HasOAuth2(config.exchanged) THEN "newURI" ELSE "panic"
    [] OTHER -> "error"

(* Mutation: only what has a URI already is copied.                        *)
IsCopiedWithURI == config.exchanged = "uri"
IsCopied == IsOAuth \/ config.exchanged = "uri"

(* The schemes that would need a URI are copied as they are.               *)
GenerateAuthRequest ==
  /\ requested = "none"
  /\ requested' =
       CASE IsCopied -> "copy"
         [] ~IsCopied /\ ~HasOAuth2(config.raw) -> "error"
         [] ~IsCopied /\ config.raw = "uri" -> "copyOfExchanged"
         [] ~IsCopied /\ config.raw = "noIds" -> "error"
         [] ~IsCopied /\ config.raw = "ids" -> GenerateAuthURI
  /\ outcome' = requested'
  /\ UNCHANGED <<config, stored, answer>>

(* A token is asked of the server with the access token, which is empty,   *)
(* where the code of the response would be; the server refuses.            *)
ExchangeAuthToken ==
  CASE config.scheme = "oauth2" /\ config.flow = "nil" -> "panic"
    [] config.scheme = "oauth2" /\ config.flow # "nil" ->
         IF config.flow = "code" /\ config.exchanged \in {"oauth2", "uri"} THEN "refused" ELSE config.exchanged
    [] config.scheme = "openIdWithConfig" ->
         IF config.exchanged \in {"oauth2", "uri"} THEN "refused" ELSE config.exchanged
    [] OTHER -> config.exchanged

(* The response is stored; for the schemes that have no tokens it is then  *)
(* "exchanged" and stored again.                                           *)
ParseAndStoreAuthSesponse ==
  /\ stored' = IF config.scheme \in {"apiKey", "http"} THEN ExchangeAuthToken ELSE config.exchanged
  /\ outcome' = "stored"
  /\ UNCHANGED <<config, requested, answer>>

GetAuthResponse ==
  /\ outcome' = stored
  /\ UNCHANGED <<config, requested, stored, answer>>

(* An answer becomes a configuration, which is written through a pointer   *)
(* that its only caller leaves nil.                                        *)
ConvertToAuthConfig == IF answer = "answerWithoutScheme" THEN "error" ELSE "panic"

(* The request processor of the flow goes through the events from the      *)
(* last: the last one of the user decides.  An answer without a scheme     *)
(* ends it with an error that is dropped; with one it panics, so the rest, *)
(* that would resume the tools, is not reached.                            *)
RunProcessor ==
  /\ outcome' = CASE answer \in {"noEvents", "text", "otherResponse"} -> "nothing"
                  [] OTHER -> ConvertToAuthConfig
  /\ UNCHANGED <<config, requested, stored, answer>>

(* The client answers, or the user goes on talking.                        *)
UserEvent ==
  /\ \E kind \in Answers \ {"noEvents"} : answer' = kind
  /\ outcome' = "none"
  /\ UNCHANGED <<config, requested, stored>>

Next ==
  \/ GenerateAuthRequest
  \/ ParseAndStoreAuthSesponse
  \/ GetAuthResponse
  \/ RunProcessor
  \/ UserEvent

Spec == Init /\ [][Next]_vars
-----------------------------------------------------------------------------
TypeOK ==
  /\ config \in Configs
  /\ requested \in {"none", "copy", "copyOfExchanged", "newURI", "error", "panic"}
  /\ stored \in Exchangeds \cup {"none", "refused", "panic"}
  /\ answer \in Answers

(* auth_handler.go:122: a request never carries a URI to sign in with that *)
(* its configuration did not bring: schemes that could have one are copied *)
(* before, and the others have no endpoint.                                *)
RequestsHaveNoNewURI == requested \notin {"newURI", "panic"}

(* auth_handler.go:84: what is stored is the credential of the answer and  *)
(* never a token exchanged for it, and nothing else is found again.        *)
StoredAsAnswered == stored \in {"none", config.exchanged}
=============================================================================
