---------------------------- MODULE Credentials ----------------------------
(***************************************************************************)
(* An authenticated tool asks its CredentialManager for the credential of  *)
(* the call: types/auth_credential_manager.go with the OAuth2 exchanger    *)
(* and refresher and the credential services.                              *)
(*                                                                         *)
(* The manager and its AuthConfig belong to the tool, hence to the calls   *)
(* of all users.  The exchanger and the refresher write their tokens into  *)
(* the OAuth2 object of the credential they were given and return a        *)
(* shallow copy, so that every credential made from the one the config     *)
(* holds shares its OAuth2 object: there is one, oauth, and a credential   *)
(* is found or is not.  A tool context has no State of its own: whatever   *)
(* reads it panics.  The fields of the object, and the maps of the         *)
(* in-memory service, are written without a lock; the outcome of           *)
(* such a race is not modelled.                                            *)
(***************************************************************************)
EXTENDS FiniteSets

CONSTANTS Calls, Users, UserOf

VARIABLES
    setup,      \* what the application configured
    exchanged,  \* whether the config holds an exchanged credential
    saved,      \* the users whose bucket of the in-memory service holds it
    oauth,      \* its access token, refresh token and authorization code
    codeUsed,   \* the authorization server accepted the code
    step,       \* where each call is
    token,      \* the access token of the credential when a call settled on it
    refused,    \* history: calls whose refresh the server refused
    early       \* history: calls that had sent the code when it was accepted

credentialVars == <<setup, exchanged, saved, oauth, codeUsed, step, token, refused, early>>

\* The kind of the raw credential, the credential service, whether an exchanger
\* is registered for OAuth2 and whether scheme and client make up a session.
Setups == [raw : {"simple", "oauth"}, service : {"none", "memory", "session"},
           exchanger : BOOLEAN, session : BOOLEAN]
OAuth2s == [access : {"none", "live", "expired"}, refresh : BOOLEAN, code : BOOLEAN]

Init == /\ setup \in Setups /\ exchanged \in BOOLEAN /\ saved = {}
        /\ oauth \in {o \in OAuth2s : o.access # "expired"} /\ codeUsed = FALSE
        /\ step = [c \in Calls |-> "idle"] /\ token = [c \in Calls |-> "unsettled"]
        /\ refused = {} /\ early = {}

Goto(c, there) == step' = [step EXCEPT ![c] = there]
Settle(c, there, t) == Goto(c, there) /\ token' = [token EXCEPT ![c] = t]

-----------------------------------------------------------------------------
(* Run: GetAuthCredential, then the tool itself.                           *)

LoadCredential(c) ==
    /\ step[c] = "idle"
    /\ LET found == exchanged \/ (setup.service = "memory" /\ UserOf[c] \in saved)
       IN  Goto(c, CASE setup.raw = "simple" -> "ready"
                     [] setup.raw # "simple" /\ setup.service = "session" -> "panicked"
                     [] setup.raw # "simple" /\ setup.service # "session" /\ found -> "loaded"
                     [] OTHER -> "panicked")   \* GetAuthResponse reads the State
    /\ UNCHANGED <<setup, exchanged, saved, oauth, codeUsed, token, refused, early>>

\* A variation: the token the credential may already have is not looked at.
ExchangeAlways(c) ==
    /\ step[c] = "loaded"
    /\ CASE ~setup.exchanger -> Goto(c, "unexchanged") /\ UNCHANGED token
         [] setup.exchanger /\ setup.session /\ oauth.code -> Goto(c, "exchanging") /\ UNCHANGED token
         [] OTHER -> Goto(c, "unexchanged") /\ UNCHANGED token
    /\ UNCHANGED <<setup, exchanged, saved, oauth, codeUsed, refused, early>>

\* The exchanger returns a credential it has nothing to do for without an error:
\* it counts as exchanged, and is not refreshed.
Exchange(c) ==
    /\ step[c] = "loaded"
    /\ \/ ~setup.exchanger /\ Goto(c, "unexchanged") /\ UNCHANGED token
       \/ /\ setup.exchanger /\ (oauth.access # "none" \/ ~setup.session)
          /\ Settle(c, "changed", oauth.access)
       \/ /\ setup.exchanger /\ oauth.access = "none" /\ setup.session
          /\ Goto(c, IF oauth.code THEN "exchanging" ELSE "unexchanged")
          /\ UNCHANGED token
    /\ UNCHANGED <<setup, exchanged, saved, oauth, codeUsed, refused, early>>

\* A code is good once; the server issues a refresh token with it or does not.
ExchangeCode(c) ==
    /\ step[c] = "exchanging"
    /\ \/ /\ ~codeUsed /\ codeUsed' = TRUE
          /\ \E r \in BOOLEAN : oauth' = [oauth EXCEPT !.access = "live", !.refresh = r]
          /\ early' = {d \in Calls : step[d] = "exchanging"}
          /\ Settle(c, "changed", "live")
       \/ /\ Goto(c, "unexchanged")
          /\ UNCHANGED <<oauth, codeUsed, token, early>>
    /\ UNCHANGED <<setup, exchanged, saved, refused>>

Valid(o) == o.access = "live"

IsRefreshNeeded(c) ==
    /\ step[c] = "unexchanged"
    /\ \/ Valid(oauth) /\ Settle(c, "done", oauth.access)
       \/ ~Valid(oauth) /\ ~setup.session /\ Settle(c, "changed", oauth.access)
       \/ ~Valid(oauth) /\ setup.session /\ Goto(c, "refreshing") /\ UNCHANGED token
    /\ UNCHANGED <<setup, exchanged, saved, oauth, codeUsed, refused, early>>

Refresh(c) ==
    /\ step[c] = "refreshing"
    /\ \/ /\ oauth.refresh
          /\ oauth' = [oauth EXCEPT !.access = "live"]
          /\ Settle(c, "changed", "live") /\ UNCHANGED refused
       \/ /\ Settle(c, "done", oauth.access)
          /\ refused' = refused \cup {c} /\ UNCHANGED oauth
    /\ UNCHANGED <<setup, exchanged, saved, codeUsed, early>>

SaveCredential(c) ==
    /\ step[c] = "changed" /\ Goto(c, "done")
    /\ IF setup.service = "memory"
       THEN exchanged' = TRUE /\ saved' = saved \cup {UserOf[c]}
       ELSE UNCHANGED <<exchanged, saved>>
    /\ UNCHANGED <<setup, oauth, codeUsed, token, refused, early>>

Expire ==
    /\ oauth.access = "live" /\ oauth' = [oauth EXCEPT !.access = "expired"]
    /\ UNCHANGED <<setup, exchanged, saved, codeUsed, step, token, refused, early>>

Next == \/ \E c \in Calls : \/ LoadCredential(c) \/ Exchange(c) \/ ExchangeCode(c)
                            \/ IsRefreshNeeded(c) \/ Refresh(c) \/ SaveCredential(c)
        \/ Expire

Spec == Init /\ [][Next]_credentialVars

-----------------------------------------------------------------------------
TypeOK ==
    /\ setup \in Setups /\ exchanged \in BOOLEAN /\ saved \subseteq Users
    /\ oauth \in OAuth2s /\ codeUsed \in BOOLEAN
    /\ step \in [Calls -> {"idle", "ready", "loaded", "exchanging", "unexchanged", "refreshing",
                           "changed", "done", "panicked"}]
    /\ token \in [Calls -> {"unsettled", "none", "live", "expired"}]
    /\ refused \subseteq Calls /\ early \subseteq Calls

\* oauth2_credential_exchanger.go:30: once the server accepted the code, only
\* calls that had sent it by then still wait for an answer to it.
CodeSentOnce == codeUsed => \A c \in Calls : step[c] = "exchanging" => c \in early

\* auth_credential_manager.go:100: a call hands an expired token to the tool only
\* when the server refused to refresh it, no session could be made for the
\* scheme, or an exchanger is registered, which stands in for the refresh.
ExpiredOnlyUnrefreshed ==
    \A c \in Calls : token[c] = "expired" =>
        c \in refused \/ ~setup.session \/ setup.exchanger

\* Why the code is sent once: with the answer there is a token, and stays.
AnsweredWithToken == codeUsed => oauth.access # "none"
=============================================================================
