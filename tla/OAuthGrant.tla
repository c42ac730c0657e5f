----------------------------- MODULE OAuthGrant -----------------------------
(***************************************************************************)
(* The OAuth 2.1 authorization server of app/routers/oauth.py on the       *)
(* tables of app/services/oauth.py, and the bearer check of                *)
(* app/mcp_http.py.  One browser with several tabs and a login that may    *)
(* change; apps that call the token endpoint in parallel, repeat calls and *)
(* mix up the parameters of their flows; a process that restarts between   *)
(* the two transactions of a token request; time that passes.              *)
(***************************************************************************)
EXTENDS Integers, FiniteSets

CONSTANTS
    Apps,          \* client_ids dynamic registration may hand out
    Users,
    Uris,          \* redirect URIs
    Registered,    \* redirect_uris each app registers with
    Verifiers,     \* PKCE code verifiers; a challenge is the hash of one
    States,        \* the state parameter of a flow
    Codes, Tokens, \* what secrets.token_urlsafe may return
    Calls,         \* requests to /oauth/token or /mcp that may be in flight
    Flows,         \* bound: the authorize requests the apps start
    CodeTTL, ConsentTTL, TokenTTL,
    MaxTime,       \* bound: the last instant
    None

\* The SHA-256 of a verifier: what matters is that it tells verifiers apart.
S256(v) == [sha256 |-> v]
Challenges == {S256(v) : v \in Verifiers}
Methods == {"S256", "plain"}

Form == [app: Apps, uri: Uris, challenge: Challenges, state: States]
Cookie == [app: Apps, challenge: Challenges, state: States, signed: Nat]
CodeRow == [user: Users, app: Apps, uri: Uris, challenge: Challenges,
            method: Methods, expires: Nat]
TokenRow == [user: Users, app: Apps, expires: Nat, revoked: BOOLEAN]

ASSUME OAuthAssumption ==
    /\ Registered \in [Apps -> SUBSET Uris]
    /\ CodeTTL \in Nat /\ ConsentTTL \in Nat /\ MaxTime \in Nat
    /\ TokenTTL \in Nat \ {0}
    /\ None \notin Users \union Codes \union CodeRow \union TokenRow
    /\ Flows \subseteq Form

VARIABLES
    now,
    apps,     \* oauth_clients
    session,  \* the user logged in in the browser, or None
    tabs,     \* consent forms open in the browser
    consent,  \* the browser's one oauth_consent_state cookie, or None
    codes,    \* oauth_auth_codes: a row per code, or None
    tokens,   \* oauth_tokens: a row per token, or None
    call,     \* the requests in flight
    \* History, read by properties only.
    approved, \* the row each code was created with
    origin    \* the code each token was created for

vars == <<now, apps, session, tabs, consent, codes, tokens, call, approved, origin>>

Idle == [pc |-> "idle"]
Call == {Idle}
          \union [pc: {"consumed"}, code: Codes, user: Users, app: Apps]
          \union [pc: {"mcp"}, token: Tokens, user: Users]

Init ==
    /\ now = 0
    /\ apps = {} /\ session = None /\ tabs = {} /\ consent = None
    /\ codes = [k \in Codes |-> None]
    /\ tokens = [t \in Tokens |-> None]
    /\ call = [c \in Calls |-> Idle]
    /\ approved = [k \in Codes |-> None]
    /\ origin = [t \in Tokens |-> None]

\* Dynamic client registration.
RegisterClient(a) ==
    /\ a \notin apps
    /\ apps' = apps \union {a}
    /\ UNCHANGED <<now, session, tabs, consent, codes, tokens, call, approved, origin>>

\* Login and logout in another tab.
ChangeSession(u) ==
    /\ session' = u
    /\ UNCHANGED <<now, apps, tabs, consent, codes, tokens, call, approved, origin>>

\* The consent page, for whoever is logged in.  Its signed cookie replaces
\* that of a page opened before.
Authorize(f) ==
    /\ f.app \in apps /\ f.uri \in Registered[f.app]
    /\ session # None
    /\ tabs' = tabs \union {f}
    /\ consent' = [app |-> f.app, challenge |-> f.challenge, state |-> f.state, signed |-> now]
    /\ UNCHANGED <<now, apps, session, codes, tokens, call, approved, origin>>

\* The signed cookie is that of this form, and fresh.
ConsentBound(f) ==
    /\ consent # None
    /\ now - consent.signed <= ConsentTTL
    /\ consent.app = f.app /\ consent.challenge = f.challenge /\ consent.state = f.state

\* Approve is clicked in a tab.  The response deletes the cookie, but a second
\* click may be on its way with it (again).  The method is whatever is posted.
Consent(f, method, again) ==
    /\ f \in tabs /\ session # None
    /\ ConsentBound(f)
    /\ f.app \in apps /\ f.uri \in Registered[f.app]
    /\ \E k \in Codes :
         /\ approved[k] = None
         /\ LET row == [user |-> session, app |-> f.app, uri |-> f.uri,
                        challenge |-> f.challenge, method |-> method,
                        expires |-> now + CodeTTL]
            IN /\ codes' = [codes EXCEPT ![k] = row]
               /\ approved' = [approved EXCEPT ![k] = row]
    /\ consent' = IF again THEN consent ELSE None
    /\ UNCHANGED <<now, apps, session, tabs, tokens, call, origin>>

\* Faulty: the client that asks is not compared with the client that was told.
RedeemableByAnyApp(row, app, uri, verifier) ==
    /\ row.uri = uri /\ row.method = "S256" /\ row.challenge = S256(verifier)

\* Client, redirect URI, method and PKCE are checked on the deleted row.
Redeemable(row, app, uri, verifier) ==
    /\ row.app = app /\ row.uri = uri
    /\ row.method = "S256"
    /\ row.challenge = S256(verifier)

\* Faulty: SELECT, and the row is left for a later statement to mark as used.
SelectAuthCode(c, k, app, uri, verifier) ==
    /\ call[c].pc = "idle"
    /\ codes[k] # None /\ codes[k].expires > now
    /\ Redeemable(codes[k], app, uri, verifier)
    /\ call' = [call EXCEPT ![c] =
                  [pc |-> "consumed", code |-> k, user |-> codes[k].user, app |-> app]]
    /\ UNCHANGED <<now, apps, session, tabs, consent, codes, tokens, approved, origin>>

\* consume_auth_code: DELETE ... WHERE expires_at > now() RETURNING, one
\* statement.  The code is burnt whatever the checks that follow say.
ConsumeAuthCode(c, k, app, uri, verifier) ==
    LET row == codes[k]
    IN /\ call[c].pc = "idle"
       /\ row # None /\ row.expires > now
       /\ codes' = [codes EXCEPT ![k] = None]
       /\ call' = IF Redeemable(row, app, uri, verifier)
                  THEN [call EXCEPT ![c] =
                          [pc |-> "consumed", code |-> k, user |-> row.user, app |-> app]]
                  ELSE call
       /\ UNCHANGED <<now, apps, session, tabs, consent, tokens, approved, origin>>

\* Faulty: the token is for whoever is logged in by then.
CreateTokenForSession(c) ==
    /\ call[c].pc = "consumed"
    /\ \E t \in Tokens :
         /\ tokens[t] = None
         /\ tokens' = [tokens EXCEPT ![t] =
                         [user |-> session, app |-> call[c].app,
                          expires |-> now + TokenTTL, revoked |-> FALSE]]
         /\ origin' = [origin EXCEPT ![t] = call[c].code]
    /\ call' = [call EXCEPT ![c] = Idle]
    /\ UNCHANGED <<now, apps, session, tabs, consent, codes, approved>>

\* Faulty: a token without an end.
CreateEndlessToken(c) ==
    /\ call[c].pc = "consumed"
    /\ \E t \in Tokens :
         /\ tokens[t] = None
         /\ tokens' = [tokens EXCEPT ![t] =
                         [user |-> call[c].user, app |-> call[c].app,
                          expires |-> None, revoked |-> FALSE]]
         /\ origin' = [origin EXCEPT ![t] = call[c].code]
    /\ call' = [call EXCEPT ![c] = Idle]
    /\ UNCHANGED <<now, apps, session, tabs, consent, codes, approved>>

\* create_access_token, in a transaction of its own.
CreateAccessToken(c) ==
    /\ call[c].pc = "consumed"
    /\ \E t \in Tokens :
         /\ tokens[t] = None
         /\ tokens' = [tokens EXCEPT ![t] =
                         [user |-> call[c].user, app |-> call[c].app,
                          expires |-> now + TokenTTL, revoked |-> FALSE]]
         /\ origin' = [origin EXCEPT ![t] = call[c].code]
    /\ call' = [call EXCEPT ![c] = Idle]
    /\ UNCHANGED <<now, apps, session, tabs, consent, codes, approved>>

\* verify_access_token
Works(t) == tokens[t] # None /\ ~tokens[t].revoked /\ tokens[t].expires > now

\* Faulty: the dashboard's user is bound.
BeginMcpAsSession(c, t) ==
    /\ call[c].pc = "idle" /\ Works(t)
    /\ call' = [call EXCEPT ![c] = [pc |-> "mcp", token |-> t, user |-> session]]
    /\ UNCHANGED <<now, apps, session, tabs, consent, codes, tokens, approved, origin>>

\* A request to /mcp: the token's user is bound to it, and its tools read it.
BeginMcp(c, t) ==
    /\ call[c].pc = "idle" /\ Works(t)
    /\ call' = [call EXCEPT ![c] = [pc |-> "mcp", token |-> t, user |-> tokens[t].user]]
    /\ UNCHANGED <<now, apps, session, tabs, consent, codes, tokens, approved, origin>>

EndMcp(c) ==
    /\ call[c].pc = "mcp"
    /\ call' = [call EXCEPT ![c] = Idle]
    /\ UNCHANGED <<now, apps, session, tabs, consent, codes, tokens, approved, origin>>

RevokeToken(t) ==
    /\ tokens[t] # None
    /\ tokens' = [tokens EXCEPT ![t].revoked = TRUE]
    /\ UNCHANGED <<now, apps, session, tabs, consent, codes, call, approved, origin>>

\* The process restarts: what is in flight is gone, what is signed is not.
Restart ==
    /\ call' = [c \in Calls |-> Idle]
    /\ UNCHANGED <<now, apps, session, tabs, consent, codes, tokens, approved, origin>>

Tick ==
    /\ now < MaxTime
    /\ now' = now + 1
    /\ UNCHANGED <<apps, session, tabs, consent, codes, tokens, call, approved, origin>>

Next ==
    \/ \E a \in Apps : RegisterClient(a)
    \/ \E u \in Users \union {None} : ChangeSession(u)
    \/ \E f \in Flows : Authorize(f)
    \/ \E f \in tabs, m \in Methods, again \in BOOLEAN : Consent(f, m, again)
    \/ \E c \in Calls :
         \/ \E k \in Codes, a \in Apps, u \in Uris, v \in Verifiers :
              ConsumeAuthCode(c, k, a, u, v)
         \/ CreateAccessToken(c)
         \/ \E t \in Tokens : BeginMcp(c, t)
         \/ EndMcp(c)
    \/ \E t \in Tokens : RevokeToken(t)
    \/ Restart
    \/ Tick

Spec == Init /\ [][Next]_vars

(***************************************************************************)
(* Properties.                                                             *)
(***************************************************************************)

\* Rows, cookies and calls hold what the tables and handlers say they hold.
TypeOK ==
    /\ now \in Nat
    /\ apps \subseteq Apps
    /\ session \in Users \union {None}
    /\ tabs \subseteq Form
    /\ consent \in Cookie \union {None}
    /\ codes \in [Codes -> CodeRow \union {None}]
    /\ tokens \in [Tokens -> TokenRow \union {None}]
    /\ call \in [Calls -> Call]
    /\ approved \in [Codes -> CodeRow \union {None}]
    /\ origin \in [Tokens -> Codes \union {None}]

\* "Two parallel callers can never both succeed with the same code"
\* (services/oauth.py:95): whatever is repeated or restarted, no code is
\* behind two tokens, or behind a token and a call about to create one.
OneTokenPerCode ==
    /\ \A t, u \in Tokens : origin[t] # None /\ origin[t] = origin[u] => t = u
    /\ \A c, d \in Calls :
         call[c].pc = "consumed" /\ call[d].pc = "consumed" /\ call[c].code = call[d].code
            => c = d
    /\ \A c \in Calls, t \in Tokens : call[c].pc = "consumed" => origin[t] # call[c].code

\* A token is the work of one consent: the user who clicked (and not the one
\* who opened the page), the app it was asked for, and an S256 challenge.
TokenAsApproved ==
    \A t \in Tokens : tokens[t] # None =>
        /\ origin[t] # None /\ approved[origin[t]] # None
        /\ tokens[t].user = approved[origin[t]].user
        /\ tokens[t].app = approved[origin[t]].app
        /\ approved[origin[t]].method = "S256"

\* The tools of an /mcp request act for the user who approved its token, to
\* the end of the request, although sessions change and the token may be gone.
McpActsForApprover ==
    \A c \in Calls : call[c].pc = "mcp" =>
        /\ tokens[call[c].token] # None
        /\ call[c].user = approved[origin[call[c].token]].user

\* Why they hold, as an inductive invariant.  A code's row is the approval it
\* was created with, and while it is there nothing has been made of the code;
\* a call that took a row carries what was approved; tokens and their origins
\* come and stay together.
RowsAsApproved == \A k \in Codes : codes[k] # None => codes[k] = approved[k]

RowsUnspent ==
    \A k \in Codes : codes[k] # None =>
        /\ \A t \in Tokens : origin[t] # k
        /\ \A c \in Calls : call[c].pc = "consumed" => call[c].code # k

CallsAsApproved ==
    \A c \in Calls : call[c].pc = "consumed" =>
        /\ approved[call[c].code] # None
        /\ call[c].user = approved[call[c].code].user
        /\ call[c].app = approved[call[c].code].app
        /\ approved[call[c].code].method = "S256"

TokensHaveOrigin == \A t \in Tokens : tokens[t] = None <=> origin[t] = None

GrantInv ==
    /\ TypeOK /\ RowsAsApproved /\ RowsUnspent /\ CallsAsApproved /\ TokensHaveOrigin
    /\ OneTokenPerCode /\ TokenAsApproved /\ McpActsForApprover

\* The server implements the one-shot grant: a grant is a code; it is open
\* while its row or the call that took it can still become a token, live while
\* its token works, and over after that.
Pending(k) ==
    \/ codes[k] # None
    \/ \E c \in Calls : call[c].pc = "consumed" /\ call[c].code = k

Live(k) == \E t \in Tokens : origin[t] = k /\ Works(t)

StageOf(k) ==
    IF approved[k] = None THEN "none"
    ELSE IF Pending(k) THEN "open"
    ELSE IF Live(k) THEN "live"
    ELSE "over"

\* The user of its token, once it has one.
ActsFor(k) ==
    IF approved[k] = None THEN None
    ELSE IF \E t \in Tokens : origin[t] = k
    THEN tokens[CHOOSE t \in Tokens : origin[t] = k].user
    ELSE approved[k].user

Grant == INSTANCE OneShotGrant WITH
    Grants <- Codes,
    stage <- [k \in Codes |-> StageOf(k)],
    actsFor <- [k \in Codes |-> ActsFor(k)]

ImplementsGrant == Grant!Spec
=============================================================================
