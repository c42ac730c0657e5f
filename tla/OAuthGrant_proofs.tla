------------------------- MODULE OAuthGrant_proofs -------------------------
(***************************************************************************)
(* The safety properties of OAuthGrant for any number of apps, users,      *)
(* codes, tokens and calls: GrantInv is inductive, and implies them.       *)
(***************************************************************************)
EXTENDS OAuthGrant, TLAPS

\* Every action keeps the types.
LEMMA TypeStep == ASSUME TypeOK, [Next]_vars PROVE TypeOK'
<1> USE OAuthAssumption DEF TypeOK, Form, Cookie, CodeRow, TokenRow, Call, Idle, Methods
<1>1. CASE UNCHANGED vars
  BY <1>1 DEF vars
<1>2. ASSUME NEW a \in Apps, RegisterClient(a) PROVE TypeOK'
  BY <1>2 DEF RegisterClient
<1>3. ASSUME NEW u \in Users \union {None}, ChangeSession(u) PROVE TypeOK'
  BY <1>3 DEF ChangeSession
<1>4. ASSUME NEW f \in Flows, Authorize(f) PROVE TypeOK'
  BY <1>4 DEF Authorize
<1>5. ASSUME NEW f \in tabs, NEW m \in Methods, NEW again \in BOOLEAN, Consent(f, m, again)
      PROVE TypeOK'
  BY <1>5 DEF Consent
<1>6. ASSUME NEW c \in Calls, NEW k \in Codes, NEW a \in Apps, NEW u \in Uris,
             NEW v \in Verifiers, ConsumeAuthCode(c, k, a, u, v)
      PROVE TypeOK'
  BY <1>6 DEF ConsumeAuthCode
<1>7. ASSUME NEW c \in Calls, CreateAccessToken(c) PROVE TypeOK'
  BY <1>7 DEF CreateAccessToken
<1>8. ASSUME NEW c \in Calls, NEW t \in Tokens, BeginMcp(c, t) PROVE TypeOK'
  BY <1>8 DEF BeginMcp, Works
<1>9. ASSUME NEW c \in Calls, EndMcp(c) PROVE TypeOK'
  BY <1>9 DEF EndMcp
<1>10. ASSUME NEW t \in Tokens, RevokeToken(t) PROVE TypeOK'
  BY <1>10 DEF RevokeToken
<1>11. CASE Restart
  BY <1>11 DEF Restart
<1>12. CASE Tick
  BY <1>12 DEF Tick
<1> QED
  BY <1>1, <1>2, <1>3, <1>4, <1>5, <1>6, <1>7, <1>8, <1>9, <1>10, <1>11, <1>12 DEF Next

----------------------------------------------------------------------------

\* The invariant, action by action.  Three of them touch what it relates; the
\* others leave codes, tokens, their history and the calls' codes as they are.
USE DEF GrantInv

\* A consent takes a code nobody has seen: its row is its approval.
LEMMA ConsentStep ==
    ASSUME GrantInv, TypeOK',
           NEW f \in tabs, NEW m \in Methods, NEW again \in BOOLEAN, Consent(f, m, again)
    PROVE  GrantInv'
<1>1. PICK k \in Codes :
        /\ approved[k] = None
        /\ LET row == [user |-> session, app |-> f.app, uri |-> f.uri,
                       challenge |-> f.challenge, method |-> m, expires |-> now + CodeTTL]
           IN /\ codes' = [codes EXCEPT ![k] = row]
              /\ approved' = [approved EXCEPT ![k] = row]
  BY DEF Consent
<1>2. UNCHANGED <<tokens, call, origin>>
  BY DEF Consent
<1>3. /\ \A j \in Codes : codes'[j] = IF j = k THEN codes'[k] ELSE codes[j]
      /\ \A j \in Codes : approved'[j] = IF j = k THEN codes'[k] ELSE approved[j]
  BY <1>1 DEF TypeOK
<1>4. /\ \A t \in Tokens : origin[t] # k
      /\ \A c \in Calls : call[c].pc = "consumed" => call[c].code # k
  BY <1>1, OAuthAssumption DEF TypeOK, CallsAsApproved, TokensHaveOrigin, TokenAsApproved
<1>5. RowsAsApproved'
  BY <1>3 DEF RowsAsApproved
<1>6. RowsUnspent'
  BY <1>2, <1>3, <1>4 DEF RowsUnspent
<1>7. CallsAsApproved'
  BY <1>2, <1>3, <1>4, <1>1 DEF CallsAsApproved, TypeOK, Call, Idle
<1>8. TokensHaveOrigin' /\ OneTokenPerCode'
  BY <1>2 DEF TokensHaveOrigin, OneTokenPerCode
<1>9. TokenAsApproved'
  BY <1>2, <1>3, <1>4, OAuthAssumption DEF TokenAsApproved, TypeOK
<1>10. McpActsForApprover'
  <2> SUFFICES ASSUME NEW c \in Calls, call[c].pc = "mcp"
               PROVE  /\ tokens[call[c].token] # None
                      /\ call[c].user = approved'[origin[call[c].token]].user
    BY <1>2 DEF McpActsForApprover
  <2>1. call[c].token \in Tokens
    BY DEF TypeOK, Call, Idle
  <2>2. tokens[call[c].token] # None /\ call[c].user = approved[origin[call[c].token]].user
    BY DEF McpActsForApprover
  <2>3. origin[call[c].token] \in Codes /\ origin[call[c].token] # k
    BY <2>1, <2>2, <1>4 DEF TokensHaveOrigin, TypeOK
  <2> QED
    BY <2>2, <2>3, <1>3
<1> QED
  BY <1>5, <1>6, <1>7, <1>8, <1>9, <1>10

\* Taking a row burns the code, and the call carries what the row said.
LEMMA ConsumeStep ==
    ASSUME GrantInv, TypeOK', NEW c \in Calls, NEW k \in Codes, NEW a \in Apps,
           NEW u \in Uris, NEW v \in Verifiers, ConsumeAuthCode(c, k, a, u, v)
    PROVE  GrantInv'
<1>1. /\ codes[k] # None /\ codes[k] = approved[k] /\ call[c].pc = "idle"
      /\ UNCHANGED <<tokens, approved, origin>>
  BY DEF ConsumeAuthCode, RowsAsApproved
<1>2. \A j \in Codes : codes'[j] = IF j = k THEN None ELSE codes[j]
  BY DEF ConsumeAuthCode, TypeOK
<1>3. \A d \in Calls \ {c} : call'[d] = call[d]
  BY DEF ConsumeAuthCode, TypeOK
<1>4. \/ call'[c] = call[c]
      \/ /\ call'[c] = [pc |-> "consumed", code |-> k, user |-> codes[k].user, app |-> a]
         /\ codes[k].app = a /\ codes[k].method = "S256"
  BY DEF ConsumeAuthCode, TypeOK, Redeemable
<1>5. /\ \A t \in Tokens : origin[t] # k
      /\ \A d \in Calls : call[d].pc = "consumed" => call[d].code # k
  BY <1>1 DEF RowsUnspent
<1>6. RowsAsApproved' /\ TokensHaveOrigin' /\ TokenAsApproved'
  BY <1>1, <1>2 DEF RowsAsApproved, TokensHaveOrigin, TokenAsApproved
<1>7. RowsUnspent'
  BY <1>1, <1>2, <1>3, <1>4, <1>5 DEF RowsUnspent
<1>8. CallsAsApproved'
  BY <1>1, <1>3, <1>4 DEF CallsAsApproved
<1>9. OneTokenPerCode'
  <2>1. \A d, e \in Calls :
          call'[d].pc = "consumed" /\ call'[e].pc = "consumed" /\ call'[d].code = call'[e].code
             => d = e
    BY <1>1, <1>3, <1>4, <1>5 DEF OneTokenPerCode
  <2>2. \A d \in Calls, t \in Tokens : call'[d].pc = "consumed" => origin[t] # call'[d].code
    BY <1>1, <1>3, <1>4, <1>5 DEF OneTokenPerCode
  <2> QED
    BY <1>1, <2>1, <2>2 DEF OneTokenPerCode
<1>10. McpActsForApprover'
  BY <1>1, <1>3, <1>4 DEF McpActsForApprover
<1> QED
  BY <1>6, <1>7, <1>8, <1>9, <1>10

\* The call that took the code is the only one to make a token of it.
LEMMA CreateStep ==
    ASSUME GrantInv, TypeOK', NEW c \in Calls, CreateAccessToken(c)
    PROVE  GrantInv'
<1>1. PICK t \in Tokens :
        /\ tokens[t] = None
        /\ tokens' = [tokens EXCEPT ![t] =
                        [user |-> call[c].user, app |-> call[c].app,
                         expires |-> now + TokenTTL, revoked |-> FALSE]]
        /\ origin' = [origin EXCEPT ![t] = call[c].code]
  BY DEF CreateAccessToken
<1> DEFINE k == call[c].code
<1>2. /\ call[c].pc = "consumed" /\ UNCHANGED <<codes, approved>>
      /\ call'[c].pc = "idle" /\ \A d \in Calls \ {c} : call'[d] = call[d]
  BY DEF CreateAccessToken, TypeOK, Idle
<1>3. /\ k \in Codes /\ k # None
      /\ codes[k] = None /\ approved[k] # None
  <2>1. k \in Codes
    BY <1>2 DEF TypeOK, Call, Idle
  <2>2. k # None
    BY <2>1, OAuthAssumption
  <2> QED
    BY <1>2, <2>1, <2>2 DEF RowsUnspent, CallsAsApproved
<1>4. /\ tokens'[t] = [user |-> call[c].user, app |-> call[c].app,
                       expires |-> now + TokenTTL, revoked |-> FALSE]
      /\ origin'[t] = k
      /\ \A r \in Tokens \ {t} : tokens'[r] = tokens[r] /\ origin'[r] = origin[r]
  BY <1>1 DEF TypeOK
<1>5. tokens'[t] # None
  <2>1. call[c].user \in Users /\ call[c].app \in Apps
    BY <1>2 DEF TypeOK, Call, Idle
  <2>2. now + TokenTTL \in Nat
    BY OAuthAssumption DEF TypeOK
  <2>3. tokens'[t] \in TokenRow
    BY <1>4, <2>1, <2>2 DEF TokenRow
  <2> QED
    BY <2>3, OAuthAssumption
<1>6. /\ \A r \in Tokens : origin[r] # k
      /\ \A d \in Calls \ {c} : call[d].pc = "consumed" => call[d].code # k
  BY <1>2 DEF OneTokenPerCode
<1>7. RowsAsApproved' /\ RowsUnspent'
  BY <1>2, <1>3, <1>4 DEF RowsAsApproved, RowsUnspent
<1>8. CallsAsApproved'
  BY <1>2 DEF CallsAsApproved
<1>9. TokensHaveOrigin'
  BY <1>3, <1>4, <1>5 DEF TokensHaveOrigin
<1>10. OneTokenPerCode'
  BY <1>2, <1>4, <1>6 DEF OneTokenPerCode
<1>11. TokenAsApproved'
  BY <1>2, <1>3, <1>4 DEF TokenAsApproved, CallsAsApproved
<1>12. McpActsForApprover'
  <2> SUFFICES ASSUME NEW d \in Calls, call'[d].pc = "mcp"
               PROVE  /\ tokens'[call'[d].token] # None
                      /\ call'[d].user = approved'[origin'[call'[d].token]].user
    BY DEF McpActsForApprover
  <2>1. d # c /\ call'[d] = call[d]
    BY <1>2
  <2>2. /\ tokens[call[d].token] # None /\ call[d].token \in Tokens
        /\ call[d].user = approved[origin[call[d].token]].user
    BY <2>1 DEF McpActsForApprover, TypeOK, Call, Idle
  <2>3. call[d].token # t
    BY <1>1, <2>2
  <2> QED
    BY <1>2, <1>4, <2>1, <2>2, <2>3
<1> QED
  BY <1>7, <1>8, <1>9, <1>10, <1>11, <1>12

\* An /mcp request is bound to the user of a token that works.
LEMMA BeginMcpStep ==
    ASSUME GrantInv, TypeOK', NEW c \in Calls, NEW t \in Tokens, BeginMcp(c, t)
    PROVE  GrantInv'
<1>1. /\ call'[c] = [pc |-> "mcp", token |-> t, user |-> tokens[t].user]
      /\ \A d \in Calls \ {c} : call'[d] = call[d]
      /\ tokens[t] # None /\ UNCHANGED <<codes, tokens, approved, origin>>
  BY DEF BeginMcp, Works, TypeOK
<1>2. RowsAsApproved' /\ TokensHaveOrigin' /\ TokenAsApproved'
  BY <1>1 DEF RowsAsApproved, TokensHaveOrigin, TokenAsApproved
<1>3. RowsUnspent' /\ CallsAsApproved'
  BY <1>1 DEF RowsUnspent, CallsAsApproved
<1>4. OneTokenPerCode'
  BY <1>1 DEF OneTokenPerCode
<1>5. McpActsForApprover'
  BY <1>1 DEF McpActsForApprover, TokenAsApproved
<1> QED
  BY <1>2, <1>3, <1>4, <1>5

\* Revoking leaves the user, the app and the origin of a token.
LEMMA RevokeStep ==
    ASSUME GrantInv, TypeOK', NEW t \in Tokens, RevokeToken(t)
    PROVE  GrantInv'
<1>1. /\ \A r \in Tokens \ {t} : tokens'[r] = tokens[r]
      /\ tokens[t] # None /\ tokens[t] \in TokenRow
      /\ tokens'[t] = [tokens[t] EXCEPT !.revoked = TRUE]
      /\ UNCHANGED <<codes, call, approved, origin>>
  BY DEF RevokeToken, TypeOK
<1>2. /\ tokens'[t] \in TokenRow
      /\ tokens'[t].user = tokens[t].user /\ tokens'[t].app = tokens[t].app
  BY <1>1 DEF TokenRow
<1>3. \A r \in Tokens : /\ tokens'[r] = None <=> tokens[r] = None
                        /\ tokens'[r].user = tokens[r].user
                        /\ tokens'[r].app = tokens[r].app
  BY <1>1, <1>2, OAuthAssumption
<1>4. RowsAsApproved' /\ RowsUnspent' /\ CallsAsApproved' /\ OneTokenPerCode'
  BY <1>1 DEF RowsAsApproved, RowsUnspent, CallsAsApproved, OneTokenPerCode
<1>5. TokensHaveOrigin' /\ TokenAsApproved'
  BY <1>1, <1>3 DEF TokensHaveOrigin, TokenAsApproved
<1>6. McpActsForApprover'
  BY <1>1, <1>3 DEF McpActsForApprover, TypeOK, Call, Idle
<1> QED
  BY <1>4, <1>5, <1>6

\* Steps that leave the tables and their history alone, and can only end calls.
LEMMA FrameStep ==
    ASSUME GrantInv, TypeOK', UNCHANGED <<codes, tokens, approved, origin>>,
           \A c \in Calls : call'[c] \in {call[c], Idle}
    PROVE  GrantInv'
<1>1. \A c \in Calls : call'[c].pc # "idle" => call'[c] = call[c]
  BY DEF Idle
<1>2. RowsAsApproved' /\ TokensHaveOrigin' /\ TokenAsApproved'
  BY DEF RowsAsApproved, TokensHaveOrigin, TokenAsApproved
<1>3. RowsUnspent' /\ CallsAsApproved'
  BY <1>1 DEF RowsUnspent, CallsAsApproved
<1>4. OneTokenPerCode' /\ McpActsForApprover'
  BY <1>1 DEF OneTokenPerCode, McpActsForApprover
<1> QED
  BY <1>2, <1>3, <1>4

\* Every step keeps the invariant.
LEMMA InvStep == ASSUME GrantInv, [Next]_vars PROVE GrantInv'
<1>1. TypeOK'
  BY TypeStep
<1>2. CASE UNCHANGED vars
  BY <1>1, <1>2, FrameStep DEF vars
<1>3. ASSUME NEW a \in Apps, RegisterClient(a) PROVE GrantInv'
  BY <1>1, <1>3, FrameStep DEF RegisterClient
<1>4. ASSUME NEW u \in Users \union {None}, ChangeSession(u) PROVE GrantInv'
  BY <1>1, <1>4, FrameStep DEF ChangeSession
<1>5. ASSUME NEW f \in Flows, Authorize(f) PROVE GrantInv'
  BY <1>1, <1>5, FrameStep DEF Authorize
<1>6. ASSUME NEW c \in Calls, EndMcp(c) PROVE GrantInv'
  <2>1. \A d \in Calls : call'[d] \in {call[d], Idle}
    BY <1>6 DEF EndMcp, TypeOK
  <2> QED
    BY <1>1, <1>6, <2>1, FrameStep DEF EndMcp
<1>7. CASE Restart
  <2>1. \A d \in Calls : call'[d] \in {call[d], Idle}
    BY <1>7 DEF Restart
  <2> QED
    BY <1>1, <1>7, <2>1, FrameStep DEF Restart
<1>8. CASE Tick
  BY <1>1, <1>8, FrameStep DEF Tick
<1>9. ASSUME NEW f \in tabs, NEW m \in Methods, NEW again \in BOOLEAN, Consent(f, m, again)
      PROVE GrantInv'
  BY <1>1, <1>9, ConsentStep
<1>10. ASSUME NEW c \in Calls, NEW k \in Codes, NEW a \in Apps, NEW u \in Uris,
              NEW v \in Verifiers, ConsumeAuthCode(c, k, a, u, v)
       PROVE GrantInv'
  BY <1>1, <1>10, ConsumeStep
<1>11. ASSUME NEW c \in Calls, CreateAccessToken(c) PROVE GrantInv'
  BY <1>1, <1>11, CreateStep
<1>12. ASSUME NEW c \in Calls, NEW t \in Tokens, BeginMcp(c, t) PROVE GrantInv'
  BY <1>1, <1>12, BeginMcpStep
<1>13. ASSUME NEW t \in Tokens, RevokeToken(t) PROVE GrantInv'
  BY <1>1, <1>13, RevokeStep
<1> QED
  BY <1>2, <1>3, <1>4, <1>5, <1>6, <1>7, <1>8, <1>9, <1>10, <1>11, <1>12, <1>13 DEF Next

\* The invariant holds with empty tables.
LEMMA InvInit == Init => GrantInv
<1> SUFFICES ASSUME Init PROVE GrantInv
  OBVIOUS
<1>1. TypeOK
  BY DEF Init, TypeOK, Call, Form
<1>2. /\ RowsAsApproved /\ RowsUnspent /\ CallsAsApproved /\ TokensHaveOrigin
      /\ OneTokenPerCode /\ TokenAsApproved /\ McpActsForApprover
  BY DEF Init, Idle, RowsAsApproved, RowsUnspent, CallsAsApproved, TokensHaveOrigin,
         OneTokenPerCode, TokenAsApproved, McpActsForApprover
<1> QED
  BY <1>1, <1>2

\* GrantInv holds in every reachable state of the server.
THEOREM GrantInvariant == Spec => []GrantInv
BY InvInit, InvStep, PTL DEF Spec

\* The rows, cookies and calls keep their types.
THEOREM TypeCorrect == Spec => []TypeOK
BY GrantInvariant, PTL

\* No code ever makes two tokens, however many callers race for it and wherever
\* the process restarts (consume_auth_code's "two parallel callers can never
\* both succeed with the same code").
THEOREM OneShot == Spec => []OneTokenPerCode
BY GrantInvariant, PTL

\* Every token carries the user and the app of the consent it came from.
THEOREM Faithful == Spec => []TokenAsApproved
BY GrantInvariant, PTL

\* Every /mcp request acts for the user who approved its token.
THEOREM BoundToApprover == Spec => []McpActsForApprover
BY GrantInvariant, PTL

----------------------------------------------------------------------------

\* The refinement.  Under the invariant the user a grant acts for is the one
\* who approved it, so only Consent moves it; a step that creates no approval
\* and no token can only end grants.
LEMMA ActsForApprover ==
    ASSUME GrantInv
    PROVE  \A k \in Codes :
             ActsFor(k) = IF approved[k] = None THEN None ELSE approved[k].user
<1> SUFFICES ASSUME NEW k \in Codes, approved[k] # None, NEW t \in Tokens, origin[t] = k
             PROVE  tokens[CHOOSE u \in Tokens : origin[u] = k].user = approved[k].user
  BY DEF ActsFor
<1> DEFINE u == CHOOSE u \in Tokens : origin[u] = k
<1>1. u \in Tokens /\ origin[u] = k
  OBVIOUS
<1>2. k # None
  BY OAuthAssumption
<1>3. tokens[u] # None
  BY <1>1, <1>2 DEF TokensHaveOrigin
<1> QED
  BY <1>1, <1>3 DEF TokenAsApproved

\* The same of the next state, where GrantInv holds too.
LEMMA ActsForNext ==
    (GrantInv =>
       \A k \in Codes :
         ActsFor(k) = IF approved[k] = None THEN None ELSE approved[k].user)'
BY ActsForApprover, PTL

\* Only a consent settles whom a grant acts for.
LEMMA ActsForStays ==
    ASSUME GrantInv, GrantInv', UNCHANGED approved
    PROVE  \A k \in Codes : ActsFor(k)' = ActsFor(k)
BY ActsForApprover, ActsForNext

\* While a code can still become a token, none has been made of it.
LEMMA PendingIsUnspent ==
    ASSUME GrantInv, NEW k \in Codes, Pending(k)
    PROVE  \A t \in Tokens : origin[t] # k
BY DEF Pending, RowsUnspent, OneTokenPerCode

\* A step after which no code is pending and no token works that was not
\* before ends the grants whose stage it changes, or none.
LEMMA EndStep ==
    ASSUME GrantInv, GrantInv', UNCHANGED <<approved, origin>>,
           \A k \in Codes : Pending(k)' => Pending(k),
           \A t \in Tokens : Works(t)' => Works(t)
    PROVE  Grant!Next
<1> DEFINE S == {k \in Codes : StageOf(k)' # StageOf(k)}
<1>1. \A k \in Codes : ActsFor(k)' = ActsFor(k)
  BY ActsForStays
<1>2. \A k \in Codes : Live(k)' => Live(k)
  BY DEF Live
<1>3. \A k \in Codes : Pending(k) => ~Live(k)
  BY PendingIsUnspent DEF Live
<1>4. \A k \in Codes : \/ StageOf(k)' = StageOf(k)
                       \/ StageOf(k) \in {"open", "live"} /\ StageOf(k)' = "over"
  BY <1>2, <1>3 DEF StageOf
<1>5. Grant!End(S)
  BY <1>1, <1>4 DEF Grant!End
<1> QED
  BY <1>5 DEF Grant!Next

\* Clicking Approve is Approve, for the user who is logged in by then.
LEMMA ConsentApproves ==
    ASSUME GrantInv, GrantInv',
           NEW f \in tabs, NEW m \in Methods, NEW again \in BOOLEAN, Consent(f, m, again)
    PROVE  Grant!Next
<1>1. PICK k \in Codes :
        /\ approved[k] = None
        /\ LET row == [user |-> session, app |-> f.app, uri |-> f.uri,
                       challenge |-> f.challenge, method |-> m, expires |-> now + CodeTTL]
           IN /\ codes' = [codes EXCEPT ![k] = row]
              /\ approved' = [approved EXCEPT ![k] = row]
  BY DEF Consent
<1>2. session \in Users /\ UNCHANGED <<now, tokens, call, origin>>
  BY DEF Consent, TypeOK
<1>3. /\ codes'[k] = approved'[k] /\ approved'[k].user = session
      /\ \A j \in Codes \ {k} : codes'[j] = codes[j] /\ approved'[j] = approved[j]
  BY <1>1 DEF TypeOK
<1>4. codes'[k] # None /\ approved'[k] # None
  <2>1. f.app \in Apps /\ f.uri \in Uris /\ f.challenge \in Challenges
    BY DEF TypeOK, Form
  <2>2. now + CodeTTL \in Nat
    BY OAuthAssumption DEF TypeOK
  <2>3. codes'[k] \in CodeRow
    BY <1>1, <1>2, <2>1, <2>2 DEF CodeRow, TypeOK
  <2> QED
    BY <1>3, <2>3, OAuthAssumption
<1>5. StageOf(k) = "none" /\ StageOf(k)' = "open"
  BY <1>1, <1>4 DEF StageOf, Pending
<1>6. \A j \in Codes \ {k} : StageOf(j)' = StageOf(j)
  BY <1>2, <1>3 DEF StageOf, Pending, Live, Works
<1>7. ActsFor(k)' = session /\ \A j \in Codes \ {k} : ActsFor(j)' = ActsFor(j)
  BY <1>3, <1>4, ActsForApprover, ActsForNext
<1>8. Grant!Approve(k, session)
  BY <1>5, <1>6, <1>7 DEF Grant!Approve
<1> QED
  BY <1>2, <1>8 DEF Grant!Next

\* Creating the token is Redeem of the code it was taken for.
LEMMA CreateRedeems ==
    ASSUME GrantInv, GrantInv', NEW c \in Calls, CreateAccessToken(c)
    PROVE  Grant!Next
<1>1. PICK t \in Tokens :
        /\ tokens[t] = None
        /\ tokens' = [tokens EXCEPT ![t] =
                        [user |-> call[c].user, app |-> call[c].app,
                         expires |-> now + TokenTTL, revoked |-> FALSE]]
        /\ origin' = [origin EXCEPT ![t] = call[c].code]
  BY DEF CreateAccessToken
<1>2. /\ call[c].pc = "consumed" /\ UNCHANGED <<now, codes, approved>>
      /\ call'[c].pc = "idle" /\ \A d \in Calls \ {c} : call'[d] = call[d]
  BY DEF CreateAccessToken, TypeOK, Idle
<1>3. PICK k \in Codes : k = call[c].code
  BY <1>2 DEF TypeOK, Call, Idle
<1>4. approved[k] # None /\ Pending(k)
  BY <1>2, <1>3 DEF CallsAsApproved, Pending
<1>5. /\ origin'[t] = k /\ tokens'[t].expires = now + TokenTTL /\ ~tokens'[t].revoked
      /\ \A r \in Tokens \ {t} : tokens'[r] = tokens[r] /\ origin'[r] = origin[r]
  BY <1>1, <1>3 DEF TypeOK
<1>6. origin[t] = None
  BY <1>1 DEF TokensHaveOrigin
<1>7. tokens'[t] # None
  BY <1>3, <1>5, OAuthAssumption DEF TokensHaveOrigin
<1>8. Works(t)'
  BY <1>2, <1>5, <1>7, OAuthAssumption DEF Works, TypeOK
<1>9. ~Pending(k)'
  BY <1>5 DEF Pending, RowsUnspent, OneTokenPerCode
<1>10. StageOf(k) = "open" /\ StageOf(k)' = "live"
  BY <1>2, <1>4, <1>5, <1>8, <1>9 DEF StageOf, Live
<1>11. \A j \in Codes \ {k} : StageOf(j)' = StageOf(j)
  <2> SUFFICES ASSUME NEW j \in Codes \ {k} PROVE StageOf(j)' = StageOf(j)
    OBVIOUS
  <2>1. Pending(j)' <=> Pending(j)
    BY <1>2, <1>3 DEF Pending
  <2>2. Live(j)' <=> Live(j)
    BY <1>1, <1>2, <1>5, <1>6, OAuthAssumption DEF Live, Works
  <2> QED
    BY <1>2, <2>1, <2>2 DEF StageOf
<1>12. \A j \in Codes : ActsFor(j)' = ActsFor(j)
  BY <1>2, ActsForStays
<1>13. Grant!Redeem(k)
  BY <1>3, <1>10, <1>11, <1>12 DEF Grant!Redeem
<1> QED
  BY <1>3, <1>13 DEF Grant!Next

\* Every step of the server is a step of the one-shot grant or a stutter.
LEMMA StepRefines == ASSUME GrantInv, GrantInv', [Next]_vars PROVE [Grant!Next]_Grant!vars
<1> USE DEF Pending, Works
<1>1. CASE UNCHANGED vars
  BY <1>1, EndStep DEF vars
<1>2. ASSUME NEW a \in Apps, RegisterClient(a) PROVE Grant!Next
  BY <1>2, EndStep DEF RegisterClient
<1>3. ASSUME NEW u \in Users \union {None}, ChangeSession(u) PROVE Grant!Next
  BY <1>3, EndStep DEF ChangeSession
<1>4. ASSUME NEW f \in Flows, Authorize(f) PROVE Grant!Next
  BY <1>4, EndStep DEF Authorize
<1>5. ASSUME NEW f \in tabs, NEW m \in Methods, NEW again \in BOOLEAN, Consent(f, m, again)
      PROVE Grant!Next
  BY <1>5, ConsentApproves
<1>6. ASSUME NEW c \in Calls, NEW k \in Codes, NEW a \in Apps, NEW u \in Uris,
             NEW v \in Verifiers, ConsumeAuthCode(c, k, a, u, v)
      PROVE Grant!Next
  <2>1. UNCHANGED <<now, approved, origin, tokens>> /\ codes[k] # None
    BY <1>6 DEF ConsumeAuthCode
  <2>2. \A j \in Codes : codes'[j] # None => codes[j] # None
    BY <1>6 DEF ConsumeAuthCode, TypeOK
  <2>3. \A d \in Calls : call'[d].pc = "consumed" => \/ call'[d] = call[d]
                                                     \/ call'[d].code = k
    BY <1>6 DEF ConsumeAuthCode, TypeOK
  <2>4. \A j \in Codes : Pending(j)' => Pending(j)
    BY <2>1, <2>2, <2>3
  <2> QED
    BY <2>1, <2>4, EndStep
<1>7. ASSUME NEW c \in Calls, CreateAccessToken(c) PROVE Grant!Next
  BY <1>7, CreateRedeems
<1>8. ASSUME NEW c \in Calls, NEW t \in Tokens, BeginMcp(c, t) PROVE Grant!Next
  <2>1. \A d \in Calls : call'[d].pc = "consumed" => call'[d] = call[d]
    BY <1>8 DEF BeginMcp, TypeOK
  <2> QED
    BY <1>8, <2>1, EndStep DEF BeginMcp
<1>9. ASSUME NEW c \in Calls, EndMcp(c) PROVE Grant!Next
  <2>1. \A d \in Calls : call'[d].pc = "consumed" => call'[d] = call[d]
    BY <1>9 DEF EndMcp, TypeOK, Idle
  <2> QED
    BY <1>9, <2>1, EndStep DEF EndMcp
<1>10. ASSUME NEW t \in Tokens, RevokeToken(t) PROVE Grant!Next
  <2>1. UNCHANGED <<now, codes, call, approved, origin>>
    BY <1>10 DEF RevokeToken
  <2>2. /\ \A r \in Tokens \ {t} : tokens'[r] = tokens[r]
        /\ tokens[t] \in TokenRow /\ tokens'[t].revoked
    BY <1>10 DEF RevokeToken, TypeOK, TokenRow
  <2> QED
    BY <2>1, <2>2, EndStep
<1>11. CASE Restart
  <2>1. \A d \in Calls : call'[d].pc = "idle"
    BY <1>11 DEF Restart, Idle
  <2> QED
    BY <1>11, <2>1, EndStep DEF Restart
<1>12. CASE Tick
  <2>1. UNCHANGED <<codes, tokens, call, approved, origin>> /\ now' = now + 1
    BY <1>12 DEF Tick
  <2>2. \A t \in Tokens : tokens[t] # None => tokens[t].expires \in Nat
    BY DEF TypeOK, TokenRow
  <2>3. \A t \in Tokens : Works(t)' => Works(t)
    BY <2>1, <2>2 DEF TypeOK
  <2> QED
    BY <2>1, <2>3, EndStep
<1> QED
  BY <1>1, <1>2, <1>3, <1>4, <1>5, <1>6, <1>7, <1>8, <1>9, <1>10, <1>11, <1>12 DEF Next

\* With empty tables every grant is at its beginning.
LEMMA InitRefines == Init => Grant!Init
BY DEF Init, Grant!Init, StageOf, ActsFor

\* The server implements the one-shot grant: an approval is worth one bearer,
\* which acts for the approver, and once over is over for good.
THEOREM Implements == Spec => ImplementsGrant
<1>1. GrantInv /\ GrantInv' /\ [Next]_vars => [Grant!Next]_Grant!vars
  BY StepRefines
<1> QED
  BY <1>1, InitRefines, GrantInvariant, PTL DEF Spec, ImplementsGrant, Grant!Spec
=============================================================================
