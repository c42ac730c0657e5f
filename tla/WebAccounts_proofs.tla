------------------------- MODULE WebAccounts_proofs -------------------------
(***************************************************************************)
(* For every number of windows, tabs, passwords, tokens and secrets: links *)
(* are redeemed once, pages tell the truth, a required second factor is    *)
(* paired, and a logout sticks.                                            *)
(***************************************************************************)
EXTENDS WebAccounts, TLAPS

-----------------------------------------------------------------------------
\* The mail scene.
Typed == Passwords \cup {""}
LinkRow == [kind : {"verify", "reset"}, used : BOOLEAN, expired : BOOLEAN, mailed : BOOLEAN,
            uses : Nat, overlapped : BOOLEAN]
PageRow == [route : {"away", "signup", "forgot", "reset", "verify"}, link : Nat,
            status : {"form", "done", "error"}, first : Typed, second : Typed, stale : BOOLEAN]
RequestRow == [state : {"none", "sent", "checked", "mailing", "answered"},
               status : {"none", "done", "error"}, link : Nat]

MailTypes ==
    /\ account \in [exists : BOOLEAN, password : Typed, verified : BOOLEAN]
    /\ links \in Seq(LinkRow)
    /\ view \in [Windows -> PageRow]
    /\ request \in [Windows -> RequestRow]

\* An account comes before its tokens and before its confirmation.
AccountFirst == links # <<>> \/ account.verified => account.exists

\* What a page waits for is what its route and its link allow.
Fits(V, R) ==
    /\ V.link \in 0..Len(links)
    /\ V.route \notin {"reset", "verify"} => V.link = 0
    /\ V.route = "away" => R.state = "none"
    /\ V.route \in {"reset", "verify"} /\ R.state # "none" => V.link # 0
    /\ R.state = "checked" => V.route \in {"signup", "reset", "verify"}
    /\ R.state = "mailing" => V.route \in {"signup", "forgot"} /\ R.link \in DOMAIN links
    /\ R.state = "answered" => R.status # "none"
    /\ V.route = "reset" /\ R.state \in {"sent", "checked"} => V.first = V.second

\* What success means on a page.
Truth(V) ==
    /\ V.route = "signup" => account.exists
    /\ V.route = "verify" => account.verified
    /\ V.route = "reset" => V.first = V.second /\ <<V.link, V.first>> \in written

\* Success is reported, or about to be.
Succeeds(V, R) == V.status = "done" \/ (R.state = "answered" /\ R.status = "done")

GoodPage(V, R) == Fits(V, R) /\ (Succeeds(V, R) => Truth(V))

\* A token that was redeemed is used up; one that nobody checked at the same
\* time as another has one redeemer at most, and none once it is redeemed.
SingleRedeemer(l) ==
    /\ links[l].uses > 0 => links[l].used
    /\ ~links[l].overlapped =>
         /\ links[l].uses <= 1
         /\ \A w, v \in Redeeming(l) : w = v
         /\ Redeeming(l) # {} => links[l].uses = 0

MailInv ==
    /\ MailTypes
    /\ AccountFirst
    /\ \A w \in Windows : GoodPage(view[w], request[w])
    /\ \A l \in DOMAIN links : SingleRedeemer(l)

-----------------------------------------------------------------------------
\* The gate scene.
EntryRow == [known : {"none", "in", "out", "failed"}, on : BOOLEAN, stale : BOOLEAN]
FetchRow == [state : {"idle", "asked", "answered"}, in : BOOLEAN, on : BOOLEAN]
TabRow == [at : {"app", "login", "closed"}, entry : EntryRow, fetch : FetchRow,
           courses : BOOLEAN, ask : {"none", "signed", "unsigned"}, needs : BOOLEAN,
           step : {"idle", "confirm", "disable"}, shown : Nat, bounced : BOOLEAN, left : BOOLEAN]
Replies == {"none", "ok", "wrong password", "code wanted", "wrong code", "too many",
            "refused", "nothing pending"}
CallRow == [state : {"sent", "checked", "answered"}, code : Int, in : BOOLEAN,
            answer : Replies, on : BOOLEAN, live : BOOLEAN]
Calls == [Hooks -> CallRow \cup {NoCall}]
CardHooks == {"setup", "enable", "disable"}

\* A tab whose card shows a secret only in the application, and which, left by
\* a logout, knows of no session and has asked for none with a cookie.
GoodTab(T, in, secrets) ==
    /\ T \in TabRow
    /\ T.shown \in 0..secrets
    /\ T.step = "confirm" => T.shown # 0
    /\ T.at = "login" => T.step = "idle"
    /\ T.left => ~in /\ T.entry.known # "in" /\ ~T.fetch.in

\* A call of the card belongs to a card that is there, or to none, and the
\* secret that a setup answers is one that was generated.
GoodCall(call, hook, at, secrets) ==
    call # NoCall =>
        /\ hook \in CardHooks /\ call.live => at = "app"
        /\ hook = "setup" /\ call.answer = "ok" => call.code \in 1..secrets

GoodCalls(calls, at, secrets) ==
    calls \in Calls /\ \A h \in Hooks : GoodCall(calls[h], h, at, secrets)

\* The secret in force, or about to be, is one whose code was entered.
Paired ==
    ~crossed /\ totp.secret # 0 /\ (totp.enabled \/ Checked({"enable"}))
        => totp.secret \in confirmed

GateInv ==
    /\ cookie \in BOOLEAN /\ crossed \in BOOLEAN
    /\ minted \in Nat
    /\ totp \in [enabled : BOOLEAN, secret : 0..minted]
    /\ confirmed \subseteq 1..minted
    /\ tab \in [Tabs -> TabRow] /\ sent \in [Tabs -> Calls]
    /\ \A t \in Tabs : /\ GoodTab(tab[t], cookie, minted)
                       /\ GoodCalls(sent[t], tab[t].at, minted)
    /\ Paired

AccountsInv ==
    /\ scene \in {"mail", "gate"}
    /\ scene = "mail" => MailInv
    /\ scene = "gate" => GateInv /\ links = <<>> /\ user \in BOOLEAN
-----------------------------------------------------------------------------
\* A step of one page that touches neither the account nor the tokens.
LEMMA PageStep ==
    ASSUME MailInv, NEW w \in Windows, NEW V \in PageRow, NEW R \in RequestRow,
           UNCHANGED <<account, links, written>>,
           view' = [view EXCEPT ![w] = V], request' = [request EXCEPT ![w] = R],
           GoodPage(V, R),
           R.state = "checked" => V.link = 0 \/ (V.link = view[w].link /\ R = request[w])
    PROVE  MailInv'
<1>1. MailTypes'
  <2>1. view' \in [Windows -> PageRow] /\ request' \in [Windows -> RequestRow]
    BY DEF MailInv, MailTypes
  <2> QED  BY <2>1 DEF MailInv, MailTypes
<1>2. AccountFirst'
  BY DEF MailInv, AccountFirst
<1>3. ASSUME NEW v \in Windows  PROVE GoodPage(view[v], request[v])'
  <2>1. GoodPage(view'[v], request'[v])
    <3>1. CASE v = w
      BY <3>1 DEF MailInv, MailTypes
    <3>2. CASE v # w
      <4>1. view'[v] = view[v] /\ request'[v] = request[v]
        BY <3>2 DEF MailInv, MailTypes
      <4> QED  BY <4>1 DEF MailInv
    <3> QED  BY <3>1, <3>2
  <2> QED  BY <2>1 DEF GoodPage, Fits, Succeeds, Truth
<1>4. ASSUME NEW l \in DOMAIN links  PROVE SingleRedeemer(l)'
  <2>1. l # 0
    BY DEF MailInv, MailTypes
  <2>2. Redeeming(l)' \subseteq Redeeming(l)
    BY <2>1 DEF MailInv, MailTypes, Redeeming
  <2> QED  BY <2>2 DEF MailInv, SingleRedeemer
<1> QED  BY <1>1, <1>2, <1>3, <1>4 DEF MailInv

LEMMA PagesOfMail ==
    ASSUME MailInv, NEW w \in Windows
    PROVE  /\ view[w] \in PageRow /\ request[w] \in RequestRow
           /\ GoodPage(view[w], request[w])
           /\ view = [view EXCEPT ![w] = view[w]]
           /\ request = [request EXCEPT ![w] = request[w]]
           /\ Len(links) \in Nat
BY DEF MailInv, MailTypes

LEMMA TokensOfMail ==
    ASSUME MailInv, NEW l \in DOMAIN links
    PROVE  links[l] \in LinkRow /\ l \in 1..Len(links) /\ Len(links) \in Nat
<1>1. links \in Seq(LinkRow)
  BY DEF MailInv, MailTypes
<1> QED  BY <1>1

-----------------------------------------------------------------------------
\* The pages.
LEMMA OpenPageKeeps ==
    ASSUME MailInv, NEW w \in Windows, OpenPage(w)  PROVE MailInv'
<1>0. NoRequest \in RequestRow
  BY DEF NoRequest, RequestRow
<1>1. ASSUME NEW route \in {"signup", "forgot", "reset", "verify"},
             view' = [view EXCEPT ![w] = Page(route, 0)], UNCHANGED request
      PROVE  MailInv'
  <2>1. request' = [request EXCEPT ![w] = NoRequest]
    BY <1>1, PagesOfMail DEF OpenPage
  <2>2. Page(route, 0) \in PageRow
    BY DEF Page, PageRow, Typed
  <2>3. GoodPage(Page(route, 0), NoRequest)
    BY PagesOfMail DEF Page, NoRequest, GoodPage, Fits, Succeeds
  <2>4. NoRequest.state # "checked"
    BY DEF NoRequest
  <2> QED  BY <1>0, <1>1, <2>1, <2>2, <2>3, <2>4, PageStep DEF OpenPage
<1>2. ASSUME NEW l \in DOMAIN links, view' = [view EXCEPT ![w] = Page(links[l].kind, l)],
             request' = IF links[l].kind = "verify" THEN [request EXCEPT ![w] = Sent] ELSE request
      PROVE  MailInv'
  <2> DEFINE V == Page(links[l].kind, l)
             R == IF links[l].kind = "verify" THEN Sent ELSE NoRequest
  <2>1. request' = [request EXCEPT ![w] = R]
    BY <1>2, PagesOfMail DEF OpenPage
  <2>2. links[l].kind \in {"verify", "reset"} /\ l \in 1..Len(links) /\ Len(links) \in Nat
    BY TokensOfMail DEF LinkRow
  <2>3. V \in PageRow /\ R \in RequestRow
    BY <2>2 DEF Page, PageRow, RequestRow, Typed, NoRequest, Sent
  <2>4. GoodPage(V, R) /\ R.state # "checked"
    BY <2>2 DEF Page, NoRequest, Sent, GoodPage, Fits, Succeeds
  <2> HIDE DEF V, R
  <2> QED  BY <1>2, <2>1, <2>3, <2>4, PageStep DEF OpenPage, V
<1> QED  BY <1>1, <1>2 DEF OpenPage

LEMMA SubmitKeeps ==
    ASSUME MailInv, NEW w \in Windows, Submit(w)  PROVE MailInv'
<1>0. Sent \in RequestRow /\ NoRequest \in RequestRow /\ request[w] = NoRequest
  BY DEF Sent, NoRequest, RequestRow, Submit
<1>1. ASSUME view[w].route = "signup" \/ (view[w].route = "reset" /\ view[w].link # 0),
             NEW first \in Passwords, NEW second \in Passwords, SubmitTyped(w, first, second)
      PROVE  MailInv'
  <2> DEFINE V == [view[w] EXCEPT !.first = first, !.second = second,
                                  !.status = IF first = second THEN "form" ELSE "error"]
             R == IF first = second THEN Sent ELSE NoRequest
  <2>1. view' = [view EXCEPT ![w] = V]
    BY <1>1, PagesOfMail DEF SubmitTyped, MailInv, MailTypes
  <2>2. request' = [request EXCEPT ![w] = R]
    BY <1>0, <1>1, PagesOfMail DEF SubmitTyped
  <2>3. V \in PageRow /\ R \in RequestRow
    BY <1>0, PagesOfMail DEF Typed, PageRow
  <2>4. GoodPage(V, R) /\ R.state # "checked"
    BY <1>1, PagesOfMail DEF GoodPage, Fits, Succeeds, Sent, NoRequest, PageRow
  <2> HIDE DEF V, R
  <2> QED  BY <2>1, <2>2, <2>3, <2>4, PageStep DEF Submit
<1>2. ASSUME view[w].route = "forgot", view' = [view EXCEPT ![w].status = "form"],
             request' = [request EXCEPT ![w] = Sent]
      PROVE  MailInv'
  <2> DEFINE V == [view[w] EXCEPT !.status = "form"]
  <2>1. view' = [view EXCEPT ![w] = V]
    BY <1>2
  <2>2. V \in PageRow
    BY PagesOfMail DEF PageRow
  <2>3. GoodPage(V, Sent) /\ Sent.state # "checked"
    BY <1>2, PagesOfMail DEF GoodPage, Fits, Succeeds, Sent, PageRow
  <2> HIDE DEF V
  <2> QED  BY <1>0, <1>2, <2>1, <2>2, <2>3, PageStep DEF Submit
<1> QED  BY <1>1, <1>2 DEF Submit

LEMMA PageAgesKeeps ==
    ASSUME MailInv, NEW w \in Windows, PageAges(w)  PROVE MailInv'
<1> DEFINE V == [view[w] EXCEPT !.stale = TRUE]
<1>1. view' = [view EXCEPT ![w] = V] /\ request' = [request EXCEPT ![w] = request[w]]
  BY PagesOfMail DEF PageAges
<1>2. V \in PageRow /\ V.link = view[w].link
  BY PagesOfMail DEF PageRow
<1>3. GoodPage(V, request[w])
  BY PagesOfMail DEF GoodPage, Fits, Succeeds, Truth, PageRow
<1> HIDE DEF V
<1> QED  BY <1>1, <1>2, <1>3, PagesOfMail, PageStep DEF PageAges

LEMMA VerifyAgainKeeps ==
    ASSUME MailInv, NEW w \in Windows, VerifyAgain(w)  PROVE MailInv'
<1>1. view' = [view EXCEPT ![w] = view[w]] /\ request' = [request EXCEPT ![w] = Sent]
  BY PagesOfMail DEF VerifyAgain
<1>2. Sent \in RequestRow /\ Sent.state # "checked"
  BY DEF Sent, RequestRow
<1>3. GoodPage(view[w], Sent)
  BY PagesOfMail DEF VerifyAgain, GoodPage, Fits, Succeeds, Sent
<1> QED  BY <1>1, <1>2, <1>3, PagesOfMail, PageStep DEF VerifyAgain

LEMMA ToldKeeps ==
    ASSUME MailInv, NEW w \in Windows, Told(w)  PROVE MailInv'
<1> DEFINE V == [view[w] EXCEPT !.status = request[w].status, !.stale = FALSE]
<1>1. view' = [view EXCEPT ![w] = V] /\ request' = [request EXCEPT ![w] = NoRequest]
  BY PagesOfMail DEF Told, MailInv, MailTypes
<1>2. request[w].status \in {"done", "error"}
  BY PagesOfMail DEF Told, RequestRow, GoodPage, Fits
<1>3. V \in PageRow /\ NoRequest \in RequestRow /\ NoRequest.state # "checked"
  BY <1>2, PagesOfMail DEF PageRow, RequestRow, NoRequest
<1>4. GoodPage(V, NoRequest)
  BY PagesOfMail DEF Told, GoodPage, Fits, Succeeds, Truth, NoRequest, PageRow
<1> HIDE DEF V
<1> QED  BY <1>1, <1>3, <1>4, PageStep DEF Told

LEMMA LoseKeeps ==
    ASSUME MailInv, NEW w \in Windows, Lose(w)  PROVE MailInv'
<1> DEFINE V == [view[w] EXCEPT !.status = "error"]
<1>1. view' = [view EXCEPT ![w] = V] /\ request' = [request EXCEPT ![w] = NoRequest]
  BY PagesOfMail DEF Lose
<1>2. V \in PageRow /\ NoRequest \in RequestRow /\ NoRequest.state # "checked"
  BY PagesOfMail DEF PageRow, RequestRow, NoRequest
<1>3. GoodPage(V, NoRequest)
  BY PagesOfMail DEF Lose, GoodPage, Fits, Succeeds, Truth, NoRequest, PageRow
<1> HIDE DEF V
<1> QED  BY <1>1, <1>2, <1>3, PageStep DEF Lose

\* A handler that only answers.
LEMMA RefuseKeeps ==
    ASSUME MailInv, NEW w \in Windows, request[w].state # "none", NEW status \in {"done", "error"},
           status = "done" => Truth(view[w]), Reply(w, status),
           UNCHANGED <<account, links, view, written>>
    PROVE  MailInv'
<1>1. view' = [view EXCEPT ![w] = view[w]] /\ request' = [request EXCEPT ![w] = Replied(status)]
  BY PagesOfMail DEF Reply
<1>2. Replied(status) \in RequestRow /\ Replied(status).state # "checked"
  BY DEF Replied, RequestRow
<1>3. GoodPage(view[w], Replied(status))
  BY PagesOfMail DEF GoodPage, Fits, Succeeds, Replied
<1> QED  BY <1>1, <1>2, <1>3, PagesOfMail, PageStep

LEMMA SignupLooksKeeps ==
    ASSUME MailInv, NEW w \in Windows, SignupLooks(w)  PROVE MailInv'
<1>1. CASE account.exists
  BY <1>1, RefuseKeeps DEF SignupLooks, On, Truth
<1>2. CASE ~account.exists
  <2> DEFINE R == [request[w] EXCEPT !.state = "checked"]
  <2>1. view' = [view EXCEPT ![w] = view[w]] /\ request' = [request EXCEPT ![w] = R]
    BY <1>2, PagesOfMail DEF SignupLooks, Goes
  <2>2. R \in RequestRow
    BY PagesOfMail DEF RequestRow
  <2>3. GoodPage(view[w], R) /\ view[w].link = 0
    BY PagesOfMail DEF SignupLooks, On, GoodPage, Fits, Succeeds, RequestRow
  <2> HIDE DEF R
  <2> QED  BY <2>1, <2>2, <2>3, PagesOfMail, PageStep DEF SignupLooks
<1> QED  BY <1>1, <1>2

LEMMA TurnedAwayKeeps ==
    ASSUME MailInv, NEW w \in Windows, TurnedAway(w)  PROVE MailInv'
BY RefuseKeeps DEF TurnedAway

-----------------------------------------------------------------------------
\* The handlers of tokens.
AccountRow == [exists : BOOLEAN, password : Typed, verified : BOOLEAN]

\* A new token has no redeemer.
LEMMA MintKeeps ==
    ASSUME MailInv, NEW w \in Windows, NEW kind \in {"verify", "reset"}, Mint(w, kind),
           view[w].route \in {"signup", "forgot"}, request[w].state # "answered",
           account' \in AccountRow, account'.exists, account.verified => account'.verified,
           UNCHANGED <<view, written>>
    PROVE  MailInv'
<1>1. /\ links' = Append(links, Link(kind)) /\ Len(links) \in Nat /\ Len(links') = Len(links) + 1
      /\ links \in Seq(LinkRow) /\ Link(kind) \in LinkRow
  BY DEF Mint, MailInv, MailTypes, Link, LinkRow
<1>2. /\ links' \in Seq(LinkRow) /\ DOMAIN links' = 1..(Len(links) + 1)
      /\ DOMAIN links = 1..Len(links)
      /\ \A l \in DOMAIN links : links'[l] = links[l]
      /\ links'[Len(links) + 1] = Link(kind)
  BY <1>1
<1>3. request' = [request EXCEPT ![w] = Mailing(Len(links) + 1)]
  BY <1>1 DEF Mint
<1>4. Mailing(Len(links) + 1) \in RequestRow
  BY <1>1 DEF Mailing, RequestRow
<1>5. MailTypes'
  <2>1. request' \in [Windows -> RequestRow]
    BY <1>3, <1>4 DEF MailInv, MailTypes
  <2> QED  BY <1>2, <2>1 DEF MailInv, MailTypes, AccountRow
<1>6. AccountFirst'
  BY DEF AccountFirst
<1>7. ASSUME NEW v \in Windows  PROVE GoodPage(view[v], request[v])'
  <2>1. CASE v = w
    <3>1. request'[v] = Mailing(Len(links) + 1)
      BY <1>3, <2>1 DEF MailInv, MailTypes
    <3>2. view'[v] = view[v] /\ GoodPage(view[v], request[v]) /\ view[v] \in PageRow
      BY PagesOfMail
    <3> QED  BY <1>1, <1>2, <2>1, <3>1, <3>2
             DEF GoodPage, Fits, Succeeds, Truth, Mailing, PageRow, MailInv, MailTypes
  <2>2. CASE v # w
    <3>1. request'[v] = request[v] /\ view'[v] = view[v]
      BY <1>3, <2>2 DEF MailInv, MailTypes
    <3>2. GoodPage(view[v], request[v])
      BY DEF MailInv
    <3> QED  BY <1>1, <1>2, <3>1, <3>2 DEF GoodPage, Fits, Succeeds, Truth
  <2> QED  BY <2>1, <2>2
<1>8. ASSUME NEW l \in DOMAIN links'  PROVE SingleRedeemer(l)'
  <2>1. Redeeming(l)' \subseteq Redeeming(l)
    BY <1>3 DEF Redeeming, Mailing, MailInv, MailTypes
  <2>2. CASE l \in DOMAIN links
    BY <1>2, <2>1, <2>2 DEF MailInv, SingleRedeemer
  <2>3. CASE l = Len(links) + 1
    <3>1. Redeeming(l) = {}
      BY <1>1, <2>3, PagesOfMail DEF Redeeming, GoodPage, Fits
    <3> QED  BY <1>2, <2>1, <2>3, <3>1 DEF SingleRedeemer, Link
  <2> QED  BY <1>1, <1>2, <2>2, <2>3
<1> QED  BY <1>5, <1>6, <1>7, <1>8 DEF MailInv

LEMMA SignupInsertsKeeps ==
    ASSUME MailInv, NEW w \in Windows, SignupInserts(w)  PROVE MailInv'
<1>1. CASE account.exists
  BY <1>1, RefuseKeeps DEF SignupInserts, On
<1>2. CASE ~account.exists
  <2>1. /\ account' = [exists |-> TRUE, password |-> view[w].first, verified |-> FALSE]
        /\ Mint(w, "verify") /\ UNCHANGED <<view, written>>
        /\ view[w].route \in {"signup", "forgot"} /\ request[w].state # "answered"
    BY <1>2 DEF SignupInserts, On
  <2>2. account' \in AccountRow /\ account'.exists
    BY <2>1, PagesOfMail DEF AccountRow, PageRow
  <2>3. ~account.verified
    BY <1>2 DEF MailInv, AccountFirst
  <2> QED  BY <2>1, <2>2, <2>3, MintKeeps
<1> QED  BY <1>1, <1>2

LEMMA ForgotInsertsKeeps ==
    ASSUME MailInv, NEW w \in Windows, ForgotInserts(w)  PROVE MailInv'
<1>1. CASE account.exists
  <2>1. account \in AccountRow
    BY DEF MailInv, MailTypes, AccountRow
  <2> QED  BY <1>1, <2>1, MintKeeps DEF ForgotInserts, On
<1>2. CASE ~account.exists
  BY <1>2, RefuseKeeps DEF ForgotInserts, On, Truth
<1> QED  BY <1>1, <1>2

\* A handler changes the row of one token and goes on, or answers.
LEMMA TokenStep ==
    ASSUME MailInv, NEW w \in Windows, NEW R \in RequestRow,
           NEW l \in DOMAIN links, NEW row \in LinkRow,
           links' = [links EXCEPT ![l] = row], request' = [request EXCEPT ![w] = R],
           account' \in AccountRow, account'.exists = account.exists,
           account.verified => account'.verified,
           written \subseteq written', UNCHANGED view,
           GoodPage(view[w], R)',
           R.state = "checked" => view[w].link = l,
           SingleRedeemer(l)'
    PROVE  MailInv'
<1>1. /\ links' \in Seq(LinkRow) /\ DOMAIN links' = DOMAIN links /\ Len(links') = Len(links)
      /\ \A k \in DOMAIN links : links'[k] = IF k = l THEN row ELSE links[k]
  BY DEF MailInv, MailTypes
<1>2. MailTypes'
  <2>1. request' \in [Windows -> RequestRow]
    BY DEF MailInv, MailTypes
  <2> QED  BY <1>1, <2>1 DEF MailInv, MailTypes, AccountRow
<1>3. AccountFirst'
  <2>1. links # <<>>
    OBVIOUS
  <2>2. account.exists
    BY <2>1 DEF MailInv, AccountFirst
  <2> QED  BY <2>2 DEF AccountFirst
<1>4. ASSUME NEW v \in Windows  PROVE GoodPage(view[v], request[v])'
  <2>1. CASE v = w
    <3>1. request'[v] = R
      BY <2>1 DEF MailInv, MailTypes
    <3> QED  BY <2>1, <3>1
  <2>2. CASE v # w
    <3>1. request'[v] = request[v] /\ GoodPage(view[v], request[v])
      BY <2>2 DEF MailInv, MailTypes
    <3> QED  BY <1>1, <3>1 DEF GoodPage, Fits, Succeeds, Truth
  <2> QED  BY <2>1, <2>2
<1>5. ASSUME NEW k \in DOMAIN links  PROVE SingleRedeemer(k)'
  <2>1. CASE k = l
    BY <2>1
  <2>2. CASE k # l
    <3>1. Redeeming(k)' \subseteq Redeeming(k)
      BY <2>2 DEF Redeeming, MailInv, MailTypes
    <3> QED  BY <1>1, <2>2, <3>1 DEF MailInv, SingleRedeemer
  <2> QED  BY <2>1, <2>2
<1> QED  BY <1>1, <1>2, <1>3, <1>4, <1>5 DEF MailInv

LEMMA AccountOfMail == MailInv => account \in AccountRow
BY DEF MailInv, MailTypes, AccountRow

LEMMA LinkExpiresKeeps ==
    ASSUME MailInv, LinkExpires  PROVE MailInv'
<1>1. PICK l \in DOMAIN links : links' = [links EXCEPT ![l].expired = TRUE]
  BY DEF LinkExpires
<1> DEFINE row == [links[l] EXCEPT !.expired = TRUE]
<1>2. row \in LinkRow /\ row.used = links[l].used /\ row.uses = links[l].uses
      /\ row.overlapped = links[l].overlapped
  BY TokensOfMail DEF LinkRow
<1>3. links' = [links EXCEPT ![l] = row]
  BY <1>1
<1> HIDE DEF row
<1>4. /\ links' \in Seq(LinkRow) /\ DOMAIN links' = DOMAIN links /\ Len(links') = Len(links)
      /\ \A k \in DOMAIN links : links'[k] = IF k = l THEN row ELSE links[k]
  BY <1>2, <1>3 DEF MailInv, MailTypes
<1>5. UNCHANGED <<account, view, request, written>> /\ links # <<>>
  BY DEF LinkExpires
<1>6. \A k \in DOMAIN links : SingleRedeemer(k)'
  BY <1>2, <1>4, <1>5 DEF MailInv, SingleRedeemer, Redeeming
<1>7. \A v \in Windows : GoodPage(view[v], request[v])'
  BY <1>4, <1>5 DEF MailInv, GoodPage, Fits, Succeeds, Truth
<1> QED  BY <1>4, <1>5, <1>6, <1>7 DEF MailInv, MailTypes, AccountFirst

LEMMA SendMailKeeps ==
    ASSUME MailInv, NEW w \in Windows, SendMail(w)  PROVE MailInv'
<1>0. PICK l \in DOMAIN links : l = request[w].link
  BY PagesOfMail DEF SendMail, GoodPage, Fits
<1> DEFINE row == [links[l] EXCEPT !.mailed = TRUE]
<1>1. /\ view[w].route \in {"signup", "forgot"}
      /\ request[w].state = "mailing" /\ links # <<>>
  BY PagesOfMail DEF SendMail, GoodPage, Fits
<1>2. account.exists
  BY <1>1 DEF MailInv, AccountFirst
<1>3. CASE UNCHANGED links
  BY <1>1, <1>2, <1>3, RefuseKeeps DEF SendMail, Truth
<1>4. CASE links' = [links EXCEPT ![request[w].link].mailed = TRUE] /\ Reply(w, "done")
  <2>1. row \in LinkRow /\ row.used = links[l].used /\ row.uses = links[l].uses
        /\ row.overlapped = links[l].overlapped
    BY TokensOfMail DEF LinkRow
  <2>2. links' = [links EXCEPT ![l] = row] /\ request' = [request EXCEPT ![w] = Replied("done")]
    BY <1>0, <1>4 DEF Reply
  <2>3. /\ links'[l] = row /\ Len(links') = Len(links) /\ UNCHANGED <<account, view, written>>
    BY <1>1, <2>2 DEF SendMail, MailInv, MailTypes
  <2>4. SingleRedeemer(l)'
    <3>1. Redeeming(l)' \subseteq Redeeming(l)
      BY <2>2, <2>3 DEF Redeeming, Replied, MailInv, MailTypes
    <3> HIDE DEF row
    <3> QED  BY <1>1, <2>1, <2>3, <3>1 DEF MailInv, SingleRedeemer
  <2>5. GoodPage(view[w], Replied("done"))'
    <3>1. GoodPage(view[w], request[w])
      BY PagesOfMail
    <3> QED  BY <1>1, <1>2, <2>3, <3>1 DEF GoodPage, Fits, Succeeds, Truth, Replied
  <2>6. Replied("done") \in RequestRow /\ Replied("done").state # "checked"
    BY DEF Replied, RequestRow
  <2> HIDE DEF row
  <2> QED  BY <1>1, <2>1, <2>2, <2>3, <2>4, <2>5, <2>6, AccountOfMail, TokenStep
<1> QED  BY <1>3, <1>4 DEF SendMail

\* A second request that finds a token live marks it.
LEMMA CheckLinkKeeps ==
    ASSUME MailInv, NEW w \in Windows, CheckLink(w)  PROVE MailInv'
<1>0. PICK l \in DOMAIN links : l = view[w].link
  BY PagesOfMail DEF CheckLink, GoodPage, Fits, MailInv, MailTypes
<1>1. PICK R : R = [request[w] EXCEPT !.state = "checked"]
  OBVIOUS
<1> DEFINE row == [links[l] EXCEPT !.overlapped = @ \/ Redeeming(l) # {}]
<1>2. view[w].route \in {"reset", "verify"} /\ request[w].state = "sent"
  BY PagesOfMail DEF CheckLink, GoodPage, Fits, MailInv, MailTypes
<1>3. CASE ~Live(l)
  <2>1. Refuse(w) /\ UNCHANGED <<account, links, view, written>>
    BY <1>0, <1>3 DEF CheckLink
  <2> QED  BY <1>2, <2>1, RefuseKeeps DEF Refuse
<1>4. CASE Live(l)
  <2>1. row \in LinkRow /\ row.used = links[l].used /\ row.uses = links[l].uses
        /\ (row.overlapped <=> links[l].overlapped \/ Redeeming(l) # {})
    BY TokensOfMail DEF LinkRow
  <2>2. /\ links' = [links EXCEPT ![l] = row] /\ request' = [request EXCEPT ![w] = R]
        /\ UNCHANGED <<account, view, written>>
    BY <1>0, <1>1, <1>4 DEF CheckLink, Goes
  <2>3. links'[l] = row /\ Len(links') = Len(links)
    BY <1>2, <2>2 DEF MailInv, MailTypes
  <2>4. R \in RequestRow /\ R.state = "checked"
    BY <1>1, PagesOfMail DEF RequestRow
  <2>5. GoodPage(view[w], R)'
    <3>1. GoodPage(view[w], request[w]) /\ request[w] \in RequestRow
      BY PagesOfMail
    <3> QED  BY <1>0, <1>1, <1>2, <2>2, <2>3, <3>1 DEF GoodPage, Fits, Succeeds, Truth, RequestRow
  <2>6. SingleRedeemer(l)'
    <3>1. Redeeming(l)' \subseteq Redeeming(l) \cup {w}
      BY <2>2 DEF Redeeming, MailInv, MailTypes
    <3>2. links[l].uses = 0 /\ ~links[l].used /\ links[l] \in LinkRow
      BY <1>4, TokensOfMail DEF Live, LinkRow, MailInv, SingleRedeemer
    <3> HIDE DEF row
    <3> QED  BY <2>1, <2>3, <3>1, <3>2 DEF SingleRedeemer
  <2> HIDE DEF row
  <2> QED  BY <1>0, <1>2, <2>1, <2>2, <2>4, <2>5, <2>6, AccountOfMail, TokenStep
<1> QED  BY <1>3, <1>4

LEMMA RedeemLinkKeeps ==
    ASSUME MailInv, NEW w \in Windows, RedeemLink(w)  PROVE MailInv'
<1>0. PICK l \in DOMAIN links : l = view[w].link
  BY PagesOfMail DEF RedeemLink, GoodPage, Fits, MailInv, MailTypes
<1> DEFINE row == [links[l] EXCEPT !.used = TRUE, !.uses = @ + 1]
<1>1. view[w].route \in {"reset", "verify"} /\ request[w].state = "checked"
  BY PagesOfMail DEF RedeemLink, GoodPage, Fits, MailInv, MailTypes
<1>2. links[l] \in LinkRow
  BY TokensOfMail
<1>3. row \in LinkRow /\ row.used = TRUE /\ row.uses = links[l].uses + 1
      /\ row.overlapped = links[l].overlapped
  <2> DEFINE marked == [links[l] EXCEPT !.used = TRUE]
  <2>1. marked \in LinkRow /\ marked.used = TRUE /\ marked.uses = links[l].uses
        /\ marked.overlapped = links[l].overlapped
    BY <1>2 DEF LinkRow
  <2>2. row = [marked EXCEPT !.uses = marked.uses + 1]
    OBVIOUS
  <2> HIDE DEF marked, row
  <2> QED  BY <2>1, <2>2 DEF LinkRow
<1>4. /\ links' = [links EXCEPT ![l] = row] /\ request' = [request EXCEPT ![w] = Replied("done")]
      /\ UNCHANGED view
  BY <1>0 DEF RedeemLink, Reply
<1>5. links'[l] = row /\ Len(links') = Len(links)
  BY <1>1, <1>4 DEF MailInv, MailTypes
<1>6. /\ account' \in AccountRow /\ account'.exists = account.exists
      /\ account.verified => account'.verified
      /\ written \subseteq written'
  BY AccountOfMail, PagesOfMail DEF RedeemLink, AccountRow, PageRow
<1>7. /\ view[w].route = "verify" => account'.verified
      /\ view[w].route = "reset" => <<l, view[w].first>> \in written'
  BY <1>0, AccountOfMail DEF RedeemLink, AccountRow
<1>8. GoodPage(view[w], Replied("done"))'
  <2>1. GoodPage(view[w], request[w])
    BY PagesOfMail
  <2> QED  BY <1>0, <1>1, <1>4, <1>5, <1>7, <2>1 DEF GoodPage, Fits, Succeeds, Truth, Replied
<1>9. SingleRedeemer(l)'
  <2>1. Redeeming(l)' = Redeeming(l) \ {w} /\ w \in Redeeming(l)
    BY <1>0, <1>1, <1>4 DEF Redeeming, Replied, MailInv, MailTypes
  <2>2. SingleRedeemer(l) /\ links[l].uses \in Nat
    BY <1>2 DEF MailInv, LinkRow
  <2> HIDE DEF row
  <2> QED  BY <1>3, <1>5, <2>1, <2>2 DEF SingleRedeemer
<1>10. Replied("done") \in RequestRow /\ Replied("done").state # "checked"
  BY DEF Replied, RequestRow
<1> HIDE DEF row
<1> QED  BY <1>0, <1>1, <1>3, <1>4, <1>6, <1>8, <1>9, <1>10, TokenStep

-----------------------------------------------------------------------------
LEMMA MailInvInit == MailInit => MailInv
<1> SUFFICES ASSUME MailInit  PROVE MailInv
  OBVIOUS
<1>1. links = <<>>
  BY DEF MailInit
<1>2. DOMAIN links = {} /\ Len(links) = 0 /\ links \in Seq(LinkRow)
  BY <1>1
<1>3. account \in [exists : BOOLEAN, password : Typed, verified : BOOLEAN] /\ ~account.verified
  BY DEF MailInit, Typed
<1>4. Page("away", 0) \in PageRow /\ NoRequest \in RequestRow
  BY DEF Page, NoRequest, PageRow, RequestRow, Typed
<1>5. view \in [Windows -> PageRow] /\ request \in [Windows -> RequestRow]
  BY <1>4 DEF MailInit
<1>6. GoodPage(Page("away", 0), NoRequest)
  BY <1>2 DEF GoodPage, Fits, Succeeds, Page, NoRequest
<1>7. \A w \in Windows : GoodPage(view[w], request[w])
  BY <1>6 DEF MailInit
<1> QED  BY <1>1, <1>2, <1>3, <1>5, <1>7 DEF MailInv, MailTypes, AccountFirst

LEMMA MailInvStep == MailInv /\ [MailStep]_mailVars => MailInv'
<1> SUFFICES ASSUME MailInv, [MailStep]_mailVars  PROVE MailInv'
  OBVIOUS
<1>1. CASE UNCHANGED mailVars
  BY <1>1 DEF mailVars, MailInv, MailTypes, AccountFirst, GoodPage, Fits, Succeeds, Truth,
              SingleRedeemer, Redeeming
<1>2. CASE MailStep
  BY <1>2, OpenPageKeeps, SubmitKeeps, PageAgesKeeps, VerifyAgainKeeps, ToldKeeps, LoseKeeps,
     SignupLooksKeeps, SignupInsertsKeeps, ForgotInsertsKeeps, SendMailKeeps, CheckLinkKeeps,
     RedeemLinkKeeps, TurnedAwayKeeps, LinkExpiresKeeps DEF MailStep
<1> QED  BY <1>1, <1>2
-----------------------------------------------------------------------------
\* What the operators of a tab keep.
LEMMA RefetchKeeps ==
    ASSUME cookie \in BOOLEAN, NEW T, NEW m \in Nat, GoodTab(T, cookie, m)
    PROVE  GoodTab(Refetch(T), cookie, m) /\ Refetch(T).at = T.at
<1>1. CASE T.fetch.state = "idle" /\ T.entry.stale
  <2>1. Refetch(T) = [T EXCEPT !.fetch = AskSession]
    BY <1>1 DEF Refetch
  <2>2. AskSession \in FetchRow /\ AskSession.in = cookie
    BY DEF AskSession, FetchRow
  <2> HIDE DEF AskSession
  <2> QED  BY <2>1, <2>2 DEF GoodTab, TabRow
<1>2. CASE ~(T.fetch.state = "idle" /\ T.entry.stale)
  BY <1>2 DEF Refetch
<1> QED  BY <1>1, <1>2

LEMMA AtLoginKeeps ==
    ASSUME cookie \in BOOLEAN, NEW T, NEW m \in Nat, GoodTab(T, cookie, m)
    PROVE  GoodTab(AtLogin(T), cookie, m) /\ AtLogin(T).at = "login"
<1> DEFINE there == [T EXCEPT !.at = "login", !.needs = FALSE, !.step = "idle", !.shown = 0]
<1>1. GoodTab(there, cookie, m) /\ there.at = "login"
  <2>1. T \in TabRow
    BY DEF GoodTab
  <2>2. /\ there.at = "login" /\ there.step = "idle" /\ there.shown = 0 /\ there.left = T.left
        /\ there.entry = T.entry /\ there.fetch = T.fetch
    BY <2>1 DEF TabRow
  <2>3. there \in TabRow
    BY <2>1 DEF TabRow
  <2> HIDE DEF there
  <2> QED  BY <2>2, <2>3 DEF GoodTab
<1> HIDE DEF there
<1>2. GoodTab(Refetch(there), cookie, m) /\ Refetch(there).at = "login"
  BY <1>1, RefetchKeeps
<1> QED  BY <1>2 DEF AtLogin, there

LEMMA AtAppKeeps ==
    ASSUME cookie \in BOOLEAN, NEW T, NEW m \in Nat, GoodTab(T, cookie, m)
    PROVE  GoodTab(AtApp(T), cookie, m) /\ AtApp(T).at = "app"
<1> DEFINE ask == IF ~T.courses /\ T.ask = "none" THEN Ask ELSE T.ask
           there == [T EXCEPT !.at = "app", !.step = "idle", !.shown = 0, !.ask = ask]
<1>1. ask \in {"none", "signed", "unsigned"}
  BY DEF GoodTab, TabRow, Ask
<1> HIDE DEF ask
<1>2. GoodTab(there, cookie, m) /\ there.at = "app"
  <2>1. T \in TabRow
    BY DEF GoodTab
  <2>2. /\ there.at = "app" /\ there.step = "idle" /\ there.shown = 0 /\ there.left = T.left
        /\ there.entry = T.entry /\ there.fetch = T.fetch
    BY <2>1 DEF TabRow
  <2>3. there \in TabRow
    BY <1>1, <2>1 DEF TabRow
  <2> HIDE DEF there
  <2> QED  BY <2>2, <2>3 DEF GoodTab
<1>3. AtApp(T) = Refetch(there)
  BY DEF AtApp, ask
<1> HIDE DEF there
<1> QED  BY <1>2, <1>3, RefetchKeeps

LEMMA RefusedKeeps ==
    ASSUME cookie \in BOOLEAN, NEW T, NEW m \in Nat, GoodTab(T, cookie, m)
    PROVE  /\ GoodTab(Refused(T), cookie, m)
           /\ Refused(T).at = IF T.at = "app" THEN "login" ELSE T.at
<1> DEFINE B == [T EXCEPT !.bounced = TRUE]
<1>1. GoodTab(B, cookie, m)
  BY DEF GoodTab, TabRow
<1> HIDE DEF B
<1>2. GoodTab(AtLogin(B), cookie, m) /\ AtLogin(B).at = "login"
  BY <1>1, AtLoginKeeps
<1> QED  BY <1>2 DEF Refused, B

\* And what a tab's calls keep: taken from the card, one of them answered, or over.
Away(t) == [h \in Hooks |-> IF sent[t][h].state = "none" THEN NoCall
                            ELSE [sent[t][h] EXCEPT !.live = FALSE]]

LEMMA TabOfGate ==
    ASSUME GateInv, NEW t \in Tabs
    PROVE  /\ cookie \in BOOLEAN /\ minted \in Nat
           /\ GoodTab(tab[t], cookie, minted) /\ GoodCalls(sent[t], tab[t].at, minted)
           /\ tab = [tab EXCEPT ![t] = tab[t]] /\ sent = [sent EXCEPT ![t] = sent[t]]
BY DEF GateInv

LEMMA CallOfGate ==
    ASSUME GateInv, NEW t \in Tabs, NEW h \in Hooks, sent[t][h].state # "none"
    PROVE  sent[t][h] \in CallRow /\ sent[t][h] # NoCall
<1>1. sent[t][h] \in CallRow \cup {NoCall}
  BY DEF GateInv, Calls
<1> QED  BY <1>1 DEF NoCall

LEMMA AwayKeeps ==
    ASSUME GateInv, NEW t \in Tabs, NEW at
    PROVE  /\ GoodCalls(Away(t), at, minted)
           /\ Detached(t) = [sent EXCEPT ![t] = Away(t)]
           /\ Away(t)["enable"].state = sent[t]["enable"].state
<1>1. ASSUME NEW h \in Hooks
      PROVE  /\ Away(t)[h] \in CallRow \cup {NoCall} /\ GoodCall(Away(t)[h], h, at, minted)
             /\ Away(t)[h].state = sent[t][h].state
  <2>1. CASE sent[t][h].state = "none"
    BY <2>1 DEF Away, GoodCall, NoCall
  <2>2. CASE sent[t][h].state # "none"
    <3>1. PICK call \in CallRow : call = sent[t][h]
      BY <2>2, CallOfGate
    <3>2. Away(t)[h] = [call EXCEPT !.live = FALSE]
      BY <2>2, <3>1 DEF Away
    <3>3. call # NoCall /\ GoodCall(call, h, tab[t].at, minted)
      BY <2>2, <3>1, CallOfGate DEF GateInv, GoodCalls
    <3> QED  BY <3>1, <3>2, <3>3 DEF GoodCall, CallRow
  <2> QED  BY <2>1, <2>2
<1>2. "enable" \in Hooks /\ Away(t) = [h \in Hooks |-> Away(t)[h]]
  BY DEF Hooks, Away
<1> QED  BY <1>1, <1>2 DEF GoodCalls, Calls, Detached, Away

LEMMA CallChanges ==
    ASSUME NEW calls, NEW at, NEW m, GoodCalls(calls, at, m), NEW hook \in Hooks,
           NEW call \in CallRow \cup {NoCall}, GoodCall(call, hook, at, m)
    PROVE  /\ GoodCalls([calls EXCEPT ![hook] = call], at, m)
           /\ hook # "enable" => [calls EXCEPT ![hook] = call]["enable"] = calls["enable"]
           /\ hook = "enable" => [calls EXCEPT ![hook] = call]["enable"] = call
BY DEF GoodCalls, Calls, Hooks

-----------------------------------------------------------------------------
Calling(t, calls) == sent' = [sent EXCEPT ![t] = calls]

\* A step of one tab, of its calls and of the server.
LEMMA GateKeeps ==
    ASSUME GateInv, NEW t \in Tabs, NEW calls,
           cookie' \in BOOLEAN, crossed' \in BOOLEAN, minted' \in Nat, minted <= minted',
           totp' \in [enabled : BOOLEAN, secret : 0..minted'], confirmed' \subseteq 1..minted',
           tab' \in [Tabs -> TabRow], \A s \in Tabs : GoodTab(tab'[s], cookie', minted'),
           \A s \in Tabs : s # t => tab'[s].at = tab[s].at,
           Calling(t, calls), GoodCalls(calls, tab'[t].at, minted'),
           Paired'
    PROVE  GateInv'
<1>1. sent' \in [Tabs -> Calls] /\ \A s \in Tabs : sent'[s] = IF s = t THEN calls ELSE sent[s]
  BY DEF GateInv, GoodCalls, Calling
<1>2. ASSUME NEW s \in Tabs  PROVE GoodCalls(sent'[s], tab'[s].at, minted')
  <2>1. CASE s = t
    BY <1>1, <2>1
  <2>2. CASE s # t
    <3>1. sent'[s] = sent[s] /\ tab'[s].at = tab[s].at
      BY <1>1, <2>2
    <3>2. GoodCalls(sent[s], tab[s].at, minted) /\ minted \in Nat
      BY DEF GateInv
    <3>3. ASSUME NEW h \in Hooks  PROVE GoodCall(sent[s][h], h, tab[s].at, minted')
      <4>1. GoodCall(sent[s][h], h, tab[s].at, minted)
        BY <3>2 DEF GoodCalls
      <4>2. 1..minted \subseteq 1..minted'
        BY <3>2
      <4> QED  BY <4>1, <4>2 DEF GoodCall
    <3> QED  BY <3>1, <3>2, <3>3 DEF GoodCalls
  <2> QED  BY <2>1, <2>2
<1>3. (\A s \in Tabs : GoodTab(tab[s], cookie, minted) /\ GoodCalls(sent[s], tab[s].at, minted))'
  BY <1>2
<1> QED  BY <1>1, <1>3 DEF GateInv

\* A step that leaves the secret alone, and finds no code right.
LEMMA StillPaired ==
    ASSUME GateInv, NEW t \in Tabs, NEW calls, Calling(t, calls),
           calls["enable"].state = "checked" => sent[t]["enable"].state = "checked",
           UNCHANGED <<totp, crossed, confirmed>>
    PROVE  Paired'
<1>1. Checked({"enable"})' => Checked({"enable"})
  <2>1. \A s \in Tabs : sent'[s] = IF s = t THEN calls ELSE sent[s]
    BY DEF GateInv, Calling
  <2> QED  BY <2>1 DEF Checked
<1> QED  BY <1>1 DEF GateInv, Paired

LEMMA TabChanges ==
    ASSUME GateInv, NEW t \in Tabs, NEW T, NEW calls, cookie' \in BOOLEAN, cookie' => cookie,
           Become(t, T), GoodTab(T, cookie', minted),
           Calling(t, calls), GoodCalls(calls, T.at, minted),
           calls["enable"].state = "checked" => sent[t]["enable"].state = "checked",
           totp' = totp, minted' = minted, confirmed' = confirmed, crossed' = crossed
    PROVE  GateInv'
<1>1. Paired'
  BY StillPaired
<1>2. tab' \in [Tabs -> TabRow] /\ \A s \in Tabs : tab'[s] = IF s = t THEN T ELSE tab[s]
  BY DEF GateInv, GoodTab, Become
<1>3. ASSUME NEW s \in Tabs  PROVE GoodTab(tab'[s], cookie', minted)
  <2>1. GoodTab(tab[s], cookie, minted)
    BY DEF GateInv
  <2>2. GoodTab(tab[s], cookie', minted)
    BY <2>1 DEF GoodTab
  <2> QED  BY <1>2, <2>2
<1>4. /\ minted \in Nat /\ crossed \in BOOLEAN
      /\ totp \in [enabled : BOOLEAN, secret : 0..minted] /\ confirmed \subseteq 1..minted
  BY DEF GateInv
<1>5. minted' \in Nat /\ minted <= minted' /\ crossed' \in BOOLEAN
      /\ totp' \in [enabled : BOOLEAN, secret : 0..minted'] /\ confirmed' \subseteq 1..minted'
  BY <1>4
<1>6. GoodCalls(calls, tab'[t].at, minted')
  BY <1>2
<1>7. \A s \in Tabs : GoodTab(tab'[s], cookie', minted')
  BY <1>3
<1>8. \A s \in Tabs : s # t => tab'[s].at = tab[s].at
  BY <1>2
<1> QED  BY <1>1, <1>2, <1>5, <1>6, <1>7, <1>8, GateKeeps

\* A step of the page and its calls, and one of the page alone.
LEMMA CardChanges ==
    ASSUME GateInv, NEW t \in Tabs, NEW T, NEW calls, Become(t, T), GoodTab(T, cookie, minted),
           Calling(t, calls), GoodCalls(calls, T.at, minted),
           calls["enable"].state = "checked" => sent[t]["enable"].state = "checked",
           UNCHANGED <<cookie, totp, minted, confirmed, crossed>>
    PROVE  GateInv'
<1>1. GoodTab(T, cookie', minted) /\ (cookie' => cookie)
  OBVIOUS
<1>2. cookie' \in BOOLEAN
  BY TabOfGate
<1>3. totp' = totp /\ minted' = minted /\ confirmed' = confirmed /\ crossed' = crossed
  OBVIOUS
<1> QED  BY <1>1, <1>2, <1>3, TabChanges

LEMMA PageChanges ==
    ASSUME GateInv, NEW t \in Tabs, NEW T, Become(t, T), GoodTab(T, cookie, minted),
           T.at = tab[t].at, UNCHANGED <<cookie, totp, minted, sent, confirmed, crossed>>
    PROVE  GateInv'
<1>1. Calling(t, sent[t]) /\ GoodCalls(sent[t], T.at, minted)
  BY TabOfGate DEF Calling
<1> QED  BY <1>1, CardChanges

-----------------------------------------------------------------------------
LEMMA RendersKeeps ==
    ASSUME GateInv, NEW t \in Tabs, Renders(t)  PROVE GateInv'
<1>0. /\ cookie \in BOOLEAN /\ minted \in Nat /\ GoodTab(tab[t], cookie, minted)
      /\ GoodCalls(sent[t], tab[t].at, minted) /\ sent = [sent EXCEPT ![t] = sent[t]]
  BY TabOfGate
<1>1. CASE LetIn(t)
  <2>1. GoodTab(AtApp(tab[t]), cookie, minted) /\ AtApp(tab[t]).at = "app"
    BY <1>0, AtAppKeeps
  <2>2. GoodCalls(sent[t], "app", minted)
    BY <1>0 DEF GoodCalls, GoodCall
  <2> QED  BY <1>0, <1>1, <2>1, <2>2, CardChanges DEF LetIn, Calling
<1>2. CASE KeepOut(t)
  <2>1. GoodTab(AtLogin(tab[t]), cookie, minted) /\ AtLogin(tab[t]).at = "login"
    BY <1>0, AtLoginKeeps
  <2> QED  BY <1>2, <2>1, AwayKeeps, CardChanges DEF KeepOut, Calling
<1> QED  BY <1>1, <1>2 DEF Renders

LEMMA SessionKeeps ==
    ASSUME GateInv, NEW t \in Tabs, AnswerSession(t) \/ FillSession(t) \/ LoseSession(t)
    PROVE  GateInv'
<1>0. cookie \in BOOLEAN /\ minted \in Nat /\ GoodTab(tab[t], cookie, minted)
  BY TabOfGate
<1>1. CASE AnswerSession(t)
  <2>1. PICK readable \in BOOLEAN :
          Become(t, [tab[t] EXCEPT !.fetch.state = "answered",
                                   !.fetch.on = Required(TotpState(readable))])
    BY <1>1 DEF AnswerSession
  <2>2. PICK on \in BOOLEAN : on = Required(TotpState(readable))
    BY DEF Required
  <2> DEFINE F == [tab[t].fetch EXCEPT !.state = "answered", !.on = on]
             T == [tab[t] EXCEPT !.fetch = F]
  <2>3. F \in FetchRow /\ F.in = tab[t].fetch.in
    BY <1>0 DEF GoodTab, TabRow, FetchRow
  <2>4. Become(t, T)
    BY <1>0, <2>1, <2>2 DEF GoodTab, TabRow, FetchRow
  <2> HIDE DEF F
  <2>5. GoodTab(T, cookie, minted) /\ T.at = tab[t].at
    BY <1>0, <2>3 DEF GoodTab, TabRow
  <2> QED  BY <1>1, <2>4, <2>5, PageChanges DEF AnswerSession
<1>2. CASE FillSession(t)
  <2> DEFINE E == Session(tab[t].fetch.in, tab[t].fetch.on)
             T == [tab[t] EXCEPT !.entry = E, !.fetch = NoFetch]
  <2>1. E \in EntryRow /\ (E.known = "in" => tab[t].fetch.in)
    BY <1>0 DEF GoodTab, TabRow, FetchRow, EntryRow, Session
  <2>2. NoFetch \in FetchRow /\ ~NoFetch.in
    BY DEF NoFetch, FetchRow
  <2> HIDE DEF E, NoFetch
  <2>3. GoodTab(T, cookie, minted) /\ T.at = tab[t].at
    BY <1>0, <2>1, <2>2 DEF GoodTab, TabRow
  <2> QED  BY <1>2, <2>3, PageChanges DEF FillSession, E
<1>3. CASE LoseSession(t)
  <2> DEFINE E == [tab[t].entry EXCEPT !.stale = TRUE,
                                       !.known = IF @ = "none" THEN "failed" ELSE @]
             T == [tab[t] EXCEPT !.fetch = NoFetch, !.entry = E]
  <2>1. E \in EntryRow /\ (E.known = "in" => tab[t].entry.known = "in")
    BY <1>0 DEF GoodTab, TabRow, EntryRow
  <2>2. NoFetch \in FetchRow /\ ~NoFetch.in
    BY DEF NoFetch, FetchRow
  <2>3. Become(t, T)
    BY <1>0, <1>3 DEF LoseSession, GoodTab, TabRow
  <2> HIDE DEF E, NoFetch
  <2>4. GoodTab(T, cookie, minted) /\ T.at = tab[t].at
    BY <1>0, <2>1, <2>2 DEF GoodTab, TabRow
  <2> QED  BY <1>3, <2>3, <2>4, PageChanges DEF LoseSession
<1> QED  BY <1>1, <1>2, <1>3

LEMMA AgesKeeps ==
    ASSUME GateInv, NEW t \in Tabs, SessionAges(t) \/ CoursesAge(t) \/ Focus(t) \/ Work(t)
    PROVE  GateInv'
<1>0. cookie \in BOOLEAN /\ minted \in Nat /\ GoodTab(tab[t], cookie, minted)
  BY TabOfGate
<1>1. CASE SessionAges(t)
  <2> DEFINE E == [tab[t].entry EXCEPT !.stale = TRUE]
             T == [tab[t] EXCEPT !.entry = E]
  <2>1. E \in EntryRow /\ E.known = tab[t].entry.known
    BY <1>0 DEF GoodTab, TabRow, EntryRow
  <2>2. Become(t, T)
    BY <1>1 DEF SessionAges
  <2> HIDE DEF E
  <2>3. GoodTab(T, cookie, minted) /\ T.at = tab[t].at
    BY <1>0, <2>1 DEF GoodTab, TabRow
  <2> QED  BY <1>1, <2>2, <2>3, PageChanges DEF SessionAges
<1>2. CASE CoursesAge(t)
  <2> DEFINE T == [tab[t] EXCEPT !.courses = FALSE]
  <2>1. GoodTab(T, cookie, minted) /\ T.at = tab[t].at
    BY <1>0 DEF GoodTab, TabRow
  <2> QED  BY <1>2, <2>1, PageChanges DEF CoursesAge
<1>3. CASE Focus(t)
  BY <1>0, <1>3, RefetchKeeps, PageChanges DEF Focus
<1>4. CASE Work(t)
  <2> DEFINE T == [tab[t] EXCEPT !.ask = Ask, !.bounced = FALSE]
  <2>1. Ask \in {"none", "signed", "unsigned"}
    BY DEF Ask
  <2> HIDE DEF Ask
  <2>2. GoodTab(T, cookie, minted) /\ T.at = tab[t].at
    BY <1>0, <2>1 DEF GoodTab, TabRow
  <2> QED  BY <1>4, <2>2, PageChanges DEF Work
<1> QED  BY <1>1, <1>2, <1>3, <1>4

LEMMA AnswerWorkKeeps ==
    ASSUME GateInv, NEW t \in Tabs, AnswerWork(t)  PROVE GateInv'
<1>0. cookie \in BOOLEAN /\ minted \in Nat /\ GoodTab(tab[t], cookie, minted)
  BY TabOfGate
<1>1. CASE Become(t, [tab[t] EXCEPT !.ask = "none", !.courses = TRUE]) /\ UNCHANGED sent
  <2> DEFINE T == [tab[t] EXCEPT !.ask = "none", !.courses = TRUE]
  <2>1. GoodTab(T, cookie, minted) /\ T.at = tab[t].at
    BY <1>0 DEF GoodTab, TabRow
  <2> QED  BY <1>1, <2>1, PageChanges DEF AnswerWork
<1>2. CASE /\ Become(t, Refused([tab[t] EXCEPT !.ask = "none"]))
           /\ sent' = IF tab[t].at = "app" THEN Detached(t) ELSE sent
  <2> DEFINE T == [tab[t] EXCEPT !.ask = "none"]
  <2>1. GoodTab(T, cookie, minted) /\ T.at = tab[t].at
    BY <1>0 DEF GoodTab, TabRow
  <2>2. Become(t, Refused(T)) /\ UNCHANGED <<cookie, totp, minted, confirmed, crossed>>
        /\ sent' = IF tab[t].at = "app" THEN Detached(t) ELSE sent
    BY <1>2 DEF AnswerWork
  <2> HIDE DEF T
  <2>3. GoodTab(Refused(T), cookie, minted)
        /\ Refused(T).at = IF tab[t].at = "app" THEN "login" ELSE tab[t].at
    BY <1>0, <2>1, RefusedKeeps
  <2>4. CASE tab[t].at = "app"
    BY <2>2, <2>3, <2>4, AwayKeeps, CardChanges DEF Calling
  <2>5. CASE tab[t].at # "app"
    BY <2>2, <2>3, <2>5, PageChanges
  <2> QED  BY <2>4, <2>5
<1> QED  BY <1>1, <1>2 DEF AnswerWork

LEMMA CookieExpiresKeeps ==
    ASSUME GateInv, CookieExpires  PROVE GateInv'
<1>1. /\ cookie' = FALSE
      /\ UNCHANGED <<totp, minted, tab, sent, confirmed, crossed>>
  BY DEF CookieExpires
<1>2. ASSUME NEW s \in Tabs  PROVE GoodTab(tab[s], FALSE, minted)
  <2>1. GoodTab(tab[s], cookie, minted)
    BY DEF GateInv
  <2> QED  BY <2>1 DEF GoodTab
<1>3. Paired'
  BY <1>1 DEF GateInv, Paired, Checked
<1> QED  BY <1>1, <1>2, <1>3 DEF GateInv

-----------------------------------------------------------------------------
-----------------------------------------------------------------------------
\* Forms.
LEMMA SendKeeps ==
    ASSUME GateInv, NEW t \in Tabs, NEW hook \in Hooks, NEW code \in Int, Send(t, hook, code),
           hook \in CardHooks => tab[t].at = "app"
    PROVE  GateInv'
<1> DEFINE T == [tab[t] EXCEPT !.bounced = FALSE]
           calls == [sent[t] EXCEPT ![hook] = Call(code)]
<1>0. /\ cookie \in BOOLEAN /\ minted \in Nat /\ GoodTab(tab[t], cookie, minted)
      /\ GoodCalls(sent[t], tab[t].at, minted)
  BY TabOfGate
<1>1. Become(t, T) /\ Calling(t, calls) /\ UNCHANGED <<cookie, totp, minted, confirmed, crossed>>
  BY DEF Send, Become, Calling
<1>2. GoodTab(T, cookie, minted) /\ T.at = tab[t].at
  BY <1>0 DEF GoodTab, TabRow
<1>3. /\ Call(code) \in CallRow /\ Call(code).answer = "none" /\ Call(code).state = "sent"
  BY <1>0 DEF Call, CallRow, Replies
<1>4. GoodCall(Call(code), hook, tab[t].at, minted)
  BY <1>3 DEF GoodCall
<1> HIDE DEF T, Call
<1>5. /\ GoodCalls(calls, T.at, minted)
      /\ calls["enable"].state = "checked" => sent[t]["enable"].state = "checked"
  BY <1>0, <1>2, <1>3, <1>4, CallChanges
<1> HIDE DEF calls
<1> QED  BY <1>1, <1>2, <1>5, CardChanges

LEMMA FormsKeep ==
    ASSUME GateInv, NEW t \in Tabs,
           SubmitLogin(t) \/ SubmitLogout(t) \/ StartSetup(t) \/ Confirm(t) \/ SwitchOff(t)
    PROVE  GateInv'
<1>0. /\ minted \in Nat /\ tab[t].shown \in Int
      /\ "login" \in Hooks /\ "logout" \in Hooks /\ "setup" \in Hooks
      /\ "enable" \in Hooks /\ "disable" \in Hooks
      /\ NoCode \in Int /\ Codes \subseteq Int
  BY TabOfGate DEF GoodTab, NoCode, Codes, Hooks
<1>1. CASE SubmitLogin(t)
  <2>1. PICK code \in Int : Send(t, "login", code)
    BY <1>0, <1>1 DEF SubmitLogin
  <2> QED  BY <1>0, <2>1, SendKeeps DEF CardHooks
<1>2. CASE SubmitLogout(t)
  BY <1>0, <1>2, SendKeeps DEF SubmitLogout, CardHooks
<1>3. CASE StartSetup(t)
  BY <1>0, <1>3, SendKeeps DEF StartSetup, ShowsApp
<1>4. CASE Confirm(t)
  <2>1. PICK code \in Int : Send(t, "enable", code) /\ tab[t].at = "app"
    BY <1>0, <1>4 DEF Confirm, ShowsApp
  <2> QED  BY <1>0, <2>1, SendKeeps
<1>5. CASE SwitchOff(t)
  <2>1. PICK code \in Int : Send(t, "disable", code) /\ tab[t].at = "app"
    BY <1>0, <1>5 DEF SwitchOff, ShowsApp
  <2> QED  BY <1>0, <2>1, SendKeeps
<1> QED  BY <1>1, <1>2, <1>3, <1>4, <1>5

LEMMA TurnCardKeeps ==
    ASSUME GateInv, NEW t \in Tabs, TurnCard(t)  PROVE GateInv'
<1>0. /\ cookie \in BOOLEAN /\ minted \in Nat /\ GoodTab(tab[t], cookie, minted)
      /\ tab[t].at = "app" /\ UNCHANGED <<cookie, totp, minted, sent, confirmed, crossed>>
  BY TabOfGate DEF TurnCard, ShowsApp
<1>1. ASSUME Become(t, [tab[t] EXCEPT !.step = "disable"])  PROVE GateInv'
  <2> DEFINE T == [tab[t] EXCEPT !.step = "disable"]
  <2>1. GoodTab(T, cookie, minted) /\ T.at = tab[t].at
    BY <1>0 DEF GoodTab, TabRow
  <2> HIDE DEF T
  <2> QED  BY <1>0, <1>1, <2>1, PageChanges DEF T
<1>2. ASSUME NEW shown \in {0, tab[t].shown},
             Become(t, [tab[t] EXCEPT !.step = "idle", !.shown = shown])
      PROVE  GateInv'
  <2> DEFINE T == [tab[t] EXCEPT !.step = "idle", !.shown = shown]
  <2>1. tab[t] \in TabRow /\ shown \in 0..minted /\ shown \in Nat
    BY <1>0 DEF GoodTab
  <2>2. /\ T.at = tab[t].at /\ T.step = "idle" /\ T.shown = shown /\ T.left = tab[t].left
        /\ T.entry = tab[t].entry /\ T.fetch = tab[t].fetch
    BY <2>1 DEF TabRow
  <2>3. T \in TabRow
    BY <1>0, <2>1 DEF TabRow
  <2> HIDE DEF T
  <2>4. GoodTab(T, cookie, minted)
    BY <1>0, <2>1, <2>2, <2>3 DEF GoodTab
  <2> QED  BY <1>0, <1>2, <2>2, <2>4, PageChanges DEF T
<1>3. \/ Become(t, [tab[t] EXCEPT !.step = "disable"])
      \/ Become(t, [tab[t] EXCEPT !.step = "idle", !.shown = IF tab[t].entry.on THEN @ ELSE 0])
  BY DEF TurnCard
<1>4. CASE Become(t, [tab[t] EXCEPT !.step = "idle",
                                    !.shown = IF tab[t].entry.on THEN @ ELSE 0])
  <2>1. PICK shown \in {0, tab[t].shown} : shown = IF tab[t].entry.on THEN tab[t].shown ELSE 0
    OBVIOUS
  <2>2. Become(t, [tab[t] EXCEPT !.step = "idle", !.shown = shown])
    BY <1>4, <2>1
  <2> QED  BY <1>2, <2>2
<1> QED  BY <1>1, <1>3, <1>4

-----------------------------------------------------------------------------
\* The server.
Answered(t, hook, answer) ==
    [sent[t] EXCEPT ![hook] = [sent[t][hook] EXCEPT !.state = "answered", !.answer = answer]]

LEMMA AnsweredCalls ==
    ASSUME GateInv, NEW t \in Tabs, NEW hook \in Hooks, sent[t][hook].state # "none",
           NEW answer \in Replies, Answers(t, hook, answer), answer = "ok" => hook # "setup"
    PROVE  /\ Calling(t, Answered(t, hook, answer))
           /\ GoodCalls(Answered(t, hook, answer), tab[t].at, minted)
           /\ hook = "enable" => Answered(t, hook, answer)["enable"].state = "answered"
           /\ hook # "enable" => Answered(t, hook, answer)["enable"] = sent[t]["enable"]
<1>0. GoodCalls(sent[t], tab[t].at, minted)
  BY TabOfGate
<1>1. PICK call \in CallRow : call = sent[t][hook]
  BY CallOfGate
<1>2. GoodCall(call, hook, tab[t].at, minted) /\ call # NoCall
  BY <1>0, <1>1, CallOfGate DEF GoodCalls
<1> DEFINE new == [call EXCEPT !.state = "answered", !.answer = answer]
<1>3. /\ new \in CallRow /\ new.state = "answered" /\ new.answer = answer
      /\ new.live = call.live /\ new.code = call.code
  BY DEF CallRow
<1> HIDE DEF new
<1>4. GoodCall(new, hook, tab[t].at, minted)
  BY <1>2, <1>3 DEF GoodCall
<1>5. Answered(t, hook, answer) = [sent[t] EXCEPT ![hook] = new]
  BY <1>1 DEF Answered, new
<1>6. Calling(t, Answered(t, hook, answer))
  BY DEF Calling, Answers, Answered
<1> QED  BY <1>0, <1>3, <1>4, <1>5, <1>6, CallChanges

LEMMA AnswersKeeps ==
    ASSUME GateInv, NEW t \in Tabs, NEW hook \in Hooks, sent[t][hook].state # "none",
           NEW answer \in Replies, Answers(t, hook, answer), answer = "ok" => hook # "setup",
           UNCHANGED <<cookie, totp, minted, tab, confirmed, crossed>>
    PROVE  GateInv'
<1>1. /\ Calling(t, Answered(t, hook, answer))
      /\ GoodCalls(Answered(t, hook, answer), tab[t].at, minted)
      /\ Answered(t, hook, answer)["enable"].state = "checked"
            => sent[t]["enable"].state = "checked"
  BY AnsweredCalls
<1>2. Become(t, tab[t]) /\ GoodTab(tab[t], cookie, minted)
  BY TabOfGate DEF Become
<1> QED  BY <1>1, <1>2, CardChanges

LEMMA HooksAre ==
    /\ Hooks = {"login", "logout", "setup", "enable", "disable"}
    /\ "login" \in Hooks /\ "logout" \in Hooks /\ "setup" \in Hooks
    /\ "enable" \in Hooks /\ "disable" \in Hooks
BY DEF Hooks

LEMMA ServeLoginKeeps ==
    ASSUME GateInv, NEW t \in Tabs, ServeLogin(t)  PROVE GateInv'
<1>0. /\ sent[t]["login"].state = "sent"
      /\ UNCHANGED <<cookie, totp, minted, tab, confirmed, crossed>>
  BY DEF ServeLogin
<1>1. CASE Answers(t, "login", "wrong password")
  BY <1>0, <1>1, HooksAre, AnswersKeeps DEF Replies
<1>2. CASE Answers(t, "login", "too many")
  BY <1>0, <1>2, HooksAre, AnswersKeeps DEF Replies
<1>3. ASSUME NEW on \in BOOLEAN, NEW answer \in Replies,
             sent' = [sent EXCEPT ![t]["login"] =
               [sent[t]["login"] EXCEPT !.state = "answered", !.on = on, !.answer = answer]]
      PROVE  GateInv'
  <2>1. PICK call \in CallRow : call = sent[t]["login"]
    BY <1>0, HooksAre, CallOfGate
  <2> DEFINE new == [call EXCEPT !.state = "answered", !.on = on, !.answer = answer]
             calls == [sent[t] EXCEPT !["login"] = new]
  <2>2. new \in CallRow
    BY DEF CallRow
  <2>3. Calling(t, calls)
    BY <1>3, <2>1 DEF Calling
  <2> HIDE DEF new
  <2>4. GoodCall(new, "login", tab[t].at, minted)
    BY DEF GoodCall, CardHooks
  <2>5. /\ GoodCalls(calls, tab[t].at, minted)
        /\ calls["enable"].state = "checked" => sent[t]["enable"].state = "checked"
    BY <2>2, <2>4, TabOfGate, HooksAre, CallChanges
  <2>6. Become(t, tab[t]) /\ GoodTab(tab[t], cookie, minted)
    BY <1>0, TabOfGate DEF Become
  <2> HIDE DEF calls
  <2> QED  BY <1>0, <2>3, <2>5, <2>6, CardChanges
<1>4. ASSUME NEW readable \in BOOLEAN,
             sent' = [sent EXCEPT ![t]["login"] =
               [sent[t]["login"] EXCEPT !.state = "answered", !.on = TotpState(readable).enabled,
                   !.answer = Verdict(sent[t]["login"].code, TotpState(readable))]]
      PROVE  GateInv'
  <2>1. TotpState(readable).enabled \in BOOLEAN
    BY DEF TotpState, GateInv
  <2>2. Verdict(sent[t]["login"].code, TotpState(readable)) \in Replies
    BY DEF Verdict, Replies
  <2> QED  BY <1>3, <1>4, <2>1, <2>2
<1> QED  BY <1>1, <1>2, <1>4 DEF ServeLogin

LEMMA ServeOthersKeep ==
    ASSUME GateInv, NEW t \in Tabs, ServeLogout(t) \/ ServeStranger(t)  PROVE GateInv'
<1>1. CASE ServeLogout(t)
  BY <1>1, HooksAre, AnswersKeeps DEF ServeLogout, Replies
<1>2. CASE ServeStranger(t)
  <2>1. PICK hook \in {"setup", "enable", "disable"} :
          sent[t][hook].state = "sent" /\ Answers(t, hook, "refused")
    BY <1>2 DEF ServeStranger
  <2> QED  BY <1>2, <2>1, HooksAre, AnswersKeeps DEF ServeStranger, Replies
<1> QED  BY <1>1, <1>2

\* The confirmed code enters the ghost at the check; from then on the secret it
\* was checked against is in force, unless a setup or a disable crosses.
LEMMA CheckEnableKeeps ==
    ASSUME GateInv, NEW t \in Tabs, CheckEnable(t)  PROVE GateInv'
<1>0. /\ sent[t]["enable"].state = "sent" /\ UNCHANGED <<cookie, totp, minted, tab, crossed>>
      /\ totp \in [enabled : BOOLEAN, secret : 0..minted] /\ minted \in Nat
  BY DEF CheckEnable, Arrived, GateInv
<1>1. ASSUME NEW answer \in {"nothing pending", "refused"}, Answers(t, "enable", answer),
             UNCHANGED confirmed
      PROVE  GateInv'
  BY <1>0, <1>1, HooksAre, AnswersKeeps DEF Replies
<1>2. ASSUME NEW readable \in BOOLEAN, TotpState(readable).secret # 0,
             sent' = [sent EXCEPT ![t]["enable"].state = "checked"],
             confirmed' = confirmed \cup {TotpState(readable).secret}
      PROVE  GateInv'
  <2>1. confirmed' = confirmed \cup {totp.secret} /\ totp.secret \in 1..minted
    BY <1>0, <1>2 DEF TotpState
  <2>2. PICK call \in CallRow : call = sent[t]["enable"]
    BY <1>0, HooksAre, CallOfGate
  <2> DEFINE new == [call EXCEPT !.state = "checked"]
             calls == [sent[t] EXCEPT !["enable"] = new]
  <2>3. call # NoCall /\ GoodCall(call, "enable", tab[t].at, minted)
    BY <1>0, <2>2, HooksAre, CallOfGate, TabOfGate DEF GoodCalls
  <2>4. new \in CallRow /\ new.live = call.live
    BY DEF CallRow
  <2>5. GoodCall(new, "enable", tab[t].at, minted)
    BY <2>3, <2>4 DEF GoodCall
  <2>6. Calling(t, calls)
    BY <1>2, <2>2 DEF Calling
  <2> HIDE DEF new
  <2>7. GoodCalls(calls, tab'[t].at, minted')
    BY <1>0, <2>4, <2>5, TabOfGate, HooksAre, CallChanges
  <2>8. Paired'
    BY <1>0, <2>1 DEF Paired
  <2>9. /\ cookie' \in BOOLEAN /\ crossed' \in BOOLEAN /\ minted' \in Nat /\ minted <= minted'
    BY <1>0 DEF GateInv
  <2>10. confirmed' \subseteq 1..minted' /\ totp' \in [enabled : BOOLEAN, secret : 0..minted']
    BY <1>0, <2>1 DEF GateInv
  <2>11. /\ tab' \in [Tabs -> TabRow]
         /\ \A s \in Tabs : GoodTab(tab'[s], cookie', minted')
         /\ \A s \in Tabs : s # t => tab'[s].at = tab[s].at
    BY <1>0 DEF GateInv
  <2> HIDE DEF calls
  <2> QED  BY <2>6, <2>7, <2>8, <2>9, <2>10, <2>11, GateKeeps
<1>3. ASSUME NEW readable \in BOOLEAN,
             TotpState(readable).secret # 0 /\ sent[t]["enable"].code = TotpState(readable).secret
             /\ sent' = [sent EXCEPT ![t]["enable"].state = "checked"]
             /\ confirmed' = confirmed \cup {sent[t]["enable"].code}
      PROVE  GateInv'
  BY <1>2, <1>3
<1> QED  BY <1>1, <1>3 DEF CheckEnable

LEMMA CheckDisableKeeps ==
    ASSUME GateInv, NEW t \in Tabs, CheckDisable(t)  PROVE GateInv'
<1>0. /\ sent[t]["disable"].state = "sent"
      /\ UNCHANGED <<cookie, totp, minted, tab, confirmed, crossed>>
  BY DEF CheckDisable, Arrived
<1>1. CASE Answers(t, "disable", "refused")
  BY <1>0, <1>1, HooksAre, AnswersKeeps DEF Replies
<1>2. CASE sent' = [sent EXCEPT ![t]["disable"].state = "checked"]
  <2>2. PICK call \in CallRow : call = sent[t]["disable"]
    BY <1>0, HooksAre, CallOfGate
  <2> DEFINE new == [call EXCEPT !.state = "checked"]
             calls == [sent[t] EXCEPT !["disable"] = new]
  <2>3. call # NoCall /\ GoodCall(call, "disable", tab[t].at, minted)
    BY <1>0, <2>2, HooksAre, CallOfGate, TabOfGate DEF GoodCalls
  <2>4. new \in CallRow /\ new.live = call.live
    BY DEF CallRow
  <2>5. GoodCall(new, "disable", tab[t].at, minted)
    BY <2>3, <2>4 DEF GoodCall
  <2>6. Calling(t, calls)
    BY <1>2, <2>2 DEF Calling
  <2> HIDE DEF new
  <2>7. /\ GoodCalls(calls, tab[t].at, minted)
        /\ calls["enable"].state = "checked" => sent[t]["enable"].state = "checked"
    BY <2>4, <2>5, TabOfGate, HooksAre, CallChanges
  <2>8. Become(t, tab[t]) /\ GoodTab(tab[t], cookie, minted)
    BY <1>0, TabOfGate DEF Become
  <2> HIDE DEF calls
  <2> QED  BY <1>0, <2>6, <2>7, <2>8, CardChanges
<1> QED  BY <1>1, <1>2 DEF CheckDisable

\* An answer that is written with the secret.
LEMMA WriteKeeps ==
    ASSUME GateInv, NEW t \in Tabs, NEW hook \in {"enable", "disable"},
           sent[t][hook].state = "checked", Answers(t, hook, "ok"),
           totp' \in [enabled : BOOLEAN, secret : 0..minted], crossed' \in BOOLEAN, Paired',
           UNCHANGED <<cookie, minted, tab, confirmed>>
    PROVE  GateInv'
<1>1. Calling(t, Answered(t, hook, "ok")) /\ GoodCalls(Answered(t, hook, "ok"), tab[t].at, minted)
  <2>1. hook \in Hooks /\ hook # "setup" /\ "ok" \in Replies /\ sent[t][hook].state # "none"
    BY HooksAre DEF Replies
  <2> QED  BY <2>1, AnsweredCalls
<1>2. GoodCalls(Answered(t, hook, "ok"), tab'[t].at, minted')
  BY <1>1
<1>3. /\ cookie' \in BOOLEAN /\ minted' \in Nat /\ minted <= minted'
      /\ totp' \in [enabled : BOOLEAN, secret : 0..minted'] /\ confirmed' \subseteq 1..minted'
      /\ tab' \in [Tabs -> TabRow] /\ \A s \in Tabs : GoodTab(tab'[s], cookie', minted')
      /\ \A s \in Tabs : s # t => tab'[s].at = tab[s].at
  BY DEF GateInv
<1> QED  BY <1>1, <1>2, <1>3, GateKeeps

LEMMA WriteEnableKeeps ==
    ASSUME GateInv, NEW t \in Tabs, WriteEnable(t)  PROVE GateInv'
<1>1. /\ totp' = [totp EXCEPT !.enabled = TRUE] /\ totp \in [enabled : BOOLEAN, secret : 0..minted]
      /\ UNCHANGED <<crossed, confirmed>> /\ crossed \in BOOLEAN
  BY DEF WriteEnable, GateInv
<1>2. totp' \in [enabled : BOOLEAN, secret : 0..minted] /\ totp'.secret = totp.secret
  BY <1>1
<1>3. Checked({"enable"})
  BY DEF WriteEnable, Checked
<1>4. Paired'
  BY <1>1, <1>2, <1>3 DEF GateInv, Paired
<1> QED  BY <1>1, <1>2, <1>4, WriteKeeps DEF WriteEnable

LEMMA WriteDisableKeeps ==
    ASSUME GateInv, NEW t \in Tabs, WriteDisable(t)  PROVE GateInv'
<1>1. /\ totp' = [enabled |-> FALSE, secret |-> 0] /\ crossed' \in BOOLEAN /\ minted \in Nat
  BY DEF WriteDisable, GateInv
<1>2. totp' \in [enabled : BOOLEAN, secret : 0..minted] /\ Paired'
  BY <1>1 DEF Paired
<1> QED  BY <1>1, <1>2, WriteKeeps DEF WriteDisable

LEMMA ServeSetupKeeps ==
    ASSUME GateInv, NEW t \in Tabs, ServeSetup(t)  PROVE GateInv'
<1>0. /\ sent[t]["setup"].state = "sent" /\ UNCHANGED <<cookie, tab, confirmed>>
      /\ minted' = minted + 1 /\ minted \in Nat
      /\ totp' = [enabled |-> FALSE, secret |-> minted']
      /\ crossed' = (crossed \/ Checked({"enable"}))
  BY DEF ServeSetup, Arrived, SetPending, GateInv
<1>1. PICK call \in CallRow : call = sent[t]["setup"]
  BY <1>0, HooksAre, CallOfGate
<1> DEFINE new == [call EXCEPT !.state = "answered", !.answer = "ok", !.code = minted']
           calls == [sent[t] EXCEPT !["setup"] = new]
<1>2. call # NoCall /\ GoodCall(call, "setup", tab[t].at, minted)
  BY <1>0, <1>1, HooksAre, CallOfGate, TabOfGate DEF GoodCalls
<1>3. new \in CallRow /\ new.live = call.live /\ new.code = minted'
  <2> DEFINE answered == [call EXCEPT !.state = "answered", !.answer = "ok"]
  <2>1. answered \in CallRow /\ answered.live = call.live
    BY DEF CallRow, Replies
  <2>2. new = [answered EXCEPT !.code = minted'] /\ minted' \in Int
    BY <1>0
  <2> HIDE DEF answered, new
  <2> QED  BY <2>1, <2>2 DEF CallRow
<1>4. Calling(t, calls)
  BY <1>1 DEF Calling, ServeSetup
<1>5. minted' \in Nat /\ minted <= minted' /\ minted' \in 1..minted'
      /\ 1..minted \subseteq 1..minted' /\ 0..minted \subseteq 0..minted'
  BY <1>0
<1> HIDE DEF new
<1>6. GoodCall(new, "setup", tab[t].at, minted')
  BY <1>2, <1>3, <1>5 DEF GoodCall, CardHooks
<1>7. GoodCalls(sent[t], tab[t].at, minted')
  BY <1>5, TabOfGate DEF GoodCalls, GoodCall
<1>8. GoodCalls(calls, tab'[t].at, minted') /\ calls["enable"] = sent[t]["enable"]
  BY <1>0, <1>3, <1>6, <1>7, HooksAre, CallChanges
<1>9. Paired'
  <2>1. Checked({"enable"})' => Checked({"enable"})
    <3>1. \A s \in Tabs : sent'[s] = IF s = t THEN calls ELSE sent[s]
      BY <1>4 DEF GateInv, Calling
    <3> HIDE DEF calls
    <3> QED  BY <1>8, <3>1 DEF Checked
  <2> QED  BY <1>0, <2>1 DEF Paired
<1>10. ASSUME NEW s \in Tabs  PROVE GoodTab(tab'[s], cookie', minted')
  <2>1. GoodTab(tab[s], cookie, minted)
    BY DEF GateInv
  <2> QED  BY <1>0, <1>5, <2>1 DEF GoodTab
<1>11. totp' \in [enabled : BOOLEAN, secret : 0..minted'] /\ confirmed' \subseteq 1..minted'
  BY <1>0, <1>5 DEF GateInv
<1>12. cookie' \in BOOLEAN /\ crossed' \in BOOLEAN /\ tab' \in [Tabs -> TabRow]
       /\ \A s \in Tabs : s # t => tab'[s].at = tab[s].at
  BY <1>0 DEF GateInv, Checked
<1> HIDE DEF calls
<1> QED  BY <1>4, <1>5, <1>8, <1>9, <1>10, <1>11, <1>12, GateKeeps

-----------------------------------------------------------------------------
\* Answers.
LEMMA OverKeeps ==
    ASSUME GateInv, NEW t \in Tabs, NEW hook \in Hooks, NEW calls, NEW at,
           GoodCalls(calls, at, minted), sent' = Over(t, hook, [sent EXCEPT ![t] = calls]),
           calls["enable"].state = "checked" => sent[t]["enable"].state = "checked"
    PROVE  \E left : /\ Calling(t, left) /\ GoodCalls(left, at, minted)
                     /\ left["enable"].state = "checked" => sent[t]["enable"].state = "checked"
<1> DEFINE left == [calls EXCEPT ![hook] = NoCall]
<1>1. Calling(t, left)
  BY DEF Calling, Over, GateInv
<1>2. GoodCall(NoCall, hook, at, minted) /\ NoCall.state = "none"
  BY DEF GoodCall, NoCall
<1>3. GoodCalls(left, at, minted)
      /\ (left["enable"].state = "checked" => sent[t]["enable"].state = "checked")
  BY <1>2, CallChanges
<1> HIDE DEF left
<1> QED  BY <1>1, <1>3

\* The call is over and the page changes, where it is or to the login.
LEMMA ReturnStays ==
    ASSUME GateInv, NEW t \in Tabs, NEW hook \in Hooks, NEW T, Become(t, T),
           GoodTab(T, cookie, minted), T.at = tab[t].at, sent' = Over(t, hook, sent),
           UNCHANGED <<cookie, totp, minted, confirmed, crossed>>
    PROVE  GateInv'
<1>1. sent' = Over(t, hook, [sent EXCEPT ![t] = sent[t]]) /\ GoodCalls(sent[t], T.at, minted)
  BY TabOfGate
<1>2. PICK left : /\ Calling(t, left) /\ GoodCalls(left, T.at, minted)
                  /\ left["enable"].state = "checked" => sent[t]["enable"].state = "checked"
  BY <1>1, OverKeeps
<1> QED  BY <1>2, CardChanges

LEMMA ReturnLeaves ==
    ASSUME GateInv, NEW t \in Tabs, NEW hook \in Hooks, NEW T, cookie' \in BOOLEAN,
           cookie' => cookie, Become(t, T), GoodTab(T, cookie', minted),
           sent' = Over(t, hook, Detached(t)),
           totp' = totp, minted' = minted, confirmed' = confirmed, crossed' = crossed
    PROVE  GateInv'
<1>1. /\ sent' = Over(t, hook, [sent EXCEPT ![t] = Away(t)]) /\ GoodCalls(Away(t), T.at, minted)
      /\ Away(t)["enable"].state = "checked" => sent[t]["enable"].state = "checked"
  BY AwayKeeps
<1>2. PICK left : /\ Calling(t, left) /\ GoodCalls(left, T.at, minted)
                  /\ left["enable"].state = "checked" => sent[t]["enable"].state = "checked"
  BY <1>1, OverKeeps
<1> QED  BY <1>2, TabChanges

LEMMA NotLoggedInKeeps ==
    ASSUME GateInv, NEW t \in Tabs, NotLoggedIn(t)  PROVE GateInv'
<1>0. /\ cookie \in BOOLEAN /\ minted \in Nat /\ GoodTab(tab[t], cookie, minted)
      /\ UNCHANGED <<cookie, totp, minted, confirmed, crossed>> /\ "login" \in Hooks
  BY TabOfGate, HooksAre DEF NotLoggedIn
<1>1. PICK needs \in BOOLEAN :
        needs = ((tab[t].needs \/ sent[t]["login"].answer = "code wanted")
                   /\ sent[t]["login"].answer # "wrong password")
  OBVIOUS
<1> DEFINE T == [tab[t] EXCEPT !.needs = needs]
<1>2. GoodTab(T, cookie, minted) /\ T.at = tab[t].at
  BY <1>0 DEF GoodTab, TabRow
<1>3. /\ Become(t, IF sent[t]["login"].answer = "too many" THEN T ELSE Refused(T))
      /\ sent' = Over(t, "login", IF tab[t].at = "app" /\ sent[t]["login"].answer # "too many"
                                  THEN Detached(t) ELSE sent)
  BY <1>1 DEF NotLoggedIn
<1> HIDE DEF T
<1>4. GoodTab(Refused(T), cookie, minted)
      /\ Refused(T).at = IF tab[t].at = "app" THEN "login" ELSE tab[t].at
  BY <1>0, <1>2, RefusedKeeps
<1>5. CASE sent[t]["login"].answer = "too many"
  BY <1>0, <1>2, <1>3, <1>5, ReturnStays
<1>6. CASE sent[t]["login"].answer # "too many" /\ tab[t].at = "app"
  <2>1. GoodTab(Refused(T), cookie', minted) /\ cookie' \in BOOLEAN /\ (cookie' => cookie)
    BY <1>0, <1>4
  <2>2. totp' = totp /\ minted' = minted /\ confirmed' = confirmed /\ crossed' = crossed
    BY <1>0
  <2>3. Become(t, Refused(T)) /\ sent' = Over(t, "login", Detached(t))
    BY <1>3, <1>6
  <2> QED  BY <1>0, <2>1, <2>2, <2>3, ReturnLeaves
<1>7. CASE sent[t]["login"].answer # "too many" /\ tab[t].at # "app"
  <2>1. Become(t, Refused(T)) /\ sent' = Over(t, "login", sent) /\ Refused(T).at = tab[t].at
    BY <1>3, <1>4, <1>7
  <2> QED  BY <1>0, <1>4, <2>1, ReturnStays
<1> QED  BY <1>5, <1>6, <1>7

LEMMA CardRefusedKeeps ==
    ASSUME GateInv, NEW t \in Tabs, CardRefused(t)  PROVE GateInv'
<1>0. /\ cookie \in BOOLEAN /\ minted \in Nat /\ GoodTab(tab[t], cookie, minted)
      /\ UNCHANGED <<cookie, totp, minted, confirmed, crossed>>
  BY TabOfGate DEF CardRefused
<1>1. PICK hook \in Hooks, shut \in BOOLEAN :
        /\ shut => tab[t].at = "app"
        /\ Become(t, IF shut THEN Refused(tab[t]) ELSE tab[t])
        /\ sent' = Over(t, hook, IF shut THEN Detached(t) ELSE sent)
  BY HooksAre DEF CardRefused
<1>2. CASE shut
  <2>1. Become(t, Refused(tab[t])) /\ sent' = Over(t, hook, Detached(t))
    BY <1>1, <1>2
  <2>2. GoodTab(Refused(tab[t]), cookie', minted) /\ cookie' \in BOOLEAN /\ (cookie' => cookie)
    BY <1>0, RefusedKeeps
  <2>3. totp' = totp /\ minted' = minted /\ confirmed' = confirmed /\ crossed' = crossed
    BY <1>0
  <2> QED  BY <2>1, <2>2, <2>3, ReturnLeaves
<1>3. CASE ~shut
  BY <1>0, <1>1, <1>3, ReturnStays
<1> QED  BY <1>2, <1>3

LEMMA LoseCallKeeps ==
    ASSUME GateInv, NEW t \in Tabs, LoseCall(t)  PROVE GateInv'
<1>1. PICK hook \in Hooks : sent' = Over(t, hook, sent)
  BY DEF LoseCall
<1>2. Become(t, tab[t]) /\ UNCHANGED <<cookie, totp, minted, confirmed, crossed>>
      /\ GoodTab(tab[t], cookie, minted)
  BY TabOfGate DEF LoseCall, Become
<1> QED  BY <1>1, <1>2, ReturnStays

LEMMA LoggedOutKeeps ==
    ASSUME GateInv, NEW t \in Tabs, LoggedOut(t)  PROVE GateInv'
<1>0. /\ cookie' = FALSE /\ minted \in Nat /\ tab[t] \in TabRow /\ "logout" \in Hooks
      /\ totp' = totp /\ minted' = minted /\ confirmed' = confirmed /\ crossed' = crossed
      /\ sent' = Over(t, "logout", Detached(t))
  BY TabOfGate, HooksAre DEF LoggedOut, GoodTab
<1> DEFINE F == [NoFetch EXCEPT !.state = "asked"]
           C == Cleared(tab[t])
           T == [C EXCEPT !.at = "login", !.needs = FALSE, !.step = "idle", !.shown = 0,
                          !.left = TRUE, !.bounced = FALSE,
                          !.fetch = IF @.state = "idle" THEN [NoFetch EXCEPT !.state = "asked"]
                                    ELSE @]
           Empty == [tab[t] EXCEPT !.entry = Unknown, !.fetch = NoFetch]
<1>1. Become(t, T)
  BY DEF LoggedOut
<1>2. Unknown \in EntryRow /\ Unknown.known # "in" /\ NoFetch \in FetchRow /\ NoFetch.state = "idle"
      /\ F \in FetchRow /\ ~F.in
  BY DEF Unknown, EntryRow, NoFetch, FetchRow
<1>3. Empty \in TabRow /\ Empty.entry = Unknown /\ Empty.fetch = NoFetch
  BY <1>0, <1>2 DEF TabRow
<1>4. C = [Empty EXCEPT !.courses = FALSE, !.ask = "none"]
  BY DEF Cleared
<1> HIDE DEF Empty, C, F, Unknown, NoFetch
<1>5. C \in TabRow /\ C.entry = Unknown /\ C.fetch = NoFetch
  BY <1>3, <1>4 DEF TabRow
<1>6. T = [C EXCEPT !.at = "login", !.needs = FALSE, !.step = "idle", !.shown = 0,
                    !.left = TRUE, !.bounced = FALSE, !.fetch = F]
  BY <1>2, <1>5 DEF TabRow, F
<1>7. T \in TabRow /\ T.shown = 0 /\ T.step = "idle" /\ T.entry = Unknown /\ T.fetch = F
  <2> DEFINE A == [C EXCEPT !.at = "login", !.needs = FALSE, !.step = "idle"]
             B == [A EXCEPT !.shown = 0, !.left = TRUE]
  <2>1. A \in TabRow /\ A.step = "idle" /\ A.entry = Unknown
    BY <1>5 DEF TabRow
  <2>2. T = [B EXCEPT !.bounced = FALSE, !.fetch = F]
    BY <1>6
  <2> HIDE DEF A, T
  <2>3. B \in TabRow /\ B.step = "idle" /\ B.entry = Unknown /\ B.shown = 0
    BY <2>1 DEF TabRow
  <2> HIDE DEF B
  <2> QED  BY <1>2, <2>2, <2>3 DEF TabRow
<1> HIDE DEF T
<1>8. GoodTab(T, cookie', minted)
  BY <1>0, <1>2, <1>7 DEF GoodTab
<1>9. cookie' \in BOOLEAN /\ (cookie' => cookie)
  BY <1>0
<1> QED  BY <1>0, <1>1, <1>8, <1>9, ReturnLeaves

LEMMA SetUpKeeps ==
    ASSUME GateInv, NEW t \in Tabs, SetUp(t)  PROVE GateInv'
<1>0. /\ cookie \in BOOLEAN /\ minted \in Nat /\ GoodTab(tab[t], cookie, minted)
      /\ "setup" \in Hooks /\ sent' = Over(t, "setup", sent)
      /\ UNCHANGED <<cookie, totp, minted, confirmed, crossed>>
  BY TabOfGate, HooksAre DEF SetUp
<1>1. CASE sent[t]["setup"].live
  <2>1. sent[t]["setup"].code \in 1..minted /\ tab[t].at = "app"
    <3>1. sent[t]["setup"] # NoCall
      BY HooksAre, CallOfGate DEF SetUp, HasAnswer
    <3>2. GoodCall(sent[t]["setup"], "setup", tab[t].at, minted)
      BY <1>0, TabOfGate DEF GoodCalls
    <3> QED  BY <1>1, <3>1, <3>2 DEF GoodCall, CardHooks, SetUp
  <2>2. PICK code \in 1..minted : code = sent[t]["setup"].code
    BY <2>1
  <2> DEFINE T == [tab[t] EXCEPT !.step = "confirm", !.shown = code]
  <2>3. Become(t, T)
    BY <1>1, <2>2 DEF SetUp
  <2>4. tab[t] \in TabRow /\ code \in Nat /\ code # 0 /\ code \in 0..minted
    BY <1>0 DEF GoodTab
  <2>5. /\ T.at = tab[t].at /\ T.shown = code /\ T.left = tab[t].left
        /\ T.entry = tab[t].entry /\ T.fetch = tab[t].fetch
    BY <2>4 DEF TabRow
  <2>6. T \in TabRow
    BY <2>4 DEF TabRow
  <2> HIDE DEF T
  <2>7. GoodTab(T, cookie, minted)
    BY <1>0, <2>1, <2>4, <2>5, <2>6 DEF GoodTab
  <2> QED  BY <1>0, <2>3, <2>5, <2>7, ReturnStays
<1>2. CASE ~sent[t]["setup"].live
  <2>1. Become(t, tab[t])
    BY <1>2 DEF SetUp
  <2> QED  BY <1>0, <2>1, ReturnStays
<1> QED  BY <1>1, <1>2

LEMMA SwitchedKeeps ==
    ASSUME GateInv, NEW t \in Tabs, Switched(t)  PROVE GateInv'
<1>0. /\ cookie \in BOOLEAN /\ minted \in Nat /\ GoodTab(tab[t], cookie, minted)
      /\ UNCHANGED <<cookie, totp, minted, confirmed, crossed>>
  BY TabOfGate DEF Switched
<1>1. PICK hook \in {"enable", "disable"} :
        /\ Become(t, LET T == [tab[t] EXCEPT !.entry = Session(TRUE, hook = "enable"), !.left = FALSE]
                     IN IF sent[t][hook].live
                        THEN [T EXCEPT !.step = "idle", !.shown = IF hook = "enable" THEN 0 ELSE @]
                        ELSE T)
        /\ sent' = Over(t, hook, sent)
  BY DEF Switched
<1> DEFINE E == Session(TRUE, hook = "enable")
           T == [tab[t] EXCEPT !.entry = E, !.left = FALSE]
           shown == IF hook = "enable" THEN 0 ELSE T.shown
           U == [T EXCEPT !.step = "idle", !.shown = shown]
<1>2. E \in EntryRow
  BY DEF Session, EntryRow
<1>3. Become(t, IF sent[t][hook].live THEN U ELSE T)
  BY <1>1
<1> HIDE DEF E
<1>4. GoodTab(T, cookie, minted) /\ T.at = tab[t].at /\ T.left = FALSE /\ T \in TabRow
  BY <1>0, <1>2 DEF GoodTab, TabRow
<1> HIDE DEF T
<1>5. shown \in 0..minted /\ shown \in Nat
  BY <1>0, <1>4 DEF GoodTab
<1> HIDE DEF shown
<1>6. U \in TabRow /\ U.at = tab[t].at /\ U.left = FALSE /\ U.step = "idle" /\ U.shown = shown
  BY <1>4, <1>5 DEF TabRow
<1> HIDE DEF U
<1>7. GoodTab(U, cookie, minted)
  BY <1>5, <1>6 DEF GoodTab
<1>8. hook \in Hooks
  BY HooksAre
<1> QED  BY <1>0, <1>1, <1>3, <1>4, <1>6, <1>7, <1>8, ReturnStays

\* A login ends every tab's being logged out.
LEMMA LoggedInKeeps ==
    ASSUME GateInv, NEW t \in Tabs, LoggedIn(t)  PROVE GateInv'
<1>0. /\ cookie' = TRUE /\ minted \in Nat /\ tab[t] \in TabRow /\ GoodTab(tab[t], cookie, minted)
      /\ totp' = totp /\ minted' = minted /\ confirmed' = confirmed /\ crossed' = crossed
      /\ sent' = Over(t, "login", sent) /\ "login" \in Hooks
  BY TabOfGate, HooksAre DEF LoggedIn, GoodTab
<1> DEFINE E == [Session(TRUE, sent[t]["login"].on) EXCEPT !.stale = TRUE]
           F == [AskSession EXCEPT !.in = TRUE]
           ask == IF tab[t].ask = "none" THEN "signed" ELSE tab[t].ask
           T == [tab[t] EXCEPT !.entry = E, !.fetch = F, !.courses = FALSE, !.ask = ask]
           U == IF T.at = "login" THEN AtApp(T) ELSE T
           shown == [tab EXCEPT ![t] = U]
<1>1. tab' = [s \in Tabs |-> [shown[s] EXCEPT !.left = FALSE]]
  BY DEF LoggedIn
<1>2. E \in EntryRow /\ F \in FetchRow /\ F.state = "asked" /\ ask \in {"signed", "unsigned"}
  <2>1. sent[t]["login"].on \in BOOLEAN
    BY HooksAre, CallOfGate DEF LoggedIn, HasAnswer, CallRow
  <2> QED  BY <1>0, <2>1 DEF Session, EntryRow, AskSession, FetchRow, TabRow
<1> HIDE DEF E, F, ask
<1>3. /\ T \in TabRow /\ T.at = tab[t].at /\ T.step = tab[t].step /\ T.shown = tab[t].shown
      /\ T.fetch = F /\ T.ask = ask
  <2> DEFINE A == [tab[t] EXCEPT !.entry = E, !.fetch = F]
  <2>1. A \in TabRow /\ A.at = tab[t].at /\ A.step = tab[t].step /\ A.shown = tab[t].shown
        /\ A.fetch = F
    BY <1>0, <1>2 DEF TabRow
  <2>2. T = [A EXCEPT !.courses = FALSE, !.ask = ask]
    OBVIOUS
  <2> HIDE DEF A, T
  <2> QED  BY <1>2, <2>1, <2>2 DEF TabRow
<1> HIDE DEF T
<1>4. /\ U \in TabRow /\ U.shown \in 0..minted /\ (U.step = "confirm" => U.shown # 0)
      /\ U.at # "login" /\ U.at = IF tab[t].at = "login" THEN "app" ELSE tab[t].at
  <2>1. CASE T.at = "login"
    <3> DEFINE there == [T EXCEPT !.at = "app", !.step = "idle", !.shown = 0, !.ask = ask]
    <3>1. there \in TabRow /\ there.at = "app" /\ there.step = "idle" /\ there.shown = 0
          /\ there.fetch = F
      <4> DEFINE A == [T EXCEPT !.at = "app", !.step = "idle"]
      <4>1. A \in TabRow /\ A.at = "app" /\ A.step = "idle" /\ A.fetch = F
        BY <1>3 DEF TabRow
      <4>2. there = [A EXCEPT !.shown = 0, !.ask = ask]
        OBVIOUS
      <4> HIDE DEF A, there
      <4> QED  BY <1>2, <4>1, <4>2 DEF TabRow
    <3>2. AtApp(T) = Refetch(there)
      BY <1>2, <1>3 DEF AtApp
    <3> HIDE DEF there
    <3>3. AtApp(T) = there
      BY <1>2, <3>1, <3>2 DEF Refetch
    <3> QED  BY <1>0, <1>3, <2>1, <3>1, <3>3
  <2>2. CASE T.at # "login"
    BY <1>0, <1>3, <2>2 DEF GoodTab
  <2> QED  BY <2>1, <2>2
<1> HIDE DEF U
<1>5. ASSUME NEW s \in Tabs
      PROVE  /\ GoodTab(tab'[s], cookie', minted') /\ tab'[s] \in TabRow
             /\ tab'[s].at = IF s = t THEN U.at ELSE tab[s].at
  <2>1. GoodTab(tab[s], cookie, minted) /\ tab[s] \in TabRow
    BY TabOfGate DEF GoodTab
  <2>2. PICK S \in TabRow : S = IF s = t THEN U ELSE tab[s]
    BY <1>4, <2>1
  <2>3. S.shown \in 0..minted /\ (S.step = "confirm" => S.shown # 0)
        /\ (S.at = "login" => S.step = "idle")
    BY <1>4, <2>1, <2>2 DEF GoodTab
  <2> DEFINE T2 == [S EXCEPT !.left = FALSE]
  <2>4. tab'[s] = T2
    BY <1>1, <2>2 DEF GateInv
  <2>5. T2 \in TabRow /\ T2.left = FALSE /\ T2.shown = S.shown /\ T2.step = S.step /\ T2.at = S.at
    BY DEF TabRow
  <2> HIDE DEF T2
  <2>6. GoodTab(T2, cookie', minted')
    BY <1>0, <2>3, <2>5 DEF GoodTab
  <2> QED  BY <2>2, <2>4, <2>5, <2>6
<1>6. GoodCalls(sent[t], U.at, minted)
  BY <1>4, TabOfGate DEF GoodCalls, GoodCall
<1>7. sent' = Over(t, "login", [sent EXCEPT ![t] = sent[t]])
  BY <1>0, TabOfGate
<1>8. PICK left : /\ Calling(t, left) /\ GoodCalls(left, U.at, minted)
                  /\ left["enable"].state = "checked" => sent[t]["enable"].state = "checked"
  BY <1>0, <1>6, <1>7, OverKeeps
<1>9. Paired'
  BY <1>0, <1>8, StillPaired
<1>10. tab' \in [Tabs -> TabRow]
  BY <1>1, <1>5
<1>11. /\ cookie' \in BOOLEAN /\ crossed' \in BOOLEAN /\ minted' \in Nat /\ minted <= minted'
       /\ totp' \in [enabled : BOOLEAN, secret : 0..minted'] /\ confirmed' \subseteq 1..minted'
  BY <1>0 DEF GateInv
<1>12. GoodCalls(left, tab'[t].at, minted')
  BY <1>0, <1>5, <1>8
<1> QED  BY <1>5, <1>8, <1>9, <1>10, <1>11, <1>12, GateKeeps

-----------------------------------------------------------------------------
LEMMA GateInvInit == GateInit => GateInv
<1> SUFFICES ASSUME GateInit  PROVE GateInv
  OBVIOUS
<1>1. /\ cookie \in BOOLEAN /\ minted = 0 /\ totp = [enabled |-> FALSE, secret |-> 0]
      /\ sent = [t \in Tabs |-> [h \in Hooks |-> NoCall]] /\ confirmed = {} /\ crossed = FALSE
  BY DEF GateInit
<1>2. Unknown \in EntryRow /\ NoFetch \in FetchRow /\ Session(TRUE, FALSE) \in EntryRow
  BY DEF Unknown, EntryRow, NoFetch, FetchRow, Session
<1>3. /\ Loading \in TabRow /\ Loading.shown = 0 /\ Loading.step = "idle" /\ Loading.left = FALSE
      /\ Loading.at = "app"
  BY <1>2 DEF Loading, TabRow
<1>4. /\ Closed \in TabRow /\ Closed.shown = 0 /\ Closed.step = "idle" /\ Closed.left = FALSE
  BY <1>3 DEF Closed, TabRow
<1>5. /\ Working \in TabRow /\ Working.shown = 0 /\ Working.step = "idle"
      /\ Working.left = FALSE
  BY <1>2, <1>3 DEF Working, TabRow
<1>6. GoodTab(Loading, cookie, 0) /\ GoodTab(Closed, cookie, 0) /\ GoodTab(Working, cookie, 0)
  BY <1>3, <1>4, <1>5 DEF GoodTab
<1>7. GoodTab(AtApp(Loading), cookie, 0) /\ GoodTab(AtLogin(Loading), cookie, 0)
  BY <1>1, <1>6, AtAppKeeps, AtLoginKeeps
<1>8. tab \in [Tabs -> TabRow] /\ \A t \in Tabs : GoodTab(tab[t], cookie, minted)
  <2>1. CASE tab = [t \in Tabs |-> Working]
    BY <1>1, <1>6, <1>5, <2>1
  <2>2. ASSUME NEW T \in {AtApp(Loading), AtLogin(Loading)},
               tab = [t \in Tabs |-> IF t = Alone THEN T ELSE Closed]
        PROVE  tab \in [Tabs -> TabRow] /\ \A t \in Tabs : GoodTab(tab[t], cookie, minted)
    <3>1. GoodTab(T, cookie, 0) /\ T \in TabRow
      BY <1>7 DEF GoodTab
    <3> QED  BY <1>1, <1>6, <1>4, <2>2, <3>1
  <2> QED  BY <2>1, <2>2 DEF GateInit
<1>9. sent \in [Tabs -> Calls] /\ \A t \in Tabs : GoodCalls(sent[t], tab[t].at, minted)
  BY <1>1 DEF Calls, GoodCalls, GoodCall
<1>10. Paired
  BY <1>1 DEF Paired
<1>11. /\ minted \in Nat /\ totp \in [enabled : BOOLEAN, secret : 0..minted]
       /\ confirmed \subseteq 1..minted /\ crossed \in BOOLEAN
  <2>1. 0 \in 0..minted /\ minted \in Nat
    BY <1>1
  <2>2. totp \in [enabled : BOOLEAN, secret : 0..minted]
    BY <1>1, <2>1
  <2> QED  BY <1>1, <2>1, <2>2
<1> QED  BY <1>1, <1>8, <1>9, <1>10, <1>11 DEF GateInv

LEMMA GateInvStep == GateInv /\ [GateStep]_gateVars => GateInv'
<1> SUFFICES ASSUME GateInv, [GateStep]_gateVars  PROVE GateInv'
  OBVIOUS
<1>1. CASE UNCHANGED gateVars
  BY <1>1 DEF gateVars, GateInv, Paired, Checked
<1>2. CASE CookieExpires \/ UserDeleted
  <2>1. CASE UserDeleted
    BY <2>1 DEF UserDeleted, GateInv, Paired, Checked
  <2> QED  BY <1>2, <2>1, CookieExpiresKeeps
<1>3. ASSUME NEW t \in Tabs,
             Renders(t) \/ Travels(t) \/ LoseSession(t) \/ SessionAges(t) \/ CoursesAge(t)
      PROVE  GateInv'
  BY <1>3, RendersKeeps, SessionKeeps, AgesKeeps, AnswerWorkKeeps DEF Travels
<1>4. ASSUME NEW t \in Tabs, UserActs(t)  PROVE GateInv'
  BY <1>4, FormsKeep, TurnCardKeeps, AgesKeeps DEF UserActs
<1>5. ASSUME NEW t \in Tabs, Serves(t)  PROVE GateInv'
  BY <1>5, ServeLoginKeeps, ServeOthersKeep, ServeSetupKeeps, CheckEnableKeeps, WriteEnableKeeps,
     CheckDisableKeeps, WriteDisableKeeps DEF Serves
<1>6. ASSUME NEW t \in Tabs, Returns(t)  PROVE GateInv'
  BY <1>6, LoggedInKeeps, NotLoggedInKeeps, LoggedOutKeeps, SetUpKeeps, SwitchedKeeps,
     CardRefusedKeeps, LoseCallKeeps DEF Returns
<1> QED  BY <1>1, <1>2, <1>3, <1>4, <1>5, <1>6 DEF GateStep

LEMMA UserStep == user \in BOOLEAN /\ [GateStep]_gateVars => user' \in BOOLEAN
<1> SUFFICES ASSUME user \in BOOLEAN, [GateStep]_gateVars  PROVE user' \in BOOLEAN
  OBVIOUS
<1>1. CASE UNCHANGED gateVars \/ CookieExpires \/ UserDeleted
  BY <1>1 DEF gateVars, CookieExpires, UserDeleted
<1>2. ASSUME NEW t \in Tabs,
             Renders(t) \/ Travels(t) \/ LoseSession(t) \/ SessionAges(t) \/ CoursesAge(t)
      PROVE  user' = user
  BY <1>2 DEF Renders, LetIn, KeepOut, Travels, AnswerSession, FillSession, AnswerWork, LoseSession,
              SessionAges, CoursesAge
<1>3. ASSUME NEW t \in Tabs, UserActs(t)  PROVE user' = user
  BY <1>3 DEF UserActs, SubmitLogin, SubmitLogout, StartSetup, Confirm, SwitchOff, Send, TurnCard,
              Work, Focus
<1>4. ASSUME NEW t \in Tabs, Serves(t)  PROVE user' = user
  BY <1>4 DEF Serves, ServeLogin, ServeLogout, ServeStranger, ServeSetup, CheckEnable, WriteEnable,
              CheckDisable, WriteDisable
<1>5. ASSUME NEW t \in Tabs, Returns(t)  PROVE user' = user
  BY <1>5 DEF Returns, LoggedIn, NotLoggedIn, LoggedOut, SetUp, Switched, CardRefused, LoseCall
<1> QED  BY <1>1, <1>2, <1>3, <1>4, <1>5 DEF GateStep

-----------------------------------------------------------------------------
\* Every state of either scene satisfies the inductive invariant: what a page
\* waits for, what its tokens and the second factor have gone through.
THEOREM AccountsInvariant == Spec => []AccountsInv
<1>1. Init => AccountsInv
  BY MailInvInit, GateInvInit DEF Init, AccountsInv, GateInit
<1>2. AccountsInv /\ [Next]_vars => AccountsInv'
  <2> SUFFICES ASSUME AccountsInv, [Next]_vars  PROVE AccountsInv'
    OBVIOUS
  <2>1. scene' = scene
    BY DEF Next, InTheMail, AtTheGate, vars
  <2>2. CASE scene = "mail"
    <3>1. [MailStep]_mailVars
      BY <2>2 DEF Next, InTheMail, AtTheGate, vars
    <3> QED  BY <2>1, <2>2, <3>1, MailInvStep DEF AccountsInv
  <2>3. CASE scene = "gate"
    <3>1. [GateStep]_gateVars
      BY <2>3 DEF Next, InTheMail, AtTheGate, vars
    <3>2. links' = links
      BY <2>3 DEF Next, InTheMail, AtTheGate, vars, mailVars
    <3> QED  BY <2>1, <2>3, <3>1, <3>2, GateInvStep, UserStep DEF AccountsInv
  <2> QED  BY <2>2, <2>3 DEF AccountsInv
<1> QED  BY <1>1, <1>2, PTL DEF Spec

\* The accounts, tokens, pages and requests, the session, the second factor
\* and the tabs keep the types the handlers and the pages give them.
THEOREM TypesHold == Spec => []TypeOK
<1>1. AccountsInv => TypeOK
  <2> SUFFICES ASSUME AccountsInv  PROVE TypeOK
    OBVIOUS
  <2>1. ASSUME scene = "mail", NEW w \in Windows
        PROVE  /\ account.password \in Passwords \cup {""}
               /\ view[w].link \in 0..Len(links)
               /\ request[w].state = "mailing" => request[w].link \in DOMAIN links
               /\ request[w].state = "checked" /\ view[w].route # "signup" => view[w].link # 0
    <3>1. MailInv
      BY <2>1 DEF AccountsInv
    <3>2. GoodPage(view[w], request[w]) /\ account.password \in Typed
      BY <3>1, PagesOfMail, AccountOfMail DEF AccountRow
    <3> QED  BY <3>2 DEF GoodPage, Fits, Typed
  <2>2. scene = "mail" => account.password \in Passwords \cup {""}
    BY AccountOfMail DEF AccountsInv, AccountRow, Typed
  <2>3. ASSUME scene = "gate"
        PROVE  /\ cookie \in BOOLEAN /\ user \in BOOLEAN /\ totp.secret \in 0..minted /\ confirmed \subseteq 1..minted
               /\ \A t \in Tabs :
                    /\ tab[t].entry.known \in {"none", "in", "out", "failed"}
                    /\ tab[t].shown \in 0..minted
                    /\ tab[t].step = "confirm" => tab[t].shown # 0
                    /\ tab[t].at = "login" => tab[t].step = "idle"
    BY <2>3 DEF AccountsInv, GateInv, GoodTab, TabRow, EntryRow
  <2> QED  BY <2>1, <2>2, <2>3 DEF TypeOK
<1> QED  BY <1>1, AccountsInvariant, PTL

\* A mailed token of sign-up or reset is redeemed once, unless two requests
\* checked it before either had marked it used (auth_signup.py reads the token
\* and marks it in two transactions).
THEOREM LinksAreRedeemedOnce == Spec => []LinkRedeemedOnce
<1>1. AccountsInv => LinkRedeemedOnce
  <2> SUFFICES ASSUME AccountsInv, NEW l \in DOMAIN links
               PROVE  links[l].uses <= 1 \/ links[l].overlapped
    BY DEF LinkRedeemedOnce
  <2>1. CASE scene = "mail"
    BY <2>1 DEF AccountsInv, MailInv, SingleRedeemer
  <2>2. CASE scene = "gate"
    <3>1. links = <<>>
      BY <2>2 DEF AccountsInv
    <3> QED  BY <3>1
  <2> QED  BY <2>1, <2>2 DEF AccountsInv
<1> QED  BY <1>1, AccountsInvariant, PTL

\* A page that reports success tells the truth, whichever requests were lost,
\* repeated or overtaken by others.
THEOREM PagesAreTruthful == Spec => []PagesTellTheTruth
<1>1. AccountsInv => PagesTellTheTruth
  BY DEF AccountsInv, MailInv, GoodPage, Succeeds, Truth, PagesTellTheTruth
<1> QED  BY <1>1, AccountsInvariant, PTL

\* A second factor that a login must give is one whose code was entered, for
\* any number of tabs with a card each, unless a setup or a disable ran between
\* the check and the write of a confirmation.
THEOREM SecretsArePaired == Spec => []EnabledSecretIsPaired
<1>1. AccountsInv => EnabledSecretIsPaired
  BY DEF AccountsInv, GateInv, Paired, Required, EnabledSecretIsPaired
<1> QED  BY <1>1, AccountsInvariant, PTL

\* A tab that was logged out does not show the application while nobody logs
\* in, however the fetches and calls of the tabs interleave.
THEOREM LogoutsStick == Spec => []LogoutSticks
<1>1. AccountsInv => LogoutSticks
  BY DEF AccountsInv, GateInv, GoodTab, ShowsApp, LogoutSticks
<1> QED  BY <1>1, AccountsInvariant, PTL

=============================================================================
