---------------------------- MODULE AccountMail ----------------------------
(***************************************************************************)
(* Signing up, confirming the address and resetting the password: the four *)
(* public pages of the web application and the token handlers behind them  *)
(* (app/services/auth_signup.py), for one address.  A handler checks in one *)
(* transaction and writes in another, and other requests run in between;   *)
(* mails are sent after the commit and may fail.                           *)
(***************************************************************************)
EXTENDS Integers, Sequences

CONSTANTS Windows,     \* the browser windows where the pages are open
          Passwords,   \* what the user may type
          MaxLinks,    \* bound: tokens minted
          MaxMishaps   \* bound: lost requests, failed mails, tokens that expire

VARIABLES account,     \* the users row of the address
          links,       \* email_verifications and password_resets
          view,        \* per window, its page
          request,     \* per window, the request its page waits for
          written,     \* ghost: <<link, password>> of every reset that committed
          mishaps

mailVars == <<account, links, view, request, written, mishaps>>

NoRequest == [state |-> "none", status |-> "none", link |-> 0]
Page(route, link) ==
    [route |-> route, link |-> link, status |-> "form", first |-> "", second |-> "",
     stale |-> FALSE]
Sent == [state |-> "sent", status |-> "none", link |-> 0]
Mailing(l) == [state |-> "mailing", status |-> "none", link |-> l]
Replied(status) == [state |-> "answered", status |-> status, link |-> 0]
Link(kind) == [kind |-> kind, used |-> FALSE, expired |-> FALSE, mailed |-> FALSE,
               uses |-> 0,           \* ghost: how often it was redeemed
               overlapped |-> FALSE] \* ghost: two requests checked it together

MailInit ==
    /\ account = [exists |-> FALSE, password |-> "", verified |-> FALSE]
    /\ links = <<>>
    /\ view = [w \in Windows |-> Page("away", 0)]
    /\ request = [w \in Windows |-> NoRequest]
    /\ written = {}
    /\ mishaps = MaxMishaps

Mishap == mishaps > 0 /\ mishaps' = mishaps - 1
Reply(w, status) == request' = [request EXCEPT ![w] = Replied(status)]
Goes(w, state) == request' = [request EXCEPT ![w].state = state]
On(w, route, state) == view[w].route = route /\ request[w].state = state

(***************************************************************************)
(* The pages.  A link opens its page; without a token the page says so and *)
(* sends nothing.                                                          *)
(***************************************************************************)
OpenPage(w) ==
    /\ request[w] = NoRequest
    /\ \/ \E route \in {"signup", "forgot", "reset", "verify"} :
            view' = [view EXCEPT ![w] = Page(route, 0)] /\ UNCHANGED request
       \/ \E l \in DOMAIN links :
            /\ links[l].mailed
            /\ view' = [view EXCEPT ![w] = Page(links[l].kind, l)]
            /\ request' = IF links[l].kind = "verify" THEN [request EXCEPT ![w] = Sent]
                          ELSE request
    /\ UNCHANGED <<account, links, written, mishaps>>

\* Faulty: the two entries are not compared.
SubmitUnread(w, first, second) ==
    /\ view' = [view EXCEPT ![w].first = first, ![w].second = second]
    /\ request' = [request EXCEPT ![w] = Sent]

\* The password is typed twice; a difference is reported and nothing is sent.
SubmitTyped(w, first, second) ==
    /\ view' = [view EXCEPT ![w].first = first, ![w].second = second,
                            ![w].status = IF first = second THEN "form" ELSE "error"]
    /\ request' = IF first = second THEN [request EXCEPT ![w] = Sent] ELSE request

\* The form is gone once the page reported success.
Submit(w) ==
    /\ request[w] = NoRequest /\ view[w].status # "done"
    /\ \/ /\ view[w].route = "signup" \/ (view[w].route = "reset" /\ view[w].link # 0)
          /\ \E first, second \in Passwords : SubmitTyped(w, first, second)
       \/ /\ view[w].route = "forgot"
          /\ view' = [view EXCEPT ![w].status = "form"]
          /\ request' = [request EXCEPT ![w] = Sent]
    /\ UNCHANGED <<account, links, written, mishaps>>

\* The verification is a query: 30 seconds later it is stale, and the next
\* time the window gets the focus it is sent again.
PageAges(w) ==
    /\ view[w].route = "verify" /\ view[w].status = "done" /\ ~view[w].stale
    /\ view' = [view EXCEPT ![w].stale = TRUE]
    /\ UNCHANGED <<account, links, request, written, mishaps>>

VerifyAgain(w) ==
    /\ view[w].route = "verify" /\ view[w].link # 0 /\ request[w] = NoRequest
    /\ view[w].stale \/ view[w].status = "error"
    /\ request' = [request EXCEPT ![w] = Sent]
    /\ UNCHANGED <<account, links, view, written, mishaps>>

Told(w) ==
    /\ request[w].state = "answered"
    /\ view' = [view EXCEPT ![w].status = request[w].status, ![w].stale = FALSE]
    /\ request' = [request EXCEPT ![w] = NoRequest]
    /\ UNCHANGED <<account, links, written, mishaps>>

\* The request does not arrive, or its answer does not.
Lose(w) ==
    /\ request[w].state \in {"sent", "answered"}
    /\ Mishap
    /\ view' = [view EXCEPT ![w].status = "error"]
    /\ request' = [request EXCEPT ![w] = NoRequest]
    /\ UNCHANGED <<account, links, written>>

(***************************************************************************)
(* signup and request_password_reset.                                      *)
(***************************************************************************)
Mint(w, kind) ==
    /\ Len(links) < MaxLinks
    /\ links' = Append(links, Link(kind))
    /\ request' = [request EXCEPT ![w] = Mailing(Len(links'))]

\* An address that is taken is reported as a success, without a mail.
SignupLooks(w) ==
    /\ On(w, "signup", "sent")
    /\ IF account.exists THEN Reply(w, "done") ELSE Goes(w, "checked")
    /\ UNCHANGED <<account, links, view, written, mishaps>>

\* Of two sign-ups that found the address free the second meets the unique
\* constraint.
SignupInserts(w) ==
    /\ On(w, "signup", "checked")
    /\ IF account.exists
       THEN Reply(w, "error") /\ UNCHANGED <<account, links>>
       ELSE /\ account' = [exists |-> TRUE, password |-> view[w].first, verified |-> FALSE]
            /\ Mint(w, "verify")
    /\ UNCHANGED <<view, written, mishaps>>

ForgotInserts(w) ==
    /\ On(w, "forgot", "sent")
    /\ IF account.exists
       THEN Mint(w, "reset")
       ELSE Reply(w, "done") /\ UNCHANGED links
    /\ UNCHANGED <<account, view, written, mishaps>>

SendMail(w) ==
    /\ request[w].state = "mailing"
    /\ \/ links' = [links EXCEPT ![request[w].link].mailed = TRUE] /\ Reply(w, "done")
          /\ UNCHANGED mishaps
       \/ Mishap /\ Reply(w, "error") /\ UNCHANGED links
    /\ UNCHANGED <<account, view, written>>

(***************************************************************************)
(* verify_email and complete_password_reset.                               *)
(***************************************************************************)
\* Faulty: a token that was used before is taken again.
ForgivingLive(l) == ~links[l].expired

Live(l) == ~links[l].used /\ ~links[l].expired

\* Faulty: a token that is used up counts as redeemed.
SilentRefusal(w) == Reply(w, "done")

Refuse(w) == Reply(w, "error")

Redeeming(l) == {w \in Windows : view[w].link = l /\ request[w].state = "checked"}

CheckLink(w) ==
    LET l == view[w].link
    IN /\ view[w].route \in {"reset", "verify"} /\ request[w].state = "sent"
       /\ IF Live(l)
          THEN /\ Goes(w, "checked")
               /\ links' = [links EXCEPT ![l].overlapped = @ \/ Redeeming(l) # {}]
          ELSE Refuse(w) /\ UNCHANGED links
       /\ UNCHANGED <<account, view, written, mishaps>>

RedeemLink(w) ==
    LET l == view[w].link
    IN /\ view[w].route \in {"reset", "verify"} /\ request[w].state = "checked"
       /\ links' = [links EXCEPT ![l].used = TRUE, ![l].uses = @ + 1]
       /\ IF view[w].route = "verify"
          THEN account' = [account EXCEPT !.verified = TRUE] /\ UNCHANGED written
          ELSE /\ account' = [account EXCEPT !.password = view[w].first]
               /\ written' = written \cup {<<l, view[w].first>>}
       /\ Reply(w, "done")
       /\ UNCHANGED <<view, mishaps>>

LinkExpires ==
    /\ Mishap
    /\ \E l \in DOMAIN links :
         ~links[l].expired /\ links' = [links EXCEPT ![l].expired = TRUE]
    /\ UNCHANGED <<account, view, request, written>>

\* Too many attempts from this address (ratelimit.py), or sign-ups are off.
TurnedAway(w) ==
    /\ request[w].state = "sent" /\ view[w].route \in {"signup", "forgot"}
    /\ Reply(w, "error")
    /\ UNCHANGED <<account, links, view, written, mishaps>>

MailStep ==
    \/ \E w \in Windows :
         \/ OpenPage(w) \/ Submit(w) \/ PageAges(w) \/ VerifyAgain(w) \/ Told(w)
         \/ Lose(w) \/ SignupLooks(w) \/ SignupInserts(w) \/ ForgotInserts(w)
         \/ SendMail(w) \/ CheckLink(w) \/ RedeemLink(w) \/ TurnedAway(w)
    \/ LinkExpires
=============================================================================
