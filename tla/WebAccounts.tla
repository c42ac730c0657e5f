---------------------------- MODULE WebAccounts ----------------------------
(***************************************************************************)
(* The way into the application: a behaviour is either the life of one     *)
(* address from sign-up to password reset, or the life of a session in     *)
(* several tabs.  The two meet in the password alone: a login is tried with *)
(* a right or a wrong one.                                                 *)
(***************************************************************************)
EXTENDS AccountMail, SessionGate

VARIABLE scene
vars == <<scene, mailVars, gateVars>>

Init ==
    \/ /\ scene = "mail" /\ MailInit
       /\ cookie = FALSE /\ user = FALSE /\ totp = "none" /\ minted = 0 /\ tab = "none" /\ sent = "none"
       /\ confirmed = {} /\ crossed = FALSE /\ budget = "none"
    \/ /\ scene = "gate" /\ GateInit
       /\ account = "none" /\ links = <<>> /\ view = "none" /\ request = "none"
       /\ written = {} /\ mishaps = 0

InTheMail == scene = "mail" /\ MailStep /\ UNCHANGED <<scene, gateVars>>
AtTheGate == scene = "gate" /\ GateStep /\ UNCHANGED <<scene, mailVars>>

Next == InTheMail \/ AtTheGate

Gated(A) == scene = "gate" /\ A /\ UNCHANGED <<scene, mailVars>>

\* A render follows every change, answers arrive or fail, and time passes.
\* Nothing is assumed of the users.
Fairness ==
    /\ WF_vars(Gated(\E t \in Tabs : Renders(t)))
    /\ WF_vars(Gated(\E t \in Tabs : AnswerSession(t)))
    /\ WF_vars(Gated(\E t \in Tabs : FillSession(t)))
    /\ WF_vars(Gated(\E t \in Tabs : AnswerWork(t)))
    /\ WF_vars(Gated(\E t \in Tabs : SessionAges(t)))

Spec == Init /\ [][Next]_vars /\ Fairness

-----------------------------------------------------------------------------
TypeOK ==
    /\ scene = "mail" =>
         /\ account.password \in Passwords \cup {""}
         /\ \A w \in Windows :
              /\ view[w].link \in 0..Len(links)
              /\ request[w].state = "mailing" => request[w].link \in DOMAIN links
              /\ request[w].state = "checked" /\ view[w].route # "signup" => view[w].link # 0
    /\ scene = "gate" =>
         /\ cookie \in BOOLEAN /\ user \in BOOLEAN /\ totp.secret \in 0..minted /\ confirmed \subseteq 1..minted
         /\ \A t \in Tabs :
              /\ tab[t].entry.known \in {"none", "in", "out", "failed"}
              /\ tab[t].shown \in 0..minted
              /\ tab[t].step = "confirm" => tab[t].shown # 0
              /\ tab[t].at = "login" => tab[t].step = "idle"

\* A mailed token is redeemed once, unless two requests checked it before
\* either had marked it used.
LinkRedeemedOnce == \A l \in DOMAIN links : links[l].uses <= 1 \/ links[l].overlapped

\* A page that reports success tells the truth: the address has an account,
\* the address is confirmed, or the password that was typed twice has been
\* stored with this page's token.
PagesTellTheTruth ==
    scene = "mail" => \A w \in Windows : view[w].status = "done" =>
        /\ view[w].route = "signup" => account.exists
        /\ view[w].route = "verify" => account.verified
        /\ view[w].route = "reset" => /\ view[w].first = view[w].second
                                      /\ <<view[w].link, view[w].first>> \in written

\* A second factor that is required is one whose code the user has entered,
\* in whatever tab, unless a new setup ran between check and write of the
\* confirmation.
EnabledSecretIsPaired ==
    scene = "gate" /\ ~crossed /\ Required(totp) => totp.secret \in confirmed

\* Having logged out, a tab shows the application again only after a login,
\* here or in another tab, or when the card's answer comes late.
LogoutSticks ==
    scene = "gate" => \A t \in Tabs : tab[t].left /\ ~cookie => ~ShowsApp(tab[t])

\* A tab whose request was refused does not go back and forth between the
\* application and the login for ever: it shows the form, or the application
\* with all its requests answered, or somebody logs in or moves on.  Not so for
\* a good cookie of a deleted user, nor while the reads of users keep failing
\* (their number is bounded): the session is answered from the signature.
Restless(T) == T.bounced /\ ~ShowsForm(T) /\ ~(ShowsApp(T) /\ T.ask = "none")
Orphaned == cookie /\ ~user

BounceEnds ==
    (scene = "gate" /\ ~Orphaned /\ \E t \in Tabs : Restless(tab[t]))
      ~> (scene = "gate" /\ (Orphaned \/ \A t \in Tabs : ~Restless(tab[t])))

\* "On 401 we dispatch a custom event so the router can redirect to /login"
\* (web/src/lib/api.ts:3): whoever the cookie belongs to, a refused tab comes
\* to rest.
RefusedTabRests ==
    (scene = "gate" /\ \E t \in Tabs : Restless(tab[t]))
      ~> (scene = "gate" /\ \A t \in Tabs : ~Restless(tab[t]))
=============================================================================
