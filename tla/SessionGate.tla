---------------------------- MODULE SessionGate ----------------------------
(***************************************************************************)
(* Who may see the application: the session cookie, the second factor, and *)
(* in every tab the cached answer of /api/auth/session, the login page, the *)
(* gate of the application shell and the card that switches the second     *)
(* factor on and off.  The tabs share the cookie, and each has a cache of   *)
(* its own.  A secret is a number, and a code is the number of the secret   *)
(* it was computed from (0: a code of none).                               *)
(***************************************************************************)
EXTENDS Integers

CONSTANTS Tabs,
          MaxSecrets,  \* bound: secrets generated
          MaxSubmits,  \* bound: forms sent (login, logout, setup, enable, disable)
          MaxVisits,   \* bound: with one tab open, how often its pages ask for
                       \* something, the courses age and the window gets the focus
          MaxTrouble   \* bound: with one tab open, lost requests, failed reads,
                       \* the expiry of the cookie, the deletion of the user

VARIABLES cookie,      \* does the browser hold a valid session cookie?
          user,        \* is users.deleted_at null?
          totp,        \* users.totp_enabled and totp_secret (0: null)
          minted,      \* secrets generated so far
          tab, sent,
          confirmed,   \* ghost: the secrets a code was accepted for
          crossed,     \* ghost: the secret was replaced between check and write
          budget

gateVars == <<cookie, user, totp, minted, tab, sent, confirmed, crossed, budget>>

Hooks == {"login", "logout", "setup", "enable", "disable"}
NoCall == [state |-> "none"]
NoFetch == [state |-> "idle", in |-> FALSE, on |-> FALSE]
AskSession == [state |-> "asked", in |-> cookie, on |-> FALSE]
Unknown == [known |-> "none", on |-> FALSE, stale |-> TRUE]
Session(in, on) == [known |-> IF in THEN "in" ELSE "out", on |-> on, stale |-> FALSE]

\* ask is the request of some page: the shell's courses when it mounts, or
\* any other; it carries the cookie of the moment.
Ask == IF cookie THEN "signed" ELSE "unsigned"

Spend(what) == budget[what] > 0 /\ budget' = [budget EXCEPT ![what] = @ - 1]

(***************************************************************************)
(* Mounting a page.  The session is fetched unless fresh.                  *)
(***************************************************************************)
\* Faulty: what the cache knows is never asked for again.
AskOnce(T) == IF T.fetch.state = "idle" /\ T.entry.known = "none"
              THEN [T EXCEPT !.fetch = AskSession] ELSE T

Refetch(T) == IF T.fetch.state = "idle" /\ T.entry.stale
              THEN [T EXCEPT !.fetch = AskSession] ELSE T

\* Faulty: the card lives on behind the login page.
KeepCard(T) == Refetch([T EXCEPT !.at = "login", !.needs = FALSE])

AtLogin(T) == Refetch([T EXCEPT !.at = "login", !.needs = FALSE, !.step = "idle", !.shown = 0])

\* The shell asks for the courses unless they are fresh.
AtApp(T) == Refetch([T EXCEPT !.at = "app", !.step = "idle", !.shown = 0,
                              !.ask = IF ~T.courses /\ T.ask = "none" THEN Ask ELSE @])

\* Navigating takes the card's component away: what its calls bring back
\* still enters the cache, but no longer the component.
Detached(t) == [sent EXCEPT ![t] =
    [h \in Hooks |-> IF sent[t][h].state = "none" THEN NoCall
                     ELSE [sent[t][h] EXCEPT !.live = FALSE]]]

Loading == [at |-> "app", entry |-> Unknown, fetch |-> NoFetch, courses |-> FALSE,
            ask |-> "none", needs |-> FALSE, step |-> "idle", shown |-> 0,
            bounced |-> FALSE, \* ghost: a request was refused since the user's last action
            left |-> FALSE]    \* ghost: logged out here, and nobody in again

Closed == [Loading EXCEPT !.at = "closed"]
Alone == CHOOSE t \in Tabs : TRUE

\* At work: the application was opened before, and the session is in the cache.
Working == [Loading EXCEPT !.entry = Session(TRUE, FALSE), !.courses = TRUE]

\* One tab that loads either page, or all of them at work.
GateInit ==
    /\ cookie \in BOOLEAN /\ user = TRUE
    /\ totp = [enabled |-> FALSE, secret |-> 0] /\ minted = 0
    /\ \/ /\ tab \in {[t \in Tabs |-> IF t = Alone THEN T ELSE Closed] :
                        T \in {AtApp(Loading), AtLogin(Loading)}}
          /\ budget = [submits |-> MaxSubmits, visits |-> MaxVisits, trouble |-> MaxTrouble]
       \/ /\ cookie /\ tab = [t \in Tabs |-> Working]
          /\ budget = [submits |-> MaxSubmits, visits |-> 0, trouble |-> 0]
    /\ sent = [t \in Tabs |-> [h \in Hooks |-> NoCall]]
    /\ confirmed = {} /\ crossed = FALSE

ShowsForm(T) == T.at = "login" /\ T.entry.known # "in"
ShowsApp(T) == T.at = "app" /\ T.entry.known = "in"
Become(t, T) == tab' = [tab EXCEPT ![t] = T]

(***************************************************************************)
(* The gate: renders follow the cached session.                            *)
(***************************************************************************)
LetIn(t) ==
    /\ tab[t].at = "login" /\ tab[t].entry.known = "in"
    /\ Become(t, AtApp(tab[t]))
    /\ UNCHANGED <<cookie, user, totp, minted, sent, confirmed, crossed, budget>>

KeepOut(t) ==
    /\ tab[t].at = "app" /\ tab[t].entry.known \in {"out", "failed"}
    /\ Become(t, AtLogin(tab[t]))
    /\ sent' = Detached(t)
    /\ UNCHANGED <<cookie, user, totp, minted, confirmed, crossed, budget>>

(***************************************************************************)
(* Reading the session.                                                    *)
(***************************************************************************)
\* get_state answers "off" when the database cannot be read.
TotpState(readable) == IF readable THEN totp ELSE [enabled |-> FALSE, secret |-> 0]
Required(state) == state.enabled /\ state.secret # 0
Readable(readable) == IF readable THEN UNCHANGED budget ELSE Spend("trouble")

AnswerSession(t) ==
    /\ tab[t].fetch.state = "asked"
    /\ \E readable \in BOOLEAN :
         /\ Readable(readable)
         /\ Become(t, [tab[t] EXCEPT !.fetch.state = "answered",
                                     !.fetch.on = Required(TotpState(readable))])
    /\ UNCHANGED <<cookie, user, totp, minted, sent, confirmed, crossed>>

FillSession(t) ==
    /\ tab[t].fetch.state = "answered"
    /\ Become(t, [tab[t] EXCEPT !.entry = Session(tab[t].fetch.in, tab[t].fetch.on),
                                !.fetch = NoFetch])
    /\ UNCHANGED <<cookie, user, totp, minted, sent, confirmed, crossed, budget>>

\* After the retries the query is in error, and keeps the data it had.
LoseSession(t) ==
    /\ tab[t].fetch.state # "idle" /\ Spend("trouble")
    /\ Become(t, [tab[t] EXCEPT !.fetch = NoFetch, !.entry.stale = TRUE,
                    !.entry.known = IF @ = "none" THEN "failed" ELSE @])
    /\ UNCHANGED <<cookie, user, totp, minted, sent, confirmed, crossed>>

\* The session is good for 60 seconds, the courses for five minutes.
SessionAges(t) ==
    /\ tab[t].entry.known \in {"in", "out"} /\ ~tab[t].entry.stale
    /\ Become(t, [tab[t] EXCEPT !.entry.stale = TRUE])
    /\ UNCHANGED <<cookie, user, totp, minted, sent, confirmed, crossed, budget>>

CoursesAge(t) ==
    /\ tab[t].courses
    /\ Spend("visits")
    /\ Become(t, [tab[t] EXCEPT !.courses = FALSE])
    /\ UNCHANGED <<cookie, user, totp, minted, sent, confirmed, crossed>>

Focus(t) ==
    /\ tab[t].at # "closed" /\ tab[t].fetch.state = "idle" /\ tab[t].entry.stale
    /\ Spend("visits")
    /\ Become(t, Refetch(tab[t]))
    /\ UNCHANGED <<cookie, user, totp, minted, sent, confirmed, crossed>>

\* Any page asks for anything.
Work(t) ==
    /\ ShowsApp(tab[t]) /\ tab[t].ask = "none"
    /\ Spend("visits")
    /\ Become(t, [tab[t] EXCEPT !.ask = Ask, !.bounced = FALSE])
    /\ UNCHANGED <<cookie, user, totp, minted, sent, confirmed, crossed>>

\* A 401 raises an event; the shell, when it is mounted, goes to the login.
Refused(T) ==
    IF T.at = "app" THEN AtLogin([T EXCEPT !.bounced = TRUE]) ELSE T

\* A request for data loads the user of its cookie, where the session is
\* answered from the signature alone: no row, or a read that fails, is a 401.
AnswerWork(t) ==
    /\ tab[t].ask # "none"
    /\ \E readable \in BOOLEAN :
         /\ tab[t].ask = "unsigned" => readable
         /\ Readable(readable)
         /\ IF tab[t].ask = "signed" /\ user /\ readable
            THEN Become(t, [tab[t] EXCEPT !.ask = "none", !.courses = TRUE]) /\ UNCHANGED sent
            ELSE /\ Become(t, Refused([tab[t] EXCEPT !.ask = "none"]))
                 /\ sent' = IF tab[t].at = "app" THEN Detached(t) ELSE sent
    /\ UNCHANGED <<cookie, user, totp, minted, confirmed, crossed>>

CookieExpires ==
    /\ cookie /\ cookie' = FALSE /\ Spend("trouble")
    /\ UNCHANGED <<user, totp, minted, tab, sent, confirmed, crossed>>

\* The operator deletes the user by hand: deleted_at is set, the second factor
\* stays in the row.
UserDeleted ==
    /\ user /\ user' = FALSE /\ Spend("trouble")
    /\ UNCHANGED <<cookie, totp, minted, tab, sent, confirmed, crossed>>

(***************************************************************************)
(* Forms.  A call carries its code and the cookie of the moment; answer is *)
(* what the server said.                                                   *)
(***************************************************************************)
Call(code) == [state |-> "sent", code |-> code, in |-> cookie, answer |-> "none",
               on |-> FALSE, live |-> TRUE]

Send(t, hook, code) ==
    /\ sent[t][hook].state = "none"
    /\ Spend("submits")
    /\ sent' = [sent EXCEPT ![t][hook] = Call(code)]
    /\ tab' = [tab EXCEPT ![t].bounced = FALSE]
    /\ UNCHANGED <<cookie, user, totp, minted, confirmed, crossed>>

\* What the user can read off the authenticator, 0 for a mistyped code.
Codes == 0..minted
NoCode == 0 - 1

SubmitLogin(t) ==
    /\ ShowsForm(tab[t])
    /\ \E code \in (IF tab[t].needs THEN Codes ELSE {NoCode}) : Send(t, "login", code)

SubmitLogout(t) == ShowsApp(tab[t]) /\ Send(t, "logout", NoCode)

StartSetup(t) ==
    /\ ShowsApp(tab[t]) /\ ~tab[t].entry.on /\ tab[t].step = "idle"
    /\ Send(t, "setup", NoCode)

Confirm(t) ==
    /\ ShowsApp(tab[t]) /\ ~tab[t].entry.on /\ tab[t].step = "confirm"
    /\ \E code \in {0, tab[t].shown} : Send(t, "enable", code)

SwitchOff(t) ==
    /\ ShowsApp(tab[t]) /\ tab[t].entry.on /\ tab[t].step = "disable"
    /\ \E code \in Codes : Send(t, "disable", code)

\* Cancel does not take back a call that is under way.
TurnCard(t) ==
    /\ ShowsApp(tab[t])
    /\ \/ tab[t].entry.on /\ tab[t].step # "disable"
          /\ Become(t, [tab[t] EXCEPT !.step = "disable"])
       \/ tab[t].step = (IF tab[t].entry.on THEN "disable" ELSE "confirm")
          /\ Become(t, [tab[t] EXCEPT !.step = "idle",
                                      !.shown = IF tab[t].entry.on THEN @ ELSE 0])
    /\ UNCHANGED <<cookie, user, totp, minted, sent, confirmed, crossed, budget>>

(***************************************************************************)
(* The server.                                                             *)
(***************************************************************************)
Answers(t, hook, answer) ==
    sent' = [sent EXCEPT ![t][hook].state = "answered", ![t][hook].answer = answer]

Verdict(code, state) ==
    IF ~Required(state) \/ code = state.secret THEN "ok"
    ELSE IF code = NoCode THEN "code wanted" ELSE "wrong code"

ServeLogin(t) ==
    /\ sent[t]["login"].state = "sent"
    /\ \/ Answers(t, "login", "wrong password") /\ UNCHANGED budget
       \/ Answers(t, "login", "too many") /\ UNCHANGED budget
       \/ \E readable \in BOOLEAN :
            /\ user /\ Readable(readable)
            /\ LET state == TotpState(readable)
                   call == sent[t]["login"]
               IN sent' = [sent EXCEPT ![t]["login"] =
                    [call EXCEPT !.state = "answered", !.on = state.enabled,
                                 !.answer = Verdict(call.code, state)]]
    /\ UNCHANGED <<cookie, user, totp, minted, tab, confirmed, crossed>>

ServeLogout(t) ==
    /\ sent[t]["logout"].state = "sent"
    /\ Answers(t, "logout", "ok")
    /\ UNCHANGED <<cookie, user, totp, minted, tab, confirmed, crossed, budget>>

\* A card call without a session is refused like any request.
ServeStranger(t) ==
    /\ \E hook \in {"setup", "enable", "disable"} :
         sent[t][hook].state = "sent" /\ ~sent[t][hook].in /\ Answers(t, hook, "refused")
    /\ UNCHANGED <<cookie, user, totp, minted, tab, confirmed, crossed, budget>>

Arrived(t, hook) == sent[t][hook].state = "sent" /\ sent[t][hook].in
Checked(hooks) == \E t \in Tabs, h \in hooks : sent[t][h].state = "checked"

\* Faulty: the factor stays enabled while its secret is replaced.
KeepEnabled(secret) == [totp EXCEPT !.secret = secret]

SetPending(secret) == [enabled |-> FALSE, secret |-> secret]

ServeSetup(t) ==
    /\ Arrived(t, "setup") /\ minted < MaxSecrets
    /\ minted' = minted + 1
    /\ totp' = SetPending(minted')
    /\ crossed' = (crossed \/ Checked({"enable"}))
    /\ sent' = [sent EXCEPT ![t]["setup"].state = "answered", ![t]["setup"].answer = "ok",
                            ![t]["setup"].code = minted']
    /\ UNCHANGED <<cookie, user, tab, confirmed, budget>>

CheckEnable(t) ==
    /\ Arrived(t, "enable")
    /\ \E readable \in BOOLEAN :
         LET state == TotpState(readable)
             code == sent[t]["enable"].code
         IN /\ Readable(readable)
            /\ \/ /\ state.secret = 0 /\ Answers(t, "enable", "nothing pending")
                  /\ UNCHANGED confirmed
               \/ /\ state.secret # 0 /\ code # state.secret /\ Answers(t, "enable", "refused")
                  /\ UNCHANGED confirmed
               \/ /\ state.secret # 0 /\ code = state.secret
                  /\ sent' = [sent EXCEPT ![t]["enable"].state = "checked"]
                  /\ confirmed' = confirmed \cup {code}
    /\ UNCHANGED <<cookie, user, totp, minted, tab, crossed>>

WriteEnable(t) ==
    /\ sent[t]["enable"].state = "checked"
    /\ totp' = [totp EXCEPT !.enabled = TRUE]
    /\ Answers(t, "enable", "ok")
    /\ UNCHANGED <<cookie, user, minted, tab, confirmed, crossed, budget>>

CheckDisable(t) ==
    /\ Arrived(t, "disable")
    /\ \E readable \in BOOLEAN :
         LET state == TotpState(readable)
         IN /\ Readable(readable)
            /\ IF Required(state) /\ sent[t]["disable"].code = state.secret
               THEN sent' = [sent EXCEPT ![t]["disable"].state = "checked"]
               ELSE Answers(t, "disable", "refused")
    /\ UNCHANGED <<cookie, user, totp, minted, tab, confirmed, crossed>>

WriteDisable(t) ==
    /\ sent[t]["disable"].state = "checked"
    /\ totp' = [enabled |-> FALSE, secret |-> 0]
    /\ crossed' = (crossed \/ Checked({"enable"}))
    /\ Answers(t, "disable", "ok")
    /\ UNCHANGED <<cookie, user, minted, tab, confirmed, budget>>

(***************************************************************************)
(* Answers.                                                                *)
(***************************************************************************)
Over(t, hook, calls) == [calls EXCEPT ![t][hook] = NoCall]
HasAnswer(t, hook) == sent[t][hook].state = "answered"

\* A success writes the cookie and the session and asks for everything again.
LoggedIn(t) ==
    /\ HasAnswer(t, "login") /\ sent[t]["login"].answer = "ok"
    /\ cookie' = TRUE
    /\ LET T == [tab[t] EXCEPT !.entry = [Session(TRUE, sent[t]["login"].on) EXCEPT !.stale = TRUE],
                               !.fetch = [AskSession EXCEPT !.in = TRUE],
                               !.courses = FALSE,
                               !.ask = IF @ = "none" THEN "signed" ELSE @]
           shown == [tab EXCEPT ![t] = IF T.at = "login" THEN AtApp(T) ELSE T]
       IN tab' = [s \in Tabs |-> [shown[s] EXCEPT !.left = FALSE]]
    /\ sent' = Over(t, "login", sent)
    /\ UNCHANGED <<user, totp, minted, confirmed, crossed, budget>>

NotLoggedIn(t) ==
    /\ HasAnswer(t, "login") /\ sent[t]["login"].answer # "ok"
    /\ LET answer == sent[t]["login"].answer
           T == [tab[t] EXCEPT !.needs = (@ \/ answer = "code wanted") /\ answer # "wrong password"]
       IN Become(t, IF answer = "too many" THEN T ELSE Refused(T))
    /\ sent' = Over(t, "login", IF tab[t].at = "app" /\ sent[t]["login"].answer # "too many"
                                THEN Detached(t) ELSE sent)
    /\ UNCHANGED <<cookie, user, totp, minted, confirmed, crossed, budget>>

\* Faulty: only the session is dropped, its fetch goes on.
ForgetSession(T) == [T EXCEPT !.entry = Unknown, !.courses = FALSE]

\* qc.clear(): the cache is empty, and the fetches under way fill nothing.
Cleared(T) == [T EXCEPT !.entry = Unknown, !.fetch = NoFetch, !.courses = FALSE, !.ask = "none"]

LoggedOut(t) ==
    /\ HasAnswer(t, "logout")
    /\ cookie' = FALSE
    /\ Become(t, LET T == Cleared(tab[t])
                 IN [T EXCEPT !.at = "login", !.needs = FALSE, !.step = "idle", !.shown = 0,
                              !.left = TRUE, !.bounced = FALSE,
                              !.fetch = IF @.state = "idle" THEN [NoFetch EXCEPT !.state = "asked"] ELSE @])
    /\ sent' = Over(t, "logout", Detached(t))
    /\ UNCHANGED <<user, totp, minted, confirmed, crossed, budget>>

\* What the card does with an answer depends on whether it is still there.
SetUp(t) ==
    /\ HasAnswer(t, "setup") /\ sent[t]["setup"].answer = "ok"
    /\ Become(t, IF sent[t]["setup"].live
                 THEN [tab[t] EXCEPT !.step = "confirm", !.shown = sent[t]["setup"].code]
                 ELSE tab[t])
    /\ sent' = Over(t, "setup", sent)
    /\ UNCHANGED <<cookie, user, totp, minted, confirmed, crossed, budget>>

Switched(t) ==
    /\ \E hook \in {"enable", "disable"} :
         /\ HasAnswer(t, hook) /\ sent[t][hook].answer = "ok"
         /\ LET T == [tab[t] EXCEPT !.entry = Session(TRUE, hook = "enable"), !.left = FALSE]
            IN Become(t, IF sent[t][hook].live
                         THEN [T EXCEPT !.step = "idle", !.shown = IF hook = "enable" THEN 0 ELSE @]
                         ELSE T)
         /\ sent' = Over(t, hook, sent)
    /\ UNCHANGED <<cookie, user, totp, minted, confirmed, crossed, budget>>

\* A wrong code is a 401 as well: the shell goes to the login, and comes back
\* with a new card.
CardRefused(t) ==
    /\ \E hook \in {"setup", "enable", "disable"} :
         /\ HasAnswer(t, hook) /\ sent[t][hook].answer \in {"refused", "nothing pending"}
         /\ LET shut == sent[t][hook].answer = "refused" /\ tab[t].at = "app"
            IN /\ Become(t, IF shut THEN Refused(tab[t]) ELSE tab[t])
               /\ sent' = Over(t, hook, IF shut THEN Detached(t) ELSE sent)
    /\ UNCHANGED <<cookie, user, totp, minted, confirmed, crossed, budget>>

\* A form's request or its answer is lost; the answer's cookie with it.
LoseCall(t) ==
    /\ Spend("trouble")
    /\ \E hook \in Hooks :
         sent[t][hook].state \in {"sent", "answered"} /\ sent' = Over(t, hook, sent)
    /\ UNCHANGED <<cookie, user, totp, minted, tab, confirmed, crossed>>

Renders(t) == LetIn(t) \/ KeepOut(t)
Travels(t) == AnswerSession(t) \/ FillSession(t) \/ AnswerWork(t)
UserActs(t) == SubmitLogin(t) \/ SubmitLogout(t) \/ StartSetup(t) \/ Confirm(t)
            \/ SwitchOff(t) \/ TurnCard(t) \/ Work(t) \/ Focus(t)
Serves(t) == ServeLogin(t) \/ ServeLogout(t) \/ ServeStranger(t) \/ ServeSetup(t)
          \/ CheckEnable(t) \/ WriteEnable(t) \/ CheckDisable(t) \/ WriteDisable(t)
Returns(t) == LoggedIn(t) \/ NotLoggedIn(t) \/ LoggedOut(t) \/ SetUp(t) \/ Switched(t)
           \/ CardRefused(t) \/ LoseCall(t)

GateStep ==
    \/ \E t \in Tabs :
         \/ Renders(t) \/ Travels(t) \/ LoseSession(t) \/ SessionAges(t) \/ CoursesAge(t)
         \/ UserActs(t) \/ Serves(t) \/ Returns(t)
    \/ CookieExpires \/ UserDeleted
=============================================================================
