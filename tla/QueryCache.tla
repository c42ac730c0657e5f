----------------------------- MODULE QueryCache -----------------------------
(***************************************************************************)
(* The browser's cache of one query (TanStack Query as query-provider.tsx  *)
(* configures it) while the hooks of queries.ts read and write the server. *)
(*                                                                         *)
(* The cache keeps its keys apart, so a behaviour follows one query,       *)
(* chosen at the start.  The server's versions of what it reads are        *)
(* counted: server is the sequence of versions, and everything the browser *)
(* knows is an index into it (0: nothing).  A mutation is a call with      *)
(* three moments, sent, applied by the server, and answered; an answer may *)
(* be lost after the server applied the call.  At most one fetch of a      *)
(* query is in flight.  Pages extend this module with what they do in the  *)
(* same steps: a call carries their job.                                   *)
(***************************************************************************)
EXTENDS QueryHooks, Integers, Sequences

CONSTANTS Calls,       \* the calls that may be in flight together
          MaxSurprises \* bound: failed requests, and writes by others (the bot,
                       \* the agents, another tab)

VARIABLES query, server, entry, fetch, mounted, calls,
          own,         \* ghost: newest version a success told this browser of
          raced,       \* ghost: older data may take the place of a success
          budget

cacheVars == <<query, server, entry, fetch, mounted, calls, own, raced, budget>>

Now == Len(server)
NoEntry == [data |-> 0, stale |-> TRUE, error |-> FALSE]
Idle == [state |-> "idle", rev |-> 0, tries |-> 0]
Asked(tries) == [state |-> "asked", rev |-> 0, tries |-> tries]
NoCall == [state |-> "none"]

CacheInit(q, value, sends) ==
    /\ query = q
    /\ server = <<value>>
    /\ entry = NoEntry
    /\ fetch = Idle
    /\ mounted = FALSE
    /\ calls = [c \in Calls |-> NoCall]
    /\ own = 0
    /\ raced = FALSE
    /\ budget = [calls |-> sends, surprises |-> MaxSurprises]

Spend(what) == budget[what] > 0 /\ budget' = [budget EXCEPT ![what] = @ - 1]

(***************************************************************************)
(* The query.                                                              *)
(***************************************************************************)
\* A component using the query appears: it asks unless the data are fresh.
Mount ==
    /\ ~mounted
    /\ mounted' = TRUE
    /\ fetch' = IF fetch.state = "idle" /\ (entry.data = 0 \/ entry.stale)
                THEN Asked(0) ELSE fetch
    /\ UNCHANGED <<query, server, entry, calls, own, raced, budget>>

\* A fetch in flight goes on without an observer.
Unmount ==
    /\ mounted
    /\ mounted' = FALSE
    /\ UNCHANGED <<query, server, entry, fetch, calls, own, raced, budget>>

\* staleTime passes.
Age ==
    /\ entry.data # 0 /\ ~entry.stale
    /\ entry' = [entry EXCEPT !.stale = TRUE]
    /\ UNCHANGED <<query, server, fetch, mounted, calls, own, raced, budget>>

\* The window gets the focus, or the network comes back.
Focus ==
    /\ mounted /\ fetch.state = "idle" /\ entry.stale
    /\ fetch' = Asked(0)
    /\ UNCHANGED <<query, server, entry, mounted, calls, own, raced, budget>>

\* gcTime passes without an observer.
Collect ==
    /\ ~mounted /\ fetch.state = "idle" /\ entry # NoEntry
    /\ entry' = NoEntry
    /\ UNCHANGED <<query, server, fetch, mounted, calls, own, raced, budget>>

\* The server reads: the answer travels with the version of this moment.
Answer ==
    /\ fetch.state = "asked"
    /\ fetch' = [fetch EXCEPT !.state = "answered", !.rev = Now]
    /\ UNCHANGED <<query, server, entry, mounted, calls, own, raced, budget>>

\* Fresh data also clear an invalidation that came while they travelled.
Fill ==
    /\ fetch.state = "answered"
    /\ entry' = [data |-> fetch.rev, stale |-> FALSE, error |-> FALSE]
    /\ raced' = (raced /\ fetch.rev < own)
    /\ fetch' = Idle
    /\ UNCHANGED <<query, server, mounted, calls, own, budget>>

\* Two retries, none after a 401.
Retries(unauthenticated, tries) == ~unauthenticated /\ tries < 2

FetchFails ==
    /\ fetch.state # "idle"
    /\ Spend("surprises")
    /\ \E unauthenticated \in BOOLEAN :
         IF Retries(unauthenticated, fetch.tries)
         THEN fetch' = Asked(fetch.tries + 1) /\ UNCHANGED entry
         ELSE fetch' = Idle /\ entry' = [entry EXCEPT !.error = TRUE]
    /\ UNCHANGED <<query, server, mounted, calls, own, raced>>

(***************************************************************************)
(* Mutations.                                                              *)
(***************************************************************************)
EffectOn(m, q) ==
    [touches |-> Touches(m, q), sets |-> Overwrites(m, q),
     marks |-> Marks(m, q), owes |-> Touches(m, q) /\ ~Untold(m, q)]

Send(c, m, job) ==
    /\ calls[c].state = "none"
    /\ Spend("calls")
    /\ calls' = [calls EXCEPT ![c] =
                   [state |-> "sent", rev |-> 0, effect |-> EffectOn(m, query), job |-> job]]

\* The server executes the call; value is what it leaves for the query.
Apply(c, value) ==
    /\ calls[c].state = "sent"
    /\ server' = IF calls[c].effect.touches THEN Append(server, value) ELSE server
    /\ calls' = [calls EXCEPT ![c].state = "applied", ![c].rev = Len(server')]
    /\ UNCHANGED <<query, entry, fetch, mounted, own, raced, budget>>

\* setQueryData and invalidateQueries.  A marked query that is on screen is
\* fetched again; a fetch already under way is dropped for the new one,
\* except the very first load, which has no data to fall back to.
Restarts(effect, shown) ==
    effect.marks /\ mounted /\ (fetch.state = "idle" \/ shown.data # 0)

Overwritten(effect, rev) ==
    IF effect.sets THEN [data |-> rev, stale |-> FALSE, error |-> FALSE] ELSE entry

\* Ghost: data read before the call was executed go on travelling (no page
\* shows the query, its very first load is under way, or the hook sets the
\* query and does not invalidate it), and will count as fresh; or the response
\* put into the cache is older than one that came before it.
Races(effect, rev, restarts) ==
    \/ fetch.state = "answered" /\ fetch.rev < rev /\ ~restarts
    \/ effect.sets /\ ~effect.marks /\ rev < own

Settle(effect, rev) ==
    LET shown == Overwritten(effect, rev)
        restarts == Restarts(effect, shown)
    IN /\ entry' = [shown EXCEPT !.stale = @ \/ effect.marks]
       /\ fetch' = IF restarts THEN Asked(0) ELSE fetch
       /\ own' = IF effect.owes /\ rev > own THEN rev ELSE own
       /\ raced' = (raced \/ (effect.owes /\ Races(effect, rev, restarts)))

Succeed(c) ==
    /\ calls[c].state = "applied"
    /\ Settle(calls[c].effect, calls[c].rev)
    /\ calls' = [calls EXCEPT ![c] = NoCall]
    /\ UNCHANGED <<query, server, mounted, budget>>

\* The request or its answer is lost: the server may have applied it.
Fail(c) ==
    /\ calls[c].state # "none"
    /\ Spend("surprises")
    /\ calls' = [calls EXCEPT ![c] = NoCall]
    /\ UNCHANGED <<query, server, entry, fetch, mounted, own, raced>>

ForeignWrite(value) ==
    /\ Spend("surprises")
    /\ server' = Append(server, value)
    /\ UNCHANGED <<query, entry, fetch, mounted, calls, own, raced>>

QueryStep == Mount \/ Unmount \/ Age \/ Focus \/ Collect \/ Answer \/ Fill \/ FetchFails

\* No page of interest: any hook is called at any time.
PlainStep ==
    \/ QueryStep
    \/ \E c \in Calls :
         \/ /\ \E m \in DOMAIN Mutations : Send(c, m, "none")
            /\ UNCHANGED <<query, server, entry, fetch, mounted, own, raced>>
         \/ Apply(c, "any") \/ Succeed(c) \/ Fail(c)
    \/ ForeignWrite("any")
=============================================================================
