------------------------------- MODULE Console -------------------------------
(***************************************************************************)
(* A browser that shows the admin UI, with the admin API behind it and an  *)
(* ingestor that listens for its signals.                                  *)
(*                                                                         *)
(* The browser keeps a cache of query results (React Query: QueryClient of *)
(* lib/providers, the hooks) and a pair of tokens (auth-store), and sends  *)
(* calls through one axios client whose interceptor renews the tokens      *)
(* after a 401.  Calls of one browser overlap each other, the navigation   *)
(* of its user, the commits of other users, and the life of the tokens.    *)
(*                                                                         *)
(* db is the history of the database, one element per commit.  A query     *)
(* reads one element that was the last at some time between its sending    *)
(* and its arrival, which is how its delay on either way is modelled; the  *)
(* cache keeps the position it has read.                                   *)
(***************************************************************************)
EXTENDS Screens, FiniteSets, SequencesExt

CONSTANTS
  FirstPages,     \* pages the user may start on
  ExpiringPages,  \* pages on which an access token may expire
  Disturbance,    \* what may happen besides the user's own clicks
  Patience,       \* clicks and disturbances come with so many calls in flight at most
  MaxRenewals,    \* so many calls renew the tokens at once at most
  MaxEvents       \* bounds clicks and disturbances together

ASSUME ConsoleAssumption ==
  /\ FirstPages \subseteq Page \ {"login"} /\ ExpiringPages \subseteq Page
  /\ Disturbance \subseteq {"others", "fault", "minute", "expire"}
  /\ Patience \in Nat /\ MaxRenewals \in Nat \ {0} /\ MaxEvents \in Nat

VARIABLES
  \* the browser
  root,           \* the user is root
  page,           \* the page shown
  cache,          \* cache[key]: what is known of a query, for the keys it has
  tokens,         \* the pair in auth-store: its number, or 0
  signedIn,       \* isAuthenticated of auth-store
  calls,          \* calls that have not ended
  \* the admin API
  db,             \* the commits
  issued,         \* pairs of tokens issued: 1 .. issued
  expired,        \* access tokens 1 .. expired have expired
  revoked,        \* the blacklist of refresh tokens
  signal,         \* a refresh signal is on its way
  \* the ingestor
  read,           \* the commit its last query read
  \* history and bounds
  swept,          \* kinds that changed behind the back of this browser's cache
  silent,         \* since the last read, what it returns changed without a signal
  faulted,        \* a statement, a publication or a renewal has failed
  overlapped,     \* two calls renewed tokens at once
  ejected,        \* the interceptor has signed a signed-in user out
  events

browser == <<page, cache, tokens, signedIn>>
server == <<db, signal>>
auth == <<issued, expired, revoked>>
history == <<swept, silent, faulted, overlapped, ejected, events>>
vars == <<root, browser, calls, server, auth, read, history>>

-----------------------------------------------------------------------------
(* Calls.                                                                     *)

\* pc: "sent", "running" and "publishing" (a mutation in its handler),
\* "done", "failed" (answers on their way),
\* "renewing", "checked", "renewed", "rejected" (the renewal of the tokens).
\* holds: the refresh token it presents, later the pair it gets.  heard: somebody
\* waits for the answer.  late: a query that was invalidated in flight.  calm: a
\* mutation sent from a page at rest, and no other since.
Call(of, kind) ==
  [of |-> of, kind |-> kind, pc |-> "sent", token |-> tokens, holds |-> 0, again |-> FALSE,
   heard |-> TRUE, from |-> IF kind = "query" THEN Len(db) ELSE 0, late |-> FALSE,
   todo |-> <<>>, wrote |-> FALSE, calm |-> FALSE]

Now == Last(db).rows
Shown(row) == row.key \in DOMAIN cache /\ cache[row.key].at > 0
              /\ db[cache[row.key].at].rows[row.kind] \in row.states

Screen0 == Pages[root][page]
Mounted(p) == Mounts[root][p]
Fetching(q) == \E c \in calls : c.kind = "query" /\ c.heard /\ c.of.key = q.key
Known(q) == q.key \in DOMAIN cache /\ cache[q.key].at > 0
MatchingExactly(keys, key) == key \in keys
Matching(keys, key) == \E k \in keys : IsPrefix(k, key)

Fetch(qs) == {Call(q, "query") : q \in {q \in qs : ~Fetching(q)}}
Outdated(q) == ~Known(q) \/ cache[q.key].stale \/ cache[q.key].invalid
\* refetchOnMount
MountQueries(p, old) ==
  Fetch({q \in Pages[root][p].mounts \cup (Pages[root][p].frame \ old) : Outdated(q)})

Move(c, d) == calls' = (calls \ {c}) \cup {d}
Click == Cardinality(calls) <= Patience /\ events < MaxEvents /\ events' = events + 1
Disturb(kind) == kind \in Disturbance /\ Click

-----------------------------------------------------------------------------
(* The user.                                                                  *)

\* A bound: while the access token has expired, only polls and mutations find out.
Navigate(p) ==
  /\ signedIn /\ tokens > expired /\ p \notin {page, "login"} /\ Click
  /\ \A row \in Pages[root][p].via : Shown(row)
  /\ page' = p
  /\ calls' = calls \cup MountQueries(p, Pages[root][page].frame)
  /\ UNCHANGED <<root, cache, tokens, signedIn, server, auth, read, swept, silent, faulted,
                 overlapped, ejected>>

\* The page shows a row that is no longer there: deletions invalidate lists only.
Ghost == \E q \in Mounted(page) : q.key[2] = "detail" /\ \E k \in q.read.shows : Now[k] = "none"
\* What it shows of a query has come, and has not slipped past an invalidation.
Settled(q) == ~Fetching(q) /\ ~cache[q.key].slipped /\ ~cache[q.key].failed /\ ~Ghost
AtRest == calls = {} /\ \A q \in Mounted(page) : Known(q) => Settled(q)

\* A button, which is disabled while its mutation is pending.
Mutate(offer) ==
  /\ signedIn /\ Click
  /\ \A row \in offer.rows : Shown(row)
  /\ ~\E c \in calls : c.kind = "mutation" /\ c.heard /\ c.of.hook = offer.mutation.hook
  /\ calls' = {[c EXCEPT !.calm = FALSE] : c \in calls} \cup
              {[Call(offer.mutation, "mutation") EXCEPT !.calm = AtRest]}
  /\ UNCHANGED <<root, browser, server, auth, read, swept, silent, faulted, overlapped, ejected>>

Unheard(cs) == {[c EXCEPT !.heard = FALSE] : c \in cs}
NoCache == [k \in {} |-> 0]

\* handleLogout
Logout ==
  /\ signedIn /\ Click
  /\ tokens' = 0 /\ signedIn' = FALSE /\ cache' = NoCache /\ page' = "login"
  /\ calls' = Unheard(calls)
  /\ UNCHANGED <<root, server, auth, read, swept, silent, faulted, overlapped, ejected>>

\* onSubmit of the login and the register page
SignIn ==
  /\ page = "login" /\ Click
  /\ issued' = issued + 1 /\ tokens' = issued + 1 /\ signedIn' = TRUE
  /\ page' = "dashboard"
  /\ calls' = calls \cup {[Call(q, "query") EXCEPT !.token = issued + 1] : q \in Mounted("dashboard")}
  /\ UNCHANGED <<root, cache, server, expired, revoked, read, swept, silent, faulted, overlapped,
                 ejected>>

-----------------------------------------------------------------------------
(* The cache of queries.                                                      *)

Entry == [at |-> 0, stale |-> FALSE, invalid |-> FALSE, failed |-> FALSE, slipped |-> FALSE]
Store(key, entry) == [k \in DOMAIN cache \cup {key} |-> IF k = key THEN entry ELSE cache[k]]

\* A query arrives: it has read one of the commits since it was sent.
Arrive(c) ==
  /\ c.kind = "query" /\ c.pc = "sent" /\ c.token > expired
  /\ \E i \in c.from .. Len(db) :
       /\ Admitted(c.of.read, db[i].rows, root)
       /\ cache' = IF c.heard THEN Store(c.of.key, [Entry EXCEPT !.at = i, !.slipped = c.late])
                   ELSE cache
  /\ calls' = calls \ {c}
  /\ UNCHANGED <<root, page, tokens, signedIn, server, auth, read, history>>

\* It was refused, as often as it was tried again: the data there are stay.
Refused(c) == \E i \in c.from .. Len(db) : ~Admitted(c.of.read, db[i].rows, root)
QueryFailsAndAgain(c) ==
  /\ c.kind = "query"
  /\ c.pc = "failed" \/ (c.pc = "sent" /\ c.token > expired /\ Refused(c))
  /\ calls' = (calls \ {c}) \cup (IF c.heard THEN {Call(c.of, "query")} ELSE {})
  /\ UNCHANGED <<root, browser, server, auth, read, history>>
QueryFails(c) ==
  /\ c.kind = "query"
  /\ c.pc = "failed" \/ (c.pc = "sent" /\ c.token > expired /\ Refused(c))
  /\ cache' = IF c.heard
              THEN Store(c.of.key, [(IF c.of.key \in DOMAIN cache THEN cache[c.of.key] ELSE Entry)
                                     EXCEPT !.failed = TRUE])
              ELSE cache
  /\ calls' = calls \ {c}
  /\ UNCHANGED <<root, page, tokens, signedIn, server, auth, read, history>>

\* p is the page that is mounted then.
InvalidateBeside(keys, cs, p) ==
  /\ cache' = [k \in DOMAIN cache |-> [cache[k] EXCEPT !.invalid = @ \/ Matching(keys, k)]]
  /\ calls' = cs \cup {Call(q, "query") : q \in {q \in Mounted(p) : Matching(keys, q.key)}}
\* invalidateQueries: what is mounted is fetched again, and a fetch in flight is
\* dropped for it; but not a first one, which goes on, nor one nobody looks at.
Invalidate(keys, cs, p) ==
  LET hit(q) == Matching(keys, q.key)
      active == {q \in Mounted(p) : hit(q)}
      flying == {c \in cs : c.kind = "query" /\ c.heard /\ hit(c.of)}
      kept == {c \in flying : c.of.key \notin {q.key : q \in {q \in active : Known(q)}}}
  IN  /\ cache' = [k \in DOMAIN cache |->
                     [cache[k] EXCEPT !.invalid = @ \/ Matching(keys, k)]]
      /\ calls' = (cs \ flying) \cup Unheard(flying \ kept)
                  \cup {[c EXCEPT !.late = TRUE] : c \in kept}
                  \cup {Call(q, "query") : q \in {q \in active : \A c \in kept : c.of.key # q.key}}

\* Polls and the staleTime of a minute.
Aged == [k \in DOMAIN cache |-> [cache[k] EXCEPT !.stale = TRUE]]
Minute ==
  /\ signedIn /\ Disturb("minute")
  /\ cache' = Aged
  /\ calls' = calls \cup Fetch({q \in Mounted(page) : q.interval})
  /\ UNCHANGED <<root, page, tokens, signedIn, server, auth, read, swept, silent, faulted,
                 overlapped, ejected>>

-----------------------------------------------------------------------------
(* A mutation in its handler, and its answer.                                 *)

Subject(c) == {w.kind : w \in {c.of.op.writes[i] : i \in DOMAIN c.of.op.writes}}
              \cup (IF c.of.op.probes THEN {"chain"} ELSE {})
Commit(w, subject) ==
  /\ db' = Append(db, [rows |-> Committed(Now, w), by |-> w])
  /\ swept' = swept \cup (Touched(w) \ subject)
Signals(c) == c.of.op.signals
Returned(c) == IF c.wrote /\ Signals(c) THEN "publishing" ELSE "done"

\* The guards and the lookups.
Find(c) ==
  /\ c.kind = "mutation" /\ c.pc = "sent" /\ c.token > expired
  /\ IF Admitted(c.of.op, Now, root)
     THEN \E reachable \in BOOLEAN :
            LET todo == IF c.of.op.probes THEN Probed(Now, reachable) ELSE c.of.op.writes
            IN  Move(c, [c EXCEPT !.todo = todo, !.pc = IF todo = <<>> THEN "done" ELSE "running"])
     ELSE Move(c, [c EXCEPT !.pc = "failed"])
  /\ UNCHANGED <<root, browser, server, auth, read, history>>

\* What an answer that reports a failure leaves behind is nobody's to invalidate.
Left(c) == IF c.wrote THEN Subject(c) ELSE {}

Write(c) ==
  /\ c.pc = "running"
  /\ LET w == Head(c.todo)
         d == [c EXCEPT !.todo = Tail(@), !.wrote = TRUE]
     IN  IF Possible(Now, w)
         THEN /\ Commit(w, IF c.heard THEN Subject(c) ELSE {})
              /\ Move(c, IF d.todo = <<>> THEN [d EXCEPT !.pc = Returned(d)] ELSE d)
              /\ silent' = (silent \/ (~Signals(c) /\ Active(Now) # Active(Committed(Now, w))))
         ELSE /\ Move(c, [c EXCEPT !.pc = "failed"])
              /\ swept' = swept \cup Left(c) /\ silent' = (silent \/ c.wrote)
              /\ UNCHANGED db
  /\ UNCHANGED <<root, browser, signal, auth, read, faulted, overlapped, ejected, events>>

PublishNothing(c) ==
  /\ c.pc = "publishing"
  /\ Move(c, [c EXCEPT !.pc = "done"])
  /\ UNCHANGED <<root, browser, server, auth, read, history>>
Publish(c) ==
  /\ c.pc = "publishing"
  /\ signal' = TRUE
  /\ Move(c, [c EXCEPT !.pc = "done"])
  /\ UNCHANGED <<root, browser, db, auth, read, history>>

\* A statement or the publication is rejected.  checkRpcConnection takes it, when it
\* was about to enable the chain, for an answer of the node.
HandlerFails(c) ==
  /\ c.pc \in {"running", "publishing"} /\ Disturb("fault")
  /\ faulted' = TRUE
  /\ Move(c, [c EXCEPT !.pc = IF c.of.op.probes /\ \E b \in BOOLEAN : c.todo = Probed(Now, b)
                              THEN "done" ELSE "failed", !.todo = <<>>])
  /\ swept' = swept \cup Left(c) /\ silent' = (silent \/ c.wrote)
  /\ UNCHANGED <<root, browser, server, auth, read, overlapped, ejected>>

\* handleDelete pushes the list of applications, whose queries were invalidated.
After(c) == IF c.of.hook = "useDeleteApplication" /\ c.heard THEN "applications" ELSE page

\* onSuccess
Succeed(c) ==
  /\ c.kind = "mutation" /\ c.pc = "done"
  /\ page' = After(c)
  /\ IF c.heard THEN Invalidate(c.of.invalidates, calls \ {c}, page')
     ELSE calls' = calls \ {c} /\ UNCHANGED cache
  /\ UNCHANGED <<root, tokens, signedIn, server, auth, read, history>>

Fail(c) ==
  /\ c.kind = "mutation" /\ c.pc = "failed"
  /\ calls' = calls \ {c}
  /\ UNCHANGED <<root, browser, server, auth, read, history>>

\* Another user, or another client of this one.
Elsewhere(op) ==
  /\ Disturb("others") /\ Possible(Now, Head(op.writes))
  /\ Commit(Head(op.writes), {})
  /\ signal' = (signal \/ op.signals)
  /\ silent' = (silent \/ (~op.signals /\ Active(Now) # Active(Committed(Now, Head(op.writes)))))
  /\ UNCHANGED <<root, browser, calls, auth, read, faulted, overlapped, ejected>>

Others == {ApplicationsRemove, ProgramsRemove, WebhooksRemove, ChainsUpdate("off"),
           SubscriptionsUpdate("off"), Op("owner", {"membership"}, <<Put("membership", "off")>>, FALSE)}

\* The ingestor hears the signal and queries its subscriptions.
HearSignal ==
  /\ signal
  /\ signal' = FALSE /\ read' = Len(db) /\ silent' = FALSE
  /\ UNCHANGED <<root, browser, calls, db, auth, swept, faulted, overlapped, ejected, events>>

-----------------------------------------------------------------------------
(* The tokens.                                                                *)

\* Fifteen minutes pass on a page at rest.
Expire ==
  /\ signedIn /\ calls = {} /\ page \in ExpiringPages /\ tokens > expired /\ Disturb("expire")
  /\ expired' = tokens
  /\ cache' = Aged
  /\ calls' = calls \cup Fetch({q \in Mounted(page) : q.interval})
  /\ UNCHANGED <<root, page, tokens, signedIn, server, issued, revoked, read, swept, silent,
                 faulted, overlapped, ejected>>

SignOut(c) ==
  /\ tokens' = 0 /\ signedIn' = FALSE /\ cache' = NoCache /\ page' = "login"
  /\ calls' = Unheard({d \in calls \ {c} : d.kind = "mutation" /\ d.pc \in {"sent", "running", "publishing"}})
  /\ ejected' = (ejected \/ signedIn)

Renewing == {c \in calls : c.pc \in {"renewing", "checked", "renewed"}}
InterceptSignsOut(c) ==
  /\ c.pc = "sent" /\ c.token <= expired
  /\ SignOut(c)
  /\ UNCHANGED <<root, server, auth, read, swept, silent, faulted, events, overlapped>>
\* The guard answers 401, and the interceptor runs.
Intercept(c) ==
  /\ c.pc = "sent" /\ c.token <= expired
  /\ IF c.again
     THEN Move(c, [c EXCEPT !.pc = "failed"]) /\ UNCHANGED <<browser, ejected, overlapped>>
     ELSE IF tokens = 0
     THEN SignOut(c) /\ UNCHANGED overlapped
     ELSE /\ Cardinality(Renewing) < MaxRenewals
          /\ Move(c, [c EXCEPT !.pc = "renewing", !.again = TRUE, !.holds = tokens])
          /\ overlapped' = (overlapped \/ Renewing # {})
          /\ UNCHANGED <<browser, ejected>>
  /\ UNCHANGED <<root, server, auth, read, swept, silent, faulted, events>>

\* AuthService.refreshToken: the blacklist, then the new pair.
CheckRefreshToken(c) ==
  /\ c.pc = "renewing"
  /\ Move(c, [c EXCEPT !.pc = IF c.holds \in revoked THEN "rejected" ELSE "checked"])
  /\ UNCHANGED <<root, browser, server, auth, read, history>>
RotateTokens(c) ==
  /\ c.pc = "checked"
  /\ revoked' = revoked \cup {c.holds} /\ issued' = issued + 1
  /\ Move(c, [c EXCEPT !.pc = "renewed", !.holds = issued + 1])
  /\ UNCHANGED <<root, browser, server, expired, read, history>>
RenewalFails(c) ==
  /\ c.pc \in {"renewing", "checked", "renewed"} /\ Disturb("fault")
  /\ faulted' = TRUE
  /\ Move(c, [c EXCEPT !.pc = "rejected"])
  /\ UNCHANGED <<root, browser, server, auth, read, swept, silent, overlapped, ejected>>

\* The call is sent again with the new token.
Resend(c) == Move(c, [c EXCEPT !.pc = "sent", !.token = c.holds, !.holds = 0,
                               !.from = IF c.kind = "query" THEN Len(db) ELSE 0])
SetAccessTokenOnly(c) ==
  /\ c.pc = "renewed"
  /\ Resend(c)
  /\ UNCHANGED <<root, browser, server, auth, read, history>>
SetTokens(c) ==
  /\ c.pc = "renewed"
  /\ tokens' = c.holds
  /\ Resend(c)
  /\ UNCHANGED <<root, page, cache, signedIn, server, auth, read, history>>

\* logout and window.location: the page is loaded anew, and with it the cache.
Rejected(c) ==
  /\ c.pc = "rejected" /\ SignOut(c)
  /\ UNCHANGED <<root, server, auth, read, swept, silent, faulted, overlapped, events>>

-----------------------------------------------------------------------------
Nothing == Touch("chain")
Rows0 == [k \in Kind |-> "on"]

Init ==
  /\ root \in BOOLEAN /\ page \in FirstPages
  /\ \E role \in {"on", "off"} :
       db = <<[rows |-> [Rows0 EXCEPT !["membership"] = role], by |-> Nothing]>>
  \* every page has been visited in the last minute, or only this one
  /\ \E visited \in {{page}, Page} :
       cache = [k \in {q.key : q \in {q \in UNION {Mounted(p) : p \in visited} :
                                        Admitted(q.read, Now, root)}} |-> [Entry EXCEPT !.at = 1]]
  /\ tokens = 1 /\ signedIn = TRUE /\ calls = {}
  /\ issued = 1 /\ expired = 0 /\ revoked = {} /\ signal = FALSE /\ read = 1
  /\ swept = {} /\ silent = FALSE /\ faulted = FALSE /\ overlapped = FALSE /\ ejected = FALSE
  /\ events = 0

User ==
  \/ \E p \in Page : Navigate(p)
  \/ \E offer \in Screen0.offers : Mutate(offer)
  \/ Logout
  \/ SignIn

CallStep(c) ==
  \/ Arrive(c) \/ QueryFails(c)
  \/ Find(c) \/ Write(c) \/ Publish(c) \/ Succeed(c) \/ Fail(c)
  \/ Intercept(c) \/ CheckRefreshToken(c) \/ RotateTokens(c)
  \/ SetTokens(c) \/ Rejected(c)

Work == \E c \in calls : CallStep(c)

Environment ==
  \/ \E op \in Others : Elsewhere(op)
  \/ \E c \in calls : HandlerFails(c) \/ RenewalFails(c)
  \/ Minute
  \/ Expire
  \/ HearSignal

Next == User \/ Work \/ Environment

Spec == Init /\ [][Next]_vars
\* The network answers, and JavaScript runs what is due.
FairSpec == Spec /\ WF_vars(Work)

-----------------------------------------------------------------------------
(* Properties.                                                                *)

\* Every query has one fetch under way at most, the tokens in use were issued, and
\* nobody holds a token that the server has not made.
TypeOK ==
  /\ page \in Page /\ tokens \in 0 .. issued /\ expired \in 0 .. issued /\ read \in 1 .. Len(db)
  /\ revoked \subseteq 1 .. issued
  /\ \A k \in DOMAIN cache : cache[k].at \in 0 .. Len(db)
  /\ \A c \in calls : /\ c.kind \in {"query", "mutation"} /\ c.token \in 0 .. issued
                      /\ c.holds \in 0 .. issued /\ c.from \in 0 .. Len(db)
  /\ \A c, d \in calls : c.kind = "query" /\ d.kind = "query" /\ c.heard /\ d.heard
                         /\ c.of.key = d.of.key => c = d

\* What a page shows when it rests is what this browser's own changes have made of the
\* rows: all but the kinds that others, cascades and half-done requests have
\* changed, answers that slipped past an invalidation, and rows that are gone.
Pending(k) == \E c \in calls : c.kind = "mutation" /\ k \in Subject(c)
\* A new row is one more in the lists and nothing to the pages of another; an event
\* is new in the list of a new program.
Changed(q, w) ==
  IF w.to = "new" /\ (q.key[2] = "detail" \/ w.kind = "event") THEN {}
  ELSE Touched(w) \cap q.read.shows
OwnChangesShow ==
  \A q \in Mounted(page) : Known(q) =>
    \A i \in cache[q.key].at + 1 .. Len(db) : \A k \in Changed(q, db[i].by) :
      Settled(q) => k \in swept \/ Pending(k)

\* Buttons the page should not have offered: those of a chain with programs,
\* of API keys to a member that is no owner, and the one that leaves an application.
Misplaced(hook) ==
  \/ hook = "useDeleteChain" /\ Now["program"] # "none"
  \/ hook \in {"useCreateApiKey", "useRevokeApiKey"} /\ Now["membership"] # "on"
  \/ hook = "useLeaveApplication"

\* A request that is sent from a page at rest is not refused, unless others or a fault
\* have interfered: what the UI offers is what the API allows.
CalmRequestsSucceed ==
  \A c \in calls : c.kind = "mutation" /\ c.calm /\ c.pc = "failed" =>
    faulted \/ swept # {} \/ Misplaced(c.of.hook)

\* While nobody renews the tokens, the refresh token kept can still be used.
StoredTokenLives ==
  tokens \in revoked => \E c \in calls : c.pc \in {"renewed", "rejected"}

\* A signed-in user is sent to the login page only after a failure, or when calls
\* renewed the tokens side by side.
SignedOutForAReason == ejected => faulted \/ overlapped

\* When no signal is on its way and no handler is between its commit and its signal, the
\* ingestor's last query returned what it would return now, but for what changed
\* without a signal.
IngestorKnows ==
  \/ signal \/ silent
  \/ \E c \in calls : c.wrote /\ c.pc \in {"running", "publishing"}
  \/ Active(db[read].rows) = Active(Now)

\* Every call ends: no page loads for ever.
PagesLoad == []<>(calls = {})
=============================================================================
