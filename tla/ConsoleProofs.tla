---------------------------- MODULE ConsoleProofs ----------------------------
(***************************************************************************)
(* Theorems about Console, for any pages to start on, any number of calls  *)
(* in flight and of renewals side by side, and any disturbances: its types *)
(* (with one fetch per query), what the browser's tokens are worth and why *)
(* it is signed out, and what the ingestor knows.                          *)
(***************************************************************************)
EXTENDS Console, TLAPS

-----------------------------------------------------------------------------
(* The tokens.                                                              *)

CallField == {"of", "kind", "pc", "token", "holds", "again", "heard", "from", "late", "todo",
              "wrote", "calm"}
IsCall(c) == c = [f \in CallField |-> c[f]]

\* A call from the first 401 to the answer of the renewal, and one whose renewal ended.
InRenewal(c) == c.pc \in {"renewing", "checked", "renewed"}
InHand(c) == c.pc \in {"renewed", "rejected"}

NumbersOK ==
  /\ issued \in Nat /\ tokens \in 0 .. issued /\ expired \in 0 .. issued /\ revoked \subseteq 1 .. issued
  /\ signedIn => tokens > 0

DbOK == Len(db) >= 1 /\ db \in Seq({db[i] : i \in 1 .. Len(db)})

\* n pairs of tokens have been issued, and l commits made.
Fits(c, n, l) ==
  /\ IsCall(c) /\ c.kind \in {"query", "mutation"}
  /\ c.token \in 0 .. n /\ c.holds \in 0 .. n /\ c.from \in 0 .. l
  /\ InRenewal(c) => c.holds > 0
  /\ c.pc \in {"running", "publishing"} => c.kind = "mutation"
CallsOK == \A c \in calls : Fits(c, issued, Len(db))

\* The pair that a renewal has just got is known to nobody else.
NewPairsOK ==
  \A c \in calls : c.pc = "renewed" =>
    /\ c.holds \notin revoked /\ c.holds # tokens
    /\ \A d \in calls : InRenewal(d) /\ d.holds = c.holds => d = c

\* Unless calls renewed the tokens side by side, one does at most; without a failure
\* besides, what it presents is good, and no renewal has been refused.
OneByOne ==
  /\ ~overlapped => \A c, d \in calls : InRenewal(c) /\ InRenewal(d) => c = d
  /\ ~overlapped /\ ~faulted =>
       \A c \in calls : c.pc # "rejected" /\ (c.pc \in {"renewing", "checked"} => c.holds \notin revoked)

TokenInv ==
  NumbersOK /\ DbOK /\ CallsOK /\ NewPairsOK /\ OneByOne /\ StoredTokenLives /\ SignedOutForAReason
-----------------------------------------------------------------------------
(* The database and the tokens issued only grow.                            *)

LEMMA Appended ==
  ASSUME DbOK, NEW x, db' = Append(db, x)
  PROVE  DbOK' /\ Len(db') = Len(db) + 1 /\ Now' = x.rows /\ \A i \in 1 .. Len(db) : db'[i] = db[i]
<1>1. PICK S : S = {db[i] : i \in 1 .. Len(db)}
  OBVIOUS
<1>2. db \in Seq(S) /\ db \in Seq(S \cup {x})
  BY <1>1 DEF DbOK
<1>3. /\ db' \in Seq(S \cup {x}) /\ Len(db') = Len(db) + 1 /\ db'[Len(db) + 1] = x
      /\ \A i \in 1 .. Len(db) : db'[i] = db[i]
  BY <1>2
<1>4. Now' = x.rows
  BY <1>3 DEF Now, Last
<1>5. S \cup {x} = {db'[i] : i \in 1 .. Len(db')}
  BY <1>1, <1>3
<1>6. QED
  BY <1>3, <1>4, <1>5 DEF DbOK

LEMMA DbStep ==
  ASSUME DbOK, [Next]_vars
  PROVE  DbOK' /\ Len(db') >= Len(db) /\ \A i \in 1 .. Len(db) : db'[i] = db[i]
<1>1. db' = db \/ \E x : db' = Append(db, x)
  <2>1. CASE User
    BY <2>1 DEF User, Navigate, Mutate, Logout, SignIn, server
  <2>2. ASSUME NEW c \in calls, CallStep(c)
        PROVE  db' = db \/ \E x : db' = Append(db, x)
    <3>1. CASE Write(c)
      BY <3>1 DEF Write, Commit
    <3>2. CASE Arrive(c) \/ QueryFails(c) \/ Find(c) \/ Publish(c) \/ Succeed(c) \/ Fail(c)
      <4>1. CASE Arrive(c) \/ QueryFails(c)
        BY <4>1 DEF Arrive, QueryFails, server
      <4>2. CASE Find(c) \/ Publish(c) \/ Succeed(c) \/ Fail(c)
        BY <4>2 DEF Find, Publish, Succeed, Fail, server
      <4>3. QED
        BY <3>2, <4>1, <4>2
    <3>3. CASE Intercept(c) \/ CheckRefreshToken(c) \/ RotateTokens(c) \/ SetTokens(c) \/ Rejected(c)
      BY <3>3 DEF Intercept, CheckRefreshToken, RotateTokens, SetTokens, Rejected, server
    <3>4. QED
      BY <2>2, <3>1, <3>2, <3>3 DEF CallStep
  <2>3. CASE Environment
    BY <2>3 DEF Environment, Elsewhere, Commit, HandlerFails, RenewalFails, Minute, Expire, HearSignal, server
  <2>4. CASE UNCHANGED vars
    BY <2>4 DEF vars, server
  <2>5. QED
    BY <2>1, <2>2, <2>3, <2>4 DEF Next, Work
<1>2. CASE db' = db
  BY <1>2 DEF DbOK
<1>3. ASSUME NEW x, db' = Append(db, x)
      PROVE  DbOK' /\ Len(db') >= Len(db) /\ \A i \in 1 .. Len(db) : db'[i] = db[i]
  BY <1>3, Appended DEF DbOK
<1>4. QED
  BY <1>1, <1>2, <1>3

Grows == /\ issued \in Nat /\ issued' \in Nat /\ issued' >= issued
         /\ Len(db) \in Nat /\ Len(db') \in Nat /\ Len(db') >= Len(db)

LEMMA StepGrows ==
  ASSUME NumbersOK, DbOK, [Next]_vars
  PROVE  Grows /\ DbOK'
<1>1. issued \in Nat /\ Len(db) \in Nat
  BY DEF NumbersOK, DbOK
<1>2. DbOK' /\ Len(db') >= Len(db) /\ Len(db') \in Nat
  <2>1. DbOK' /\ Len(db') >= Len(db)
    BY DbStep
  <2>2. Len(db') \in Nat
    BY <2>1 DEF DbOK
  <2>3. QED
    BY <2>1, <2>2
<1>3. issued' = issued \/ issued' = issued + 1
  <2>1. CASE User
    BY <2>1 DEF User, Navigate, Mutate, Logout, SignIn, auth
  <2>2. ASSUME NEW c \in calls, CallStep(c)
        PROVE  issued' = issued \/ issued' = issued + 1
    <3>1. CASE Arrive(c) \/ QueryFails(c)
      BY <3>1 DEF Arrive, QueryFails, auth
    <3>2. CASE Find(c) \/ Write(c) \/ Publish(c) \/ Succeed(c) \/ Fail(c)
      BY <3>2 DEF Find, Write, Publish, Succeed, Fail, auth
    <3>3. CASE Intercept(c) \/ CheckRefreshToken(c) \/ RotateTokens(c) \/ SetTokens(c) \/ Rejected(c)
      BY <3>3 DEF Intercept, CheckRefreshToken, RotateTokens, SetTokens, Rejected, auth
    <3>4. QED
      BY <2>2, <3>1, <3>2, <3>3 DEF CallStep
  <2>3. CASE Environment
    BY <2>3 DEF Environment, Elsewhere, HandlerFails, RenewalFails, Minute, Expire, HearSignal, auth
  <2>4. CASE UNCHANGED vars
    BY <2>4 DEF vars, auth
  <2>5. QED
    BY <2>1, <2>2, <2>3, <2>4 DEF Next, Work
<1>4. QED
  BY <1>1, <1>2, <1>3 DEF Grows

-----------------------------------------------------------------------------
(* A call, and what becomes of it in a step.                                *)

LEMMA NewCall ==
  ASSUME NEW of, NEW kind
  PROVE  LET c == Call(of, kind)
         IN  /\ IsCall(c) /\ c.pc = "sent" /\ c.token = tokens /\ c.holds = 0 /\ c.kind = kind
             /\ c.from = (IF kind = "query" THEN Len(db) ELSE 0)
BY DEF IsCall, CallField, Call

Alike(c, d) ==
  /\ IsCall(d) /\ d.pc = c.pc /\ d.holds = c.holds /\ d.token = c.token /\ d.wrote = c.wrote
  /\ d.kind = c.kind /\ d.of = c.of /\ d.from = c.from
\* A call that has nothing to do with a renewal.
Quiet(d) == Fits(d, issued', Len(db')) /\ ~InRenewal(d) /\ ~InHand(d)

LEMMA Marks ==
  ASSUME NEW c, IsCall(c)
  PROVE  /\ Alike(c, c) /\ Alike(c, [c EXCEPT !.heard = FALSE]) /\ Alike(c, [c EXCEPT !.late = TRUE])
         /\ Alike(c, [c EXCEPT !.calm = FALSE])
BY DEF Alike, IsCall, CallField

\* as[c] is what a step makes of the call c, when no renewal gets anywhere.
Carried(as) ==
  /\ \A c \in calls : Alike(c, as[c])
  /\ \A e \in calls' : Quiet(e) \/ \E c \in calls : e = as[c]

LEMMA CarriedRenewals ==
  ASSUME NEW as, Carried(as), OneByOne, NewPairsOK, CallsOK,
         Grows, revoked' = revoked,
         tokens' = tokens \/ tokens' = 0 \/ tokens' = issued + 1,
         faulted => faulted', overlapped' = overlapped
  PROVE  CallsOK' /\ OneByOne' /\ NewPairsOK'
<1>1. \A e \in calls' : Quiet(e) \/ \E c \in calls : e = as[c] /\ Alike(c, e)
  BY DEF Carried
<1>2. CallsOK'
  <2>1. ASSUME NEW e \in calls'
        PROVE  Fits(e, issued', Len(db'))
    <3>1. CASE Quiet(e)
      BY <3>1 DEF Quiet
    <3>2. ASSUME NEW c \in calls, Alike(c, e)
          PROVE  Fits(e, issued', Len(db'))
      <4>1. Fits(c, issued, Len(db))
        BY DEF CallsOK
      <4>2. QED
        BY <3>2, <4>1 DEF Alike, InRenewal, Fits, Grows
    <3>3. QED
      BY <1>1, <3>1, <3>2
  <2>2. QED
    BY <2>1 DEF CallsOK
<1>3. OneByOne'
  <2>1. ASSUME NEW e \in calls', ~Quiet(e)
        PROVE  \E c \in calls : e = as[c] /\ c.pc = e.pc /\ c.holds = e.holds
    BY <1>1, <2>1 DEF Alike
  <2>2. ASSUME ~overlapped, NEW e \in calls', NEW f \in calls', InRenewal(e), InRenewal(f)
        PROVE  e = f
    <3>1. PICK c \in calls : e = as[c] /\ c.pc = e.pc
      BY <2>1, <2>2 DEF Quiet
    <3>2. PICK d \in calls : f = as[d] /\ d.pc = f.pc
      BY <2>1, <2>2 DEF Quiet
    <3>3. c = d
      BY <2>2, <3>1, <3>2 DEF OneByOne, InRenewal
    <3>4. QED
      BY <3>1, <3>2, <3>3
  <2>3. ASSUME ~overlapped, ~faulted, NEW e \in calls'
        PROVE  e.pc # "rejected" /\ (e.pc \in {"renewing", "checked"} => e.holds \notin revoked)
    <3>1. CASE Quiet(e)
      BY <3>1 DEF Quiet, InRenewal, InHand
    <3>2. CASE ~Quiet(e)
      BY <2>1, <2>3, <3>2 DEF OneByOne
    <3>3. QED
      BY <3>1, <3>2
  <2>4. QED
    BY <2>2, <2>3 DEF OneByOne
<1>4. ASSUME NEW e \in calls', e.pc = "renewed"
      PROVE  /\ e.holds \notin revoked' /\ e.holds # tokens'
             /\ \A f \in calls' : InRenewal(f) /\ f.holds = e.holds => f = e
  <2>1. PICK c \in calls : e = as[c] /\ Alike(c, e)
    BY <1>1, <1>4 DEF Quiet, InRenewal, InHand
  <2>2. /\ c.holds \notin revoked /\ c.holds # tokens /\ c.holds \in 1 .. issued
        /\ \A d \in calls : InRenewal(d) /\ d.holds = c.holds => d = c
    <3>1. c.pc = "renewed"
      BY <2>1, <1>4 DEF Alike
    <3>2. c.holds \in 0 .. issued /\ c.holds > 0
      BY <3>1 DEF CallsOK, InRenewal, Fits
    <3>3. QED
      BY <3>1, <3>2 DEF NewPairsOK
  <2>3. ASSUME NEW f \in calls', InRenewal(f), f.holds = e.holds
        PROVE  f = e
    <3>1. PICK d \in calls : f = as[d] /\ Alike(d, f)
      BY <1>1, <2>3 DEF Quiet
    <3>2. d = c
      BY <2>1, <2>2, <2>3, <3>1 DEF Alike, InRenewal
    <3>3. QED
      BY <2>1, <3>1, <3>2
  <2>4. e.holds = c.holds
    BY <2>1 DEF Alike
  <2>5. e.holds # tokens'
    BY <2>2, <2>4 DEF Grows
  <2>6. QED
    BY <2>2, <2>3, <2>4, <2>5
<1>5. NewPairsOK'
  BY <1>4 DEF NewPairsOK
<1>6. QED
  BY <1>2, <1>3, <1>5

\* A step that is nothing to the renewals: what follows if it keeps the tokens and drops
\* no call whose renewal has ended, or leaves the browser with tokens nobody has used.
LEMMA CarriedInv ==
  ASSUME TokenInv, NumbersOK', DbOK', NEW as, Carried(as), Grows,
         tokens' = tokens \/ tokens' = 0 \/ tokens' = issued + 1,
         tokens' \notin revoked \/ (tokens' = tokens /\ \A c \in calls : InHand(c) => as[c] \in calls'),
         revoked' = revoked, overlapped' = overlapped, faulted => faulted', ejected' = ejected
  PROVE  TokenInv'
<1>2. CallsOK' /\ OneByOne' /\ NewPairsOK'
  BY CarriedRenewals DEF TokenInv
<1>3. StoredTokenLives'
  <2>1. CASE tokens' \in revoked
    <3>1. PICK c \in calls : InHand(c)
      BY <2>1 DEF TokenInv, StoredTokenLives, InHand
    <3>2. as[c] \in calls' /\ as[c].pc = c.pc
      BY <2>1, <3>1 DEF Carried, Alike
    <3>3. QED
      BY <3>1, <3>2 DEF StoredTokenLives, InHand
  <2>2. QED
    BY <2>1 DEF StoredTokenLives
<1>4. SignedOutForAReason'
  BY DEF TokenInv, SignedOutForAReason
<1>5. QED
  BY <1>2, <1>3, <1>4 DEF TokenInv

\* The calls that the actions send, drop and mark.
LEMMA Sent ==
  ASSUME NumbersOK, Grows, NEW kind \in {"query", "mutation"}
  PROVE  /\ \A of : Quiet(Call(of, kind))
         /\ \A of, b : Quiet([Call(of, kind) EXCEPT !.calm = b])
         /\ \A of : \A n \in 0 .. issued' : Quiet([Call(of, kind) EXCEPT !.token = n])
<1>1. ASSUME NEW of
      PROVE  Quiet(Call(of, kind))
  BY NewCall DEF Quiet, InRenewal, InHand, NumbersOK, Fits, Grows
<1>2. ASSUME NEW of, NEW b
      PROVE  Quiet([Call(of, kind) EXCEPT !.calm = b])
  <2>1. PICK c : c = Call(of, kind)
    OBVIOUS
  <2>2. Quiet(c)
    BY <1>1, <2>1
  <2>3. QED
    BY <2>1, <2>2 DEF Quiet, InRenewal, InHand, IsCall, CallField, Fits
<1>3. ASSUME NEW of, NEW n \in 0 .. issued'
      PROVE  Quiet([Call(of, kind) EXCEPT !.token = n])
  <2>1. PICK c : c = Call(of, kind)
    OBVIOUS
  <2>2. Quiet(c)
    BY <1>1, <2>1
  <2>3. QED
    BY <2>1, <2>2 DEF Quiet, InRenewal, InHand, IsCall, CallField, Fits
<1>4. QED
  BY <1>1, <1>2, <1>3

LEMMA CarriedSame ==
  ASSUME CallsOK, \A e \in calls' : e \in calls \/ Quiet(e)
  PROVE  Carried([c \in calls |-> c])
BY Marks DEF Carried, CallsOK, Fits

LEMMA CarriedUnheard ==
  ASSUME CallsOK, NEW cs, cs \subseteq calls, calls' = Unheard(cs)
  PROVE  Carried([c \in calls |-> [c EXCEPT !.heard = FALSE]])
BY Marks DEF Carried, CallsOK, Unheard, Fits

LEMMA CarriedInvalidate ==
  ASSUME CallsOK, NumbersOK, Grows, NEW keys, NEW cs, cs \subseteq calls, NEW p, Invalidate(keys, cs, p)
  PROVE  \E as : Carried(as) /\ \A c \in cs : as[c] \in calls' /\ (c.kind = "mutation" => as[c] = c)
<1>1. PICK flying, kept, sent :
        /\ flying \subseteq {c \in cs : c.kind = "query"} /\ kept \subseteq flying
        /\ calls' = (cs \ flying) \cup Unheard(flying \ kept) \cup {[c EXCEPT !.late = TRUE] : c \in kept} \cup sent
        /\ \A e \in sent : \E q : e = Call(q, "query")
  <2>1. PICK flying : flying = {c \in cs : c.kind = "query" /\ c.heard /\ Matching(keys, c.of.key)}
    OBVIOUS
  <2>2. PICK active : active = {q \in Mounted(p) : Matching(keys, q.key)}
    OBVIOUS
  <2>3. PICK kept : kept = {c \in flying : c.of.key \notin {q.key : q \in {q \in active : Known(q)}}}
    OBVIOUS
  <2>4. PICK sent : sent = {Call(q, "query") : q \in {q \in active : \A c \in kept : c.of.key # q.key}}
    OBVIOUS
  <2>5. calls' = (cs \ flying) \cup Unheard(flying \ kept) \cup {[c EXCEPT !.late = TRUE] : c \in kept} \cup sent
    BY <2>1, <2>2, <2>3, <2>4, Zenon DEF Invalidate
  <2>6. flying \subseteq {c \in cs : c.kind = "query"} /\ kept \subseteq flying
    BY <2>1, <2>3
  <2>7. \A e \in sent : \E q : e = Call(q, "query")
    BY <2>4
  <2>8. QED
    BY <2>5, <2>6, <2>7
<1>2. PICK as : as = [c \in calls |-> IF c \in kept THEN [c EXCEPT !.late = TRUE]
                                      ELSE IF c \in flying THEN [c EXCEPT !.heard = FALSE] ELSE c]
  OBVIOUS
<1>3. \A c \in calls : Alike(c, as[c])
  BY <1>2, Marks DEF CallsOK, Fits
<1>4. \A e \in sent : Quiet(e)
  BY <1>1, Sent
<1>5. \A e \in calls' : Quiet(e) \/ \E c \in calls : e = as[c]
  <2>1. ASSUME NEW e \in Unheard(flying \ kept)
        PROVE  \E c \in calls : e = as[c]
    BY <1>1, <1>2 DEF Unheard
  <2>2. ASSUME NEW e \in {[c EXCEPT !.late = TRUE] : c \in kept}
        PROVE  \E c \in calls : e = as[c]
    BY <1>1, <1>2
  <2>3. ASSUME NEW e \in cs \ flying
        PROVE  \E c \in calls : e = as[c]
    BY <1>1, <1>2
  <2>4. QED
    BY <1>1, <1>4, <2>1, <2>2, <2>3
<1>6. \A c \in cs : as[c] \in calls' /\ (c.kind = "mutation" => as[c] = c)
  <2>1. ASSUME NEW c \in cs
        PROVE  as[c] \in calls' /\ (c.kind = "mutation" => as[c] = c)
    <3>1. CASE c \in kept
      BY <1>1, <1>2, <3>1
    <3>2. CASE c \in flying /\ c \notin kept
      BY <1>1, <1>2, <3>2 DEF Unheard
    <3>3. CASE c \notin flying
      BY <1>1, <1>2, <3>3
    <3>4. QED
      BY <3>1, <3>2, <3>3
  <2>2. QED
    BY <2>1
<1>7. QED
  BY <1>3, <1>5, <1>6 DEF Carried

-----------------------------------------------------------------------------
(* What the actions make of the calls.                                      *)

LEMMA FetchSends == \A qs : \A e \in Fetch(qs) : \E q : e = Call(q, "query")
BY DEF Fetch

\* Actions that do nothing to a call whose renewal is under way or has ended.
Undisturbed == \E as : Carried(as) /\ \A c \in calls : InHand(c) => as[c] \in calls'

LEMMA Undisturbing ==
  ASSUME CallsOK, \A e \in calls' : e \in calls \/ Quiet(e), \A c \in calls : InHand(c) => c \in calls'
  PROVE  Undisturbed
<1>1. Carried([c \in calls |-> c])
  BY CarriedSame
<1>2. \A c \in calls : InHand(c) => [d \in calls |-> d][c] \in calls'
  OBVIOUS
<1>3. QED
  BY <1>1, <1>2 DEF Undisturbed

LEMMA MoveUndisturbs ==
  ASSUME CallsOK, NEW c \in calls, ~InHand(c), NEW d, Quiet(d), Move(c, d)
  PROVE  Undisturbed
<1>1. \A e \in calls' : e \in calls \/ Quiet(e)
  BY DEF Move
<1>2. \A e \in calls : InHand(e) => e \in calls'
  BY DEF Move
<1>3. QED
  BY <1>1, <1>2, Undisturbing

\* A call between its sending and its answer, and what a handler makes of it.
LEMMA HandlerMoves ==
  ASSUME CallsOK, Grows, NEW c \in calls, ~InHand(c), ~InRenewal(c),
         NEW pc, pc \in {"running", "publishing", "done", "failed"}, NEW todo, NEW w,
         c.kind = "mutation" \/ pc \in {"done", "failed"}
  PROVE  /\ Quiet([c EXCEPT !.pc = pc])
         /\ Quiet([c EXCEPT !.todo = todo, !.pc = pc])
         /\ Quiet([c EXCEPT !.pc = pc, !.todo = todo])
         /\ Quiet([c EXCEPT !.todo = todo, !.wrote = w])
         /\ Quiet([[c EXCEPT !.todo = todo, !.wrote = w] EXCEPT !.pc = pc])
<1>1. Fits(c, issued', Len(db'))
  BY DEF CallsOK, Fits, Grows
<1>2. QED
  BY <1>1 DEF Quiet, InHand, InRenewal, IsCall, CallField, Fits

LEMMA UserUndisturbs ==
  ASSUME NumbersOK, CallsOK, Grows, User
  PROVE  Undisturbed
<1>2. ASSUME NEW p \in Page, Navigate(p)
      PROVE  Undisturbed
  <2>1. \A e \in calls' : e \in calls \/ Quiet(e)
    BY <1>2, Sent, FetchSends DEF Navigate, MountQueries
  <2>2. \A e \in calls : InHand(e) => e \in calls'
    BY <1>2 DEF Navigate
  <2>3. QED
    BY <2>1, <2>2, Undisturbing
<1>3. ASSUME NEW offer, Mutate(offer)
      PROVE  Undisturbed
  <2>1. PICK as : as = [c \in calls |-> [c EXCEPT !.calm = FALSE]]
    OBVIOUS
  <2>2. PICK new : Quiet(new) /\ calls' = {[c EXCEPT !.calm = FALSE] : c \in calls} \cup {new}
    BY <1>3, Sent DEF Mutate
  <2>3. Carried(as) /\ \A c \in calls : as[c] \in calls'
    BY <2>1, <2>2, Marks DEF CallsOK, Carried, Fits
  <2>4. QED
    BY <2>3 DEF Undisturbed
<1>4. CASE Logout
  <2>1. PICK as : as = [c \in calls |-> [c EXCEPT !.heard = FALSE]]
    OBVIOUS
  <2>2. Carried(as) /\ \A c \in calls : as[c] \in calls'
    BY <2>1, <1>4, CarriedUnheard DEF Logout, Unheard
  <2>3. QED
    BY <2>2 DEF Undisturbed
<1>5. CASE SignIn
  <2>1. \A e \in calls' : e \in calls \/ Quiet(e)
    <3>1. issued + 1 \in 0 .. issued'
      BY <1>5 DEF SignIn, Grows
    <3>2. QED
      BY <1>5, <3>1, Sent DEF SignIn
  <2>2. \A e \in calls : InHand(e) => e \in calls'
    BY <1>5 DEF SignIn
  <2>3. QED
    BY <2>1, <2>2, Undisturbing
<1>6. QED
  BY <1>2, <1>3, <1>4, <1>5 DEF User

LEMMA WorkUndisturbs ==
  ASSUME NumbersOK, CallsOK, Grows, NEW c \in calls,
         \/ Arrive(c) \/ QueryFails(c) \/ Find(c) \/ Write(c) \/ Publish(c) \/ Succeed(c) \/ Fail(c)
         \/ HandlerFails(c)
  PROVE  Undisturbed
<1>1. Find(c) \/ Write(c) \/ Publish(c) => c.kind = "mutation"
  BY DEF Find, Write, Publish, CallsOK, Fits
<1>2. ~InHand(c) /\ ~InRenewal(c)
  BY DEF Arrive, QueryFails, Find, Write, Publish, Succeed, Fail, HandlerFails, InHand, InRenewal
<1>3. CASE Arrive(c) \/ QueryFails(c) \/ Fail(c) \/ (Succeed(c) /\ ~c.heard)
  <2>1. calls' = calls \ {c}
    BY <1>3 DEF Arrive, QueryFails, Fail, Succeed
  <2>2. QED
    BY <1>2, <2>1, Undisturbing
<1>4. CASE Succeed(c) /\ c.heard
  <2>1. Invalidate(c.of.invalidates, calls \ {c}, page')
    BY <1>4 DEF Succeed
  <2>2. PICK as : Carried(as) /\ \A d \in calls \ {c} : as[d] \in calls'
    BY <2>1, CarriedInvalidate
  <2>3. QED
    BY <1>2, <2>2 DEF Undisturbed
<1>5. CASE Find(c)
  <2>1. PICK todo, pc : /\ pc \in {"running", "done", "failed"}
                        /\ Move(c, [c EXCEPT !.todo = todo, !.pc = pc]) \/ Move(c, [c EXCEPT !.pc = pc])
    BY <1>5 DEF Find
  <2>2. QED
    BY <1>1, <1>2, <1>5, <2>1, HandlerMoves, MoveUndisturbs
<1>6. CASE Write(c)
  <2>1. PICK todo : todo = Tail(c.todo)
    OBVIOUS
  <2>2. PICK d : d = [c EXCEPT !.todo = todo, !.wrote = TRUE]
    OBVIOUS
  <2>3. \/ Move(c, [d EXCEPT !.pc = "publishing"]) \/ Move(c, [d EXCEPT !.pc = "done"])
        \/ Move(c, d) \/ Move(c, [c EXCEPT !.pc = "failed"])
    BY <1>6, <2>1, <2>2 DEF Write, Returned
  <2>4. Quiet(d) /\ Quiet([c EXCEPT !.pc = "failed"])
    BY <1>1, <1>2, <1>6, <2>2, HandlerMoves
  <2>5. Quiet([d EXCEPT !.pc = "publishing"]) /\ Quiet([d EXCEPT !.pc = "done"])
    BY <1>1, <1>2, <1>6, <2>2, HandlerMoves
  <2>6. QED
    BY <1>2, <2>3, <2>4, <2>5, MoveUndisturbs
<1>7. CASE Publish(c)
  BY <1>1, <1>2, <1>7, HandlerMoves, MoveUndisturbs DEF Publish
<1>8. CASE HandlerFails(c)
  <2>1. PICK pc : pc \in {"done", "failed"} /\ Move(c, [c EXCEPT !.pc = pc, !.todo = <<>>])
    BY <1>8 DEF HandlerFails
  <2>2. QED
    BY <1>2, <2>1, HandlerMoves, MoveUndisturbs
<1>9. QED
  BY <1>3, <1>4, <1>5, <1>6, <1>7, <1>8

LEMMA OthersUndisturb ==
  ASSUME NumbersOK, CallsOK, Grows, (\E op \in Others : Elsewhere(op)) \/ Minute \/ Expire \/ HearSignal
  PROVE  Undisturbed
<1>3. \A e \in calls' : e \in calls \/ Quiet(e)
  <2>1. calls' = calls \/ \E qs : calls' = calls \cup Fetch(qs)
    BY DEF Elsewhere, Minute, Expire, HearSignal
  <2>2. ASSUME NEW qs, calls' = calls \cup Fetch(qs)
        PROVE  \A e \in calls' : e \in calls \/ Quiet(e)
    BY <2>2, Sent, FetchSends
  <2>3. QED
    BY <2>1, <2>2
<1>4. \A e \in calls : InHand(e) => e \in calls'
  BY DEF Elsewhere, Minute, Expire, HearSignal
<1>5. QED
  BY <1>3, <1>4, Undisturbing

-----------------------------------------------------------------------------
(* The tokens, step by step.                                                *)

LEMMA UndisturbedTokens ==
  ASSUME TokenInv, NumbersOK', DbOK', Undisturbed, Grows,
         tokens' = tokens \/ tokens' = 0 \/ tokens' = issued + 1,
         revoked' = revoked, overlapped' = overlapped, faulted => faulted', ejected' = ejected
  PROVE  TokenInv'
<1>1. PICK as : Carried(as) /\ \A c \in calls : InHand(c) => as[c] \in calls'
  BY DEF Undisturbed
<1>2. tokens' \notin revoked \/ tokens' = tokens
  BY DEF TokenInv, NumbersOK
<1>3. QED
  BY <1>1, <1>2, CarriedInv

LEMMA UserTokens ==
  ASSUME TokenInv, Grows, DbOK', User
  PROVE  TokenInv'
<1>1. /\ (tokens' = tokens \/ tokens' = 0 \/ tokens' = issued + 1)
      /\ revoked' = revoked /\ overlapped' = overlapped /\ (faulted => faulted') /\ ejected' = ejected
  BY DEF TokenInv, NumbersOK, User, Navigate, Mutate, Logout, SignIn, auth, browser
<1>2. NumbersOK'
  BY DEF TokenInv, NumbersOK, User, Navigate, Mutate, Logout, SignIn, auth, browser
<1>3. QED
  BY <1>1, <1>2, UserUndisturbs, UndisturbedTokens DEF TokenInv

LEMMA CallTokens ==
  ASSUME TokenInv, Grows, DbOK', NEW c \in calls,
         \/ Arrive(c) \/ QueryFails(c) \/ Find(c) \/ Write(c) \/ Publish(c) \/ Succeed(c) \/ Fail(c)
         \/ HandlerFails(c)
  PROVE  TokenInv'
<1>1. /\ issued' = issued /\ tokens' = tokens /\ revoked' = revoked /\ overlapped' = overlapped
      /\ (faulted => faulted') /\ ejected' = ejected /\ expired' = expired /\ signedIn' = signedIn
  <2>1. CASE Arrive(c) \/ QueryFails(c) \/ Fail(c) \/ Succeed(c)
    <3>1. CASE Arrive(c)
      BY <3>1 DEF Arrive, auth, history
    <3>2. CASE QueryFails(c)
      BY <3>2 DEF QueryFails, auth, history
    <3>3. CASE Fail(c) \/ Succeed(c)
      BY <3>3 DEF Fail, Succeed, auth, browser, history
    <3>4. QED
      BY <2>1, <3>1, <3>2, <3>3
  <2>2. CASE Find(c)
    BY <2>2 DEF Find, auth, browser, history
  <2>3. CASE Write(c)
    BY <2>3 DEF Write, auth, browser
  <2>4. CASE Publish(c) \/ HandlerFails(c)
    BY <2>4 DEF Publish, HandlerFails, auth, browser, history
  <2>5. QED
    BY <2>1, <2>2, <2>3, <2>4
<1>2. NumbersOK'
  BY <1>1 DEF TokenInv, NumbersOK
<1>3. QED
  BY <1>1, <1>2, WorkUndisturbs, UndisturbedTokens DEF TokenInv

LEMMA OtherTokens ==
  ASSUME TokenInv, Grows, DbOK', (\E op \in Others : Elsewhere(op)) \/ Minute \/ Expire \/ HearSignal
  PROVE  TokenInv'
<1>1. /\ issued' = issued /\ tokens' = tokens /\ revoked' = revoked /\ overlapped' = overlapped
      /\ (faulted => faulted') /\ ejected' = ejected /\ (expired' = expired \/ expired' = tokens)
      /\ signedIn' = signedIn
  BY DEF Elsewhere, Minute, Expire, HearSignal, auth, browser, history
<1>2. NumbersOK'
  BY <1>1 DEF TokenInv, NumbersOK
<1>3. QED
  BY <1>1, <1>2, OthersUndisturb, UndisturbedTokens DEF TokenInv

\* Whoever is signed out has no tokens, and nobody who is signed in is, without a reason.
LEMMA SignOutTokens ==
  ASSUME TokenInv, Grows, DbOK', NEW c \in calls, SignOut(c), UNCHANGED <<auth, faulted, overlapped>>,
         signedIn => faulted \/ overlapped
  PROVE  TokenInv'
<1>1. /\ issued' = issued /\ tokens' = 0 /\ revoked' = revoked /\ overlapped' = overlapped
      /\ faulted' = faulted /\ ~signedIn' /\ expired' = expired
  BY DEF SignOut, auth
<1>2. NumbersOK' /\ 0 \notin revoked /\ issued \in Nat
  BY <1>1 DEF TokenInv, NumbersOK
<1>3. PICK as : as = [d \in calls |-> [d EXCEPT !.heard = FALSE]]
  OBVIOUS
<1>4. Carried(as)
  BY <1>3, CarriedUnheard DEF SignOut, TokenInv
<1>5. CallsOK' /\ OneByOne' /\ NewPairsOK'
  <2>1. CallsOK /\ OneByOne /\ NewPairsOK
    BY DEF TokenInv
  <2>3. (tokens' = tokens \/ tokens' = 0 \/ tokens' = issued + 1) /\ (faulted => faulted')
    BY <1>1, SMT
  <2>4. QED
    BY <1>1, <1>4, <2>1, <2>3, CarriedRenewals, Zenon
<1>6. StoredTokenLives' /\ SignedOutForAReason'
  <2>1. ejected' => ejected \/ signedIn
    BY Zenon DEF SignOut
  <2>2. tokens' \notin revoked'
    BY <1>1, <1>2
  <2>3. ejected' => faulted' \/ overlapped'
    BY <1>1, <2>1, SMT DEF TokenInv, SignedOutForAReason
  <2>4. QED
    BY <2>2, <2>3 DEF StoredTokenLives, SignedOutForAReason
<1>7. QED
  BY <1>2, <1>5, <1>6 DEF TokenInv

\* What a step of one renewal has to leave true of the call itself and of the others.
LEMMA MoveCalls ==
  ASSUME CallsOK, Grows, NEW c \in calls, NEW d, Move(c, d), Fits(d, issued', Len(db'))
  PROVE  CallsOK'
<1>1. ASSUME NEW e \in calls'
      PROVE  Fits(e, issued', Len(db'))
  <2>1. CASE e \in calls
    <3>1. Fits(e, issued, Len(db))
      BY <2>1 DEF CallsOK
    <3>2. QED
      BY <3>1 DEF Fits, Grows
  <2>2. CASE e = d
    BY <2>2
  <2>3. QED
    BY <2>1, <2>2 DEF Move
<1>2. QED
  BY <1>1 DEF CallsOK

LEMMA Renews ==
  ASSUME TokenInv, Grows, DbOK', NEW c \in calls, c.pc = "sent", tokens # 0,
         Move(c, [c EXCEPT !.pc = "renewing", !.again = TRUE, !.holds = tokens]),
         overlapped' = (overlapped \/ Renewing # {}), UNCHANGED <<browser, ejected, auth, faulted>>
  PROVE  TokenInv'
<1>1. PICK d : d = [c EXCEPT !.pc = "renewing", !.again = TRUE, !.holds = tokens]
  OBVIOUS
<1>2. /\ calls' = (calls \ {c}) \cup {d} /\ IsCall(d) /\ d.pc = "renewing" /\ d.holds = tokens
      /\ d.token = c.token
  <2>1. IsCall(c)
    BY DEF TokenInv, CallsOK, Fits
  <2>2. calls' = (calls \ {c}) \cup {d}
    BY <1>1 DEF Move
  <2>3. QED
    BY <1>1, <2>1, <2>2 DEF IsCall, CallField
<1>3. /\ issued' = issued /\ tokens' = tokens /\ revoked' = revoked /\ expired' = expired /\ signedIn' = signedIn
      /\ faulted' = faulted /\ ejected' = ejected
  BY DEF browser, auth
<1>4. (overlapped => overlapped') /\ (~overlapped' => Renewing = {})
  BY Zenon
<1>5. NumbersOK'
  BY <1>3 DEF TokenInv, NumbersOK
<1>6. CallsOK'
  <2>1. Fits(c, issued, Len(db)) /\ issued \in Nat /\ tokens \in 1 .. issued
    BY DEF TokenInv, NumbersOK, CallsOK
  <2>2. d.kind = c.kind /\ d.from = c.from
    BY <1>1, <2>1 DEF Fits, IsCall, CallField
  <2>3. Fits(d, issued', Len(db'))
    BY <1>2, <1>3, <2>1, <2>2 DEF Fits, InRenewal, Grows
  <2>4. Move(c, d)
    BY <1>1
  <2>5. QED
    BY <2>3, <2>4, MoveCalls DEF TokenInv
<1>7. NewPairsOK'
  <2>1. ASSUME NEW e \in calls', e.pc = "renewed"
        PROVE  /\ e.holds \notin revoked' /\ e.holds # tokens'
               /\ \A f \in calls' : InRenewal(f) /\ f.holds = e.holds => f = e
    <3>1. e \in calls
      BY <1>2, <2>1
    <3>2. /\ e.holds \notin revoked /\ e.holds # tokens
          /\ \A f \in calls : InRenewal(f) /\ f.holds = e.holds => f = e
      BY <2>1, <3>1 DEF TokenInv, NewPairsOK
    <3>3. QED
      BY <1>2, <1>3, <3>2
  <2>2. QED
    BY <2>1 DEF NewPairsOK
<1>8. OneByOne'
  <2>1. ASSUME ~overlapped', NEW e \in calls', NEW f \in calls', InRenewal(e), InRenewal(f)
        PROVE  e = f
    BY <1>2, <1>4, <2>1 DEF Renewing, InRenewal
  <2>2. ASSUME ~overlapped', ~faulted', NEW e \in calls'
        PROVE  e.pc # "rejected" /\ (e.pc \in {"renewing", "checked"} => e.holds \notin revoked')
    <3>1. ~overlapped /\ ~faulted
      BY <1>3, <1>4, <2>2
    <3>2. CASE e \in calls
      BY <1>3, <3>1, <3>2 DEF TokenInv, OneByOne
    <3>3. CASE e = d
      <4>1. ASSUME tokens \in revoked
            PROVE  FALSE
        <5>1. PICK f \in calls : f.pc \in {"renewed", "rejected"}
          BY <4>1 DEF TokenInv, StoredTokenLives
        <5>2. f.pc # "rejected"
          BY <3>1 DEF TokenInv, OneByOne
        <5>3. f \in Renewing
          BY <5>1, <5>2 DEF Renewing
        <5>4. QED
          BY <1>4, <2>2, <5>3
      <4>2. QED
        BY <1>2, <1>3, <3>3, <4>1
    <3>4. QED
      BY <1>2, <3>2, <3>3
  <2>3. QED
    BY <2>1, <2>2 DEF OneByOne
<1>9. StoredTokenLives'
  <2>1. ASSUME NEW e \in calls, e.pc \in {"renewed", "rejected"}
        PROVE  e \in calls'
    BY <1>2, <2>1
  <2>2. QED
    BY <1>3, <2>1 DEF TokenInv, StoredTokenLives
<1>10. SignedOutForAReason'
  BY <1>3, <1>4 DEF TokenInv, SignedOutForAReason
<1>11. QED
  BY <1>5, <1>6, <1>7, <1>8, <1>9, <1>10 DEF TokenInv

LEMMA InterceptTokens ==
  ASSUME TokenInv, Grows, DbOK', NEW c \in calls, Intercept(c)
  PROVE  TokenInv'
<1>1. c.pc = "sent" /\ UNCHANGED <<auth, faulted>>
  BY DEF Intercept
<1>2. CASE c.again
  <2>1. Move(c, [c EXCEPT !.pc = "failed"]) /\ UNCHANGED <<browser, ejected, overlapped>>
    BY <1>2 DEF Intercept
  <2>2. ~InHand(c) /\ ~InRenewal(c) /\ issued' = issued /\ tokens' = tokens
    BY <1>1, <2>1 DEF InHand, InRenewal, browser, auth
  <2>3. Undisturbed
    BY <2>1, <2>2, HandlerMoves, MoveUndisturbs DEF TokenInv
  <2>4. NumbersOK'
    BY <1>1, <2>1 DEF TokenInv, NumbersOK, browser, auth
  <2>5. revoked' = revoked /\ faulted' = faulted
    BY <1>1 DEF auth
  <2>6. QED
    BY <2>1, <2>2, <2>3, <2>4, <2>5, UndisturbedTokens
<1>3. CASE ~c.again /\ tokens = 0
  <2>1. SignOut(c) /\ UNCHANGED <<auth, faulted, overlapped>>
    BY <1>1, <1>3 DEF Intercept
  <2>2. ~signedIn
    BY <1>3 DEF TokenInv, NumbersOK
  <2>3. QED
    BY <2>1, <2>2, SignOutTokens
<1>4. CASE ~c.again /\ tokens # 0
  BY <1>1, <1>4, Renews DEF Intercept
<1>5. QED
  BY <1>2, <1>3, <1>4

\* A renewal is refused, or fails: the call that made it is the only one that changes.
LEMMA RefusedTokens ==
  ASSUME TokenInv, Grows, DbOK', NEW c \in calls, InRenewal(c), NEW pc \in {"checked", "rejected"},
         Move(c, [c EXCEPT !.pc = pc]), UNCHANGED <<browser, auth, ejected, overlapped>>, faulted => faulted',
         pc = "checked" => c.pc = "renewing",
         pc = "rejected" => overlapped \/ faulted'
  PROVE  TokenInv'
<1>1. PICK d : d = [c EXCEPT !.pc = pc]
  OBVIOUS
<1>2. calls' = (calls \ {c}) \cup {d} /\ IsCall(d) /\ d.pc = pc /\ d.holds = c.holds /\ d.token = c.token
  <2>1. IsCall(c)
    BY DEF TokenInv, CallsOK, Fits
  <2>2. calls' = (calls \ {c}) \cup {d}
    BY <1>1 DEF Move
  <2>3. QED
    BY <1>1, <2>1, <2>2 DEF IsCall, CallField
<1>3. /\ issued' = issued /\ tokens' = tokens /\ revoked' = revoked /\ expired' = expired /\ signedIn' = signedIn
      /\ ejected' = ejected /\ overlapped' = overlapped
  BY DEF browser, auth
<1>4. NumbersOK'
  BY <1>3 DEF TokenInv, NumbersOK
<1>5. CallsOK'
  <2>1. Fits(c, issued, Len(db))
    BY DEF TokenInv, CallsOK
  <2>2. d.kind = c.kind /\ d.from = c.from
    BY <1>1, <2>1 DEF Fits, IsCall, CallField
  <2>3. Fits(d, issued', Len(db'))
    BY <1>2, <2>1, <2>2 DEF Fits, InRenewal, Grows
  <2>4. Move(c, d)
    BY <1>1
  <2>5. QED
    BY <2>3, <2>4, MoveCalls DEF TokenInv
<1>6. NewPairsOK'
  <2>1. ASSUME NEW e \in calls', e.pc = "renewed"
        PROVE  /\ e.holds \notin revoked' /\ e.holds # tokens'
               /\ \A f \in calls' : InRenewal(f) /\ f.holds = e.holds => f = e
    <3>1. e \in calls /\ e # c
      BY <1>2, <2>1
    <3>2. /\ e.holds \notin revoked /\ e.holds # tokens
          /\ \A f \in calls : InRenewal(f) /\ f.holds = e.holds => f = e
      BY <2>1, <3>1 DEF TokenInv, NewPairsOK
    <3>3. QED
      BY <1>2, <1>3, <3>1, <3>2
  <2>2. QED
    BY <2>1 DEF NewPairsOK
<1>7. OneByOne'
  <2>1. ASSUME ~overlapped', NEW e \in calls', NEW f \in calls', InRenewal(e), InRenewal(f)
        PROVE  e = f
    <3>1. \A g \in calls : InRenewal(g) => g = c
      BY <1>3, <2>1 DEF TokenInv, OneByOne
    <3>2. e = d /\ f = d
      BY <1>2, <2>1, <3>1
    <3>3. QED
      BY <3>2
  <2>2. ASSUME ~overlapped', ~faulted', NEW e \in calls'
        PROVE  e.pc # "rejected" /\ (e.pc \in {"renewing", "checked"} => e.holds \notin revoked')
    <3>1. ~overlapped /\ ~faulted /\ pc = "checked" /\ c.pc = "renewing"
      BY <1>3, <2>2
    <3>2. c.holds \notin revoked
      BY <3>1 DEF TokenInv, OneByOne
    <3>3. CASE e \in calls
      BY <1>3, <3>1, <3>3 DEF TokenInv, OneByOne
    <3>4. CASE e = d
      BY <1>2, <1>3, <3>1, <3>2, <3>4
    <3>5. QED
      BY <1>2, <3>3, <3>4
  <2>3. QED
    BY <2>1, <2>2 DEF OneByOne
<1>8. StoredTokenLives'
  <2>1. ASSUME NEW e \in calls, e.pc \in {"renewed", "rejected"}
        PROVE  \E f \in calls' : f.pc \in {"renewed", "rejected"}
    <3>1. CASE e = c
      BY <1>2, <2>1, <3>1
    <3>2. CASE e # c
      BY <1>2, <2>1, <3>2
    <3>3. QED
      BY <3>1, <3>2
  <2>2. QED
    BY <1>3, <2>1 DEF TokenInv, StoredTokenLives
<1>9. SignedOutForAReason'
  BY <1>3 DEF TokenInv, SignedOutForAReason
<1>10. QED
  BY <1>4, <1>5, <1>6, <1>7, <1>8, <1>9 DEF TokenInv

LEMMA Rotates ==
  ASSUME TokenInv, Grows, DbOK', NEW c \in calls, RotateTokens(c)
  PROVE  TokenInv'
<1>1. PICK d : d = [c EXCEPT !.pc = "renewed", !.holds = issued + 1]
  OBVIOUS
<1>2. /\ calls' = (calls \ {c}) \cup {d} /\ IsCall(d) /\ d.pc = "renewed" /\ d.holds = issued + 1
      /\ d.token = c.token
  <2>1. IsCall(c)
    BY DEF TokenInv, CallsOK, Fits
  <2>2. calls' = (calls \ {c}) \cup {d}
    BY <1>1 DEF RotateTokens, Move
  <2>3. QED
    BY <1>1, <2>1, <2>2 DEF IsCall, CallField
<1>3. /\ c.pc = "checked" /\ issued' = issued + 1 /\ tokens' = tokens /\ revoked' = revoked \cup {c.holds}
      /\ expired' = expired /\ signedIn' = signedIn /\ faulted' = faulted /\ ejected' = ejected
      /\ overlapped' = overlapped
  BY DEF RotateTokens, browser, history
<1>4. issued \in Nat /\ c.holds \in 1 .. issued /\ c.token \in 0 .. issued /\ tokens \in 0 .. issued
  <2>1. issued \in Nat /\ tokens \in 0 .. issued /\ c.token \in 0 .. issued /\ c.holds \in 0 .. issued
    BY DEF TokenInv, NumbersOK, CallsOK, Fits
  <2>2. c.holds > 0
    BY <1>3 DEF TokenInv, CallsOK, InRenewal, Fits
  <2>3. QED
    BY <2>1, <2>2
<1>5. NumbersOK'
  <2>1. revoked \subseteq 1 .. issued /\ expired \in 0 .. issued /\ (signedIn => tokens > 0)
    BY DEF TokenInv, NumbersOK
  <2>2. revoked' \subseteq 1 .. issued'
    <3>1. 1 .. issued \subseteq 1 .. issued + 1 /\ c.holds \in 1 .. issued + 1
      BY <1>4
    <3>2. QED
      BY <1>3, <2>1, <3>1
  <2>3. issued' \in Nat /\ tokens' \in 0 .. issued' /\ expired' \in 0 .. issued'
    BY <1>3, <1>4, <2>1
  <2>4. signedIn' => tokens' > 0
    BY <1>3, <2>1
  <2>5. QED
    BY <2>2, <2>3, <2>4 DEF NumbersOK
<1>6. CallsOK'
  <2>1. Fits(c, issued, Len(db))
    BY DEF TokenInv, CallsOK
  <2>2. d.kind = c.kind /\ d.from = c.from
    BY <1>1, <2>1 DEF Fits, IsCall, CallField
  <2>3. Fits(d, issued', Len(db'))
    BY <1>2, <1>3, <1>4, <2>1, <2>2 DEF Fits, InRenewal, Grows
  <2>4. Move(c, d)
    BY <1>2 DEF Move
  <2>5. QED
    BY <2>3, <2>4, MoveCalls DEF TokenInv
<1>7. \A e \in calls : e.holds # issued + 1
  BY <1>4 DEF TokenInv, CallsOK, Fits
<1>8. NewPairsOK'
  <2>1. ASSUME NEW e \in calls', e.pc = "renewed"
        PROVE  /\ e.holds \notin revoked' /\ e.holds # tokens'
               /\ \A f \in calls' : InRenewal(f) /\ f.holds = e.holds => f = e
    <3>1. CASE e = d
      <4>1. issued + 1 \notin revoked \cup {c.holds} /\ issued + 1 # tokens
        BY <1>4 DEF TokenInv, NumbersOK
      <4>2. QED
        BY <1>2, <1>3, <1>7, <3>1, <4>1
    <3>2. CASE e # d
      <4>1. e \in calls /\ e # c
        BY <1>2, <1>3, <2>1, <3>2
      <4>2. /\ e.holds \notin revoked /\ e.holds # tokens
            /\ \A f \in calls : InRenewal(f) /\ f.holds = e.holds => f = e
        BY <2>1, <4>1 DEF TokenInv, NewPairsOK
      <4>3. e.holds # c.holds
        BY <1>3, <4>1, <4>2 DEF InRenewal
      <4>4. QED
        BY <1>2, <1>3, <1>7, <4>1, <4>2, <4>3
    <3>3. QED
      BY <3>1, <3>2
  <2>2. QED
    BY <2>1 DEF NewPairsOK
<1>9. OneByOne'
  <2>1. ASSUME ~overlapped
        PROVE  \A e \in calls' : InRenewal(e) => e = d
    <3>1. \A g \in calls : InRenewal(g) => g = c
      BY <1>3, <2>1 DEF TokenInv, OneByOne, InRenewal
    <3>2. QED
      BY <1>2, <3>1
  <2>2. ASSUME ~overlapped, ~faulted, NEW e \in calls'
        PROVE  e.pc # "rejected" /\ (e.pc \in {"renewing", "checked"} => e.holds \notin revoked')
    <3>1. e.pc # "rejected"
      BY <1>2, <2>2 DEF TokenInv, OneByOne
    <3>2. e.pc \notin {"renewing", "checked"}
      BY <1>2, <2>1, <2>2 DEF InRenewal
    <3>3. QED
      BY <3>1, <3>2
  <2>3. QED
    BY <1>3, <2>1, <2>2 DEF OneByOne
<1>10. StoredTokenLives'
  BY <1>2 DEF StoredTokenLives
<1>11. SignedOutForAReason'
  BY <1>3 DEF TokenInv, SignedOutForAReason
<1>12. QED
  BY <1>5, <1>6, <1>8, <1>9, <1>10, <1>11 DEF TokenInv

LEMMA SetsTokens ==
  ASSUME TokenInv, Grows, DbOK', NEW c \in calls, SetTokens(c)
  PROVE  TokenInv'
<1>1. PICK k : k = IF c.kind = "query" THEN Len(db) ELSE 0
  OBVIOUS
<1>2. PICK d : d = [c EXCEPT !.pc = "sent", !.token = c.holds, !.holds = 0, !.from = k]
  OBVIOUS
<1>3. calls' = (calls \ {c}) \cup {d} /\ IsCall(d) /\ d.pc = "sent" /\ d.holds = 0 /\ d.token = c.holds
  <2>1. IsCall(c)
    BY DEF TokenInv, CallsOK, Fits
  <2>2. calls' = (calls \ {c}) \cup {d}
    BY <1>1, <1>2 DEF SetTokens, Resend, Move
  <2>3. QED
    BY <1>2, <2>1, <2>2 DEF IsCall, CallField
<1>4. /\ c.pc = "renewed" /\ issued' = issued /\ tokens' = c.holds /\ revoked' = revoked
      /\ expired' = expired /\ signedIn' = signedIn /\ faulted' = faulted /\ ejected' = ejected
      /\ overlapped' = overlapped
  BY DEF SetTokens, auth, history
<1>5. issued \in Nat /\ c.holds \in 1 .. issued /\ c.holds \notin revoked
  BY <1>4 DEF TokenInv, NumbersOK, CallsOK, NewPairsOK, InRenewal, Fits
<1>6. NumbersOK'
  BY <1>4, <1>5 DEF TokenInv, NumbersOK
<1>7. CallsOK'
  <2>1. Fits(c, issued, Len(db))
    BY DEF TokenInv, CallsOK
  <2>2. d.kind = c.kind /\ d.from = k
    BY <1>2, <2>1 DEF Fits, IsCall, CallField
  <2>3. Fits(d, issued', Len(db'))
    BY <1>1, <1>3, <1>4, <1>5, <2>1, <2>2 DEF Fits, InRenewal, Grows
  <2>4. Move(c, d)
    BY <1>3 DEF Move
  <2>5. QED
    BY <2>3, <2>4, MoveCalls DEF TokenInv
<1>8. \A e \in calls' : InRenewal(e) \/ InHand(e) => e \in calls /\ e # c
  BY <1>3 DEF InRenewal, InHand
<1>9. NewPairsOK'
  <2>1. ASSUME NEW e \in calls', e.pc = "renewed"
        PROVE  /\ e.holds \notin revoked' /\ e.holds # tokens'
               /\ \A f \in calls' : InRenewal(f) /\ f.holds = e.holds => f = e
    <3>1. e \in calls /\ e # c
      BY <1>8, <2>1 DEF InRenewal
    <3>2. /\ e.holds \notin revoked /\ e.holds # tokens
          /\ \A f \in calls : InRenewal(f) /\ f.holds = e.holds => f = e
      BY <2>1, <3>1 DEF TokenInv, NewPairsOK
    <3>3. e.holds # c.holds
      BY <1>4, <3>1, <3>2 DEF InRenewal
    <3>4. QED
      BY <1>4, <1>8, <3>2, <3>3
  <2>2. QED
    BY <2>1 DEF NewPairsOK
<1>10. OneByOne'
  <2>1. ASSUME ~overlapped, NEW e \in calls', NEW f \in calls', InRenewal(e), InRenewal(f)
        PROVE  e = f
    BY <1>8, <2>1 DEF TokenInv, OneByOne
  <2>2. ASSUME ~overlapped, ~faulted, NEW e \in calls'
        PROVE  e.pc # "rejected" /\ (e.pc \in {"renewing", "checked"} => e.holds \notin revoked)
    <3>1. CASE e \in calls
      BY <2>2, <3>1 DEF TokenInv, OneByOne
    <3>2. CASE e = d
      BY <1>3, <3>2
    <3>3. QED
      BY <1>3, <3>1, <3>2
  <2>3. QED
    BY <1>4, <2>1, <2>2 DEF OneByOne
<1>11. StoredTokenLives' /\ SignedOutForAReason'
  BY <1>4, <1>5 DEF TokenInv, StoredTokenLives, SignedOutForAReason
<1>12. QED
  BY <1>6, <1>7, <1>9, <1>10, <1>11 DEF TokenInv

LEMMA StepTokens ==
  ASSUME TokenInv, [Next]_vars
  PROVE  TokenInv'
<1>0. Grows /\ DbOK'
  BY StepGrows DEF TokenInv
<1>1. CASE UNCHANGED vars
  BY <1>1 DEF vars, browser, server, auth, history, TokenInv, NumbersOK, DbOK, CallsOK, NewPairsOK, OneByOne,
              StoredTokenLives, SignedOutForAReason
<1>2. CASE User
  BY <1>0, <1>2, UserTokens
<1>3. ASSUME NEW c \in calls, CallStep(c)
      PROVE  TokenInv'
  <2>1. CASE CheckRefreshToken(c)
    <3>1. /\ c.pc = "renewing" /\ InRenewal(c) /\ UNCHANGED <<browser, auth, ejected, overlapped>>
          /\ faulted' = faulted
      BY <2>1 DEF CheckRefreshToken, InRenewal, history
    <3>2. CASE c.holds \in revoked
      <4>1. Move(c, [c EXCEPT !.pc = "rejected"])
        BY <2>1, <3>2 DEF CheckRefreshToken
      <4>2. overlapped \/ faulted'
        BY <3>1, <3>2 DEF TokenInv, OneByOne
      <4>3. QED
        BY <3>1, <4>1, <4>2, RefusedTokens, <1>0
    <3>3. CASE c.holds \notin revoked
      <4>1. Move(c, [c EXCEPT !.pc = "checked"])
        BY <2>1, <3>3 DEF CheckRefreshToken
      <4>2. QED
        BY <3>1, <4>1, RefusedTokens, <1>0
    <3>4. QED
      BY <3>2, <3>3
  <2>2. CASE Rejected(c)
    <3>1. SignOut(c) /\ UNCHANGED <<auth, faulted, overlapped>>
      BY <2>2 DEF Rejected
    <3>2. faulted \/ overlapped
      BY <2>2 DEF Rejected, TokenInv, OneByOne
    <3>3. QED
      BY <3>1, <3>2, SignOutTokens, <1>0
  <2>3. QED
    BY <1>0, <1>3, <2>1, <2>2, CallTokens, InterceptTokens, Rotates, SetsTokens DEF CallStep
<1>4. ASSUME NEW c \in calls, RenewalFails(c)
      PROVE  TokenInv'
  <2>1. /\ InRenewal(c) /\ UNCHANGED <<browser, auth, ejected, overlapped>> /\ faulted'
        /\ Move(c, [c EXCEPT !.pc = "rejected"])
    BY <1>4 DEF RenewalFails, InRenewal
  <2>2. QED
    BY <2>1, RefusedTokens, <1>0
<1>5. CASE Environment
  BY <1>0, <1>4, <1>5, CallTokens, OtherTokens DEF Environment
<1>6. QED
  BY <1>1, <1>2, <1>3, <1>5 DEF Next, Work

-----------------------------------------------------------------------------
(* The ingestor.                                                            *)

\* A handler is between a commit and the signal about it.
Midway(c) == c.wrote /\ Signals(c) /\ c.pc \in {"running", "publishing"}
Told == signal \/ silent \/ (\E c \in calls : Midway(c))
ReadOK == read \in 1 .. Len(db) /\ (Told \/ Active(db[read].rows) = Active(Now))

KnowInv == TokenInv /\ ReadOK

\* Steps that write nothing, and drop no handler.
LEMMA QuietReads ==
  ASSUME ReadOK, UNCHANGED <<db, read>>, signal => signal', silent => silent',
         (\E c \in calls : Midway(c)) => silent' \/ signal' \/ \E c \in calls' : Midway(c)
  PROVE  ReadOK'
BY DEF ReadOK, Told, Now

LEMMA AlikeMidway ==
  ASSUME NEW c, NEW d, Alike(c, d), Midway(c)
  PROVE  Midway(d)
BY DEF Alike, Midway, Signals

LEMMA UserReads ==
  ASSUME KnowInv, User
  PROVE  ReadOK'
<1>1. UNCHANGED <<db, read, signal, silent>>
  BY DEF User, Navigate, Mutate, Logout, SignIn, server
<1>2. ASSUME NEW c \in calls, Midway(c)
      PROVE  \E d \in calls' : Midway(d)
  <2>1. PICK d : d = [c EXCEPT !.calm = FALSE]
    OBVIOUS
  <2>2. PICK e : e = [c EXCEPT !.heard = FALSE]
    OBVIOUS
  <2>3. Alike(c, d) /\ Alike(c, e)
    BY <2>1, <2>2, Marks DEF KnowInv, TokenInv, CallsOK, Fits
  <2>4. Midway(d) /\ Midway(e)
    BY <1>2, <2>3, AlikeMidway
  <2>5. c \in calls' \/ d \in calls' \/ e \in calls'
    BY <2>1, <2>2 DEF User, Navigate, Mutate, Logout, SignIn, Unheard
  <2>6. QED
    BY <1>2, <2>4, <2>5
<1>3. QED
  BY <1>1, <1>2, QuietReads DEF KnowInv

LEMMA WorkReads ==
  ASSUME KnowInv, Grows, NEW c \in calls,
         \/ Arrive(c) \/ QueryFails(c) \/ Find(c) \/ Succeed(c) \/ Fail(c)
         \/ Intercept(c) \/ CheckRefreshToken(c) \/ RotateTokens(c) \/ SetTokens(c) \/ Rejected(c)
         \/ RenewalFails(c)
  PROVE  ReadOK'
<1>1. UNCHANGED <<db, read, signal, silent>>
  <2>1. CASE Arrive(c) \/ QueryFails(c)
    BY <2>1 DEF Arrive, QueryFails, server, history
  <2>2. CASE Find(c) \/ Succeed(c) \/ Fail(c)
    BY <2>2 DEF Find, Succeed, Fail, server, history
  <2>3. CASE Intercept(c) \/ CheckRefreshToken(c) \/ RotateTokens(c) \/ SetTokens(c) \/ Rejected(c)
    BY <2>3 DEF Intercept, CheckRefreshToken, RotateTokens, SetTokens, Rejected, server, history
  <2>4. CASE RenewalFails(c)
    BY <2>4 DEF RenewalFails, server
  <2>5. QED
    BY <2>1, <2>2, <2>3, <2>4
<1>2. ~Midway(c)
  BY DEF Midway, Arrive, QueryFails, Find, Succeed, Fail, Intercept, CheckRefreshToken, RotateTokens,
         SetTokens, Rejected, RenewalFails
<1>3. ASSUME NEW e \in calls, Midway(e)
      PROVE  \E d \in calls' : Midway(d)
  <2>1. e # c
    BY <1>2, <1>3
  <2>2. CASE calls \ {c} \subseteq calls'
    BY <1>3, <2>1, <2>2
  <2>3. CASE SignOut(c)
    <3>1. Fits(e, issued, Len(db))
      BY DEF KnowInv, TokenInv, CallsOK
    <3>2. e.kind = "mutation" /\ e.pc \in {"running", "publishing"}
      BY <1>3, <3>1 DEF Midway, Fits
    <3>3. PICK d : d = [e EXCEPT !.heard = FALSE]
      OBVIOUS
    <3>4. d \in calls'
      BY <2>1, <2>3, <3>2, <3>3 DEF SignOut, Unheard
    <3>5. Midway(d)
      BY <1>3, <3>1, <3>3, Marks, AlikeMidway DEF Fits
    <3>6. QED
      BY <3>4, <3>5
  <2>4. CASE Succeed(c) /\ c.heard
    <3>1. Invalidate(c.of.invalidates, calls \ {c}, page')
      BY <2>4 DEF Succeed
    <3>2. PICK as : Carried(as) /\ \A d \in calls \ {c} : as[d] \in calls'
      BY <3>1, CarriedInvalidate DEF KnowInv, TokenInv
    <3>3. as[e] \in calls' /\ Midway(as[e])
      BY <1>3, <2>1, <3>2, AlikeMidway DEF Carried
    <3>4. QED
      BY <3>3
  <2>5. calls \ {c} \subseteq calls' \/ SignOut(c) \/ (Succeed(c) /\ c.heard)
    <3>1. CASE Arrive(c) \/ QueryFails(c) \/ Find(c) \/ Fail(c) \/ Succeed(c)
      BY <3>1 DEF Arrive, QueryFails, Find, Fail, Succeed, Move
    <3>2. CASE Intercept(c) \/ Rejected(c)
      BY <3>2 DEF Intercept, Rejected, Move
    <3>3. CASE CheckRefreshToken(c) \/ RotateTokens(c) \/ SetTokens(c) \/ RenewalFails(c)
      BY <3>3 DEF CheckRefreshToken, RotateTokens, SetTokens, RenewalFails, Resend, Move
    <3>4. QED
      BY <3>1, <3>2, <3>3
  <2>6. QED
    BY <2>2, <2>3, <2>4, <2>5
<1>4. QED
  BY <1>1, <1>3, QuietReads DEF KnowInv

LEMMA CommitReads ==
  ASSUME DbOK, ReadOK, NEW w, NEW subject, Commit(w, subject), UNCHANGED read,
         signal => signal', silent => silent',
         Active(Now) # Active(Committed(Now, w)) => signal' \/ silent' \/ \E c \in calls' : Midway(c),
         \A c \in calls : Midway(c) => silent' \/ \E d \in calls' : Midway(d)
  PROVE  ReadOK'
<1>1. /\ Len(db') = Len(db) + 1 /\ Now' = Committed(Now, w)
      /\ \A i \in 1 .. Len(db) : db'[i] = db[i]
  BY Appended DEF Commit
<1>2. read' \in 1 .. Len(db') /\ db'[read'] = db[read]
  BY <1>1 DEF ReadOK, DbOK
<1>3. CASE Told
  BY <1>2, <1>3 DEF ReadOK, Told
<1>4. CASE ~Told
  <2>1. Active(db[read].rows) = Active(Now)
    BY <1>4 DEF ReadOK
  <2>2. CASE Active(Now) = Active(Committed(Now, w))
    BY <1>1, <1>2, <2>1, <2>2 DEF ReadOK
  <2>3. CASE Active(Now) # Active(Committed(Now, w))
    BY <1>2, <2>3 DEF ReadOK, Told
  <2>4. QED
    BY <2>2, <2>3
<1>5. QED
  BY <1>3, <1>4

LEMMA WriteReads ==
  ASSUME KnowInv, NEW c \in calls, Write(c)
  PROVE  ReadOK'
<1>1. PICK w : w = Head(c.todo)
  OBVIOUS
<1>2. PICK d : d = [c EXCEPT !.todo = Tail(@), !.wrote = TRUE]
  OBVIOUS
<1>3. PICK e : e = IF d.todo = <<>> THEN [d EXCEPT !.pc = Returned(d)] ELSE d
  OBVIOUS
<1>4. IsCall(c) /\ c.pc = "running" /\ UNCHANGED <<signal, read>>
  BY DEF KnowInv, TokenInv, CallsOK, Fits, Write
<1>5. d.wrote /\ d.pc = "running" /\ d.of = c.of /\ IsCall(d)
  BY <1>2, <1>4 DEF IsCall, CallField
<1>6. e.wrote /\ e.of = c.of /\ (Signals(c) => e.pc \in {"running", "publishing"})
  BY <1>3, <1>5 DEF IsCall, CallField, Returned, Signals
<1>7. Signals(c) => Midway(e)
  BY <1>6 DEF Midway, Signals
<1>8. CASE Possible(Now, w)
  <2>1. /\ Commit(w, IF c.heard THEN Subject(c) ELSE {}) /\ Move(c, e)
        /\ silent' = (silent \/ (~Signals(c) /\ Active(Now) # Active(Committed(Now, w))))
    BY <1>1, <1>2, <1>3, <1>8, Zenon DEF Write
  <2>2. silent => silent'
    BY <2>1, Zenon
  <2>3. ASSUME Active(Now) # Active(Committed(Now, w))
        PROVE  silent' \/ \E f \in calls' : Midway(f)
    <3>1. CASE Signals(c)
      BY <1>7, <2>1, <3>1 DEF Move
    <3>2. CASE ~Signals(c)
      BY <2>1, <2>3, <3>2, Zenon
    <3>3. QED
      BY <3>1, <3>2
  <2>4. ASSUME NEW f \in calls, Midway(f)
        PROVE  \E g \in calls' : Midway(g)
    <3>1. CASE f = c
      BY <1>7, <2>1, <2>4, <3>1 DEF Move, Midway
    <3>2. CASE f # c
      BY <2>1, <2>4, <3>2 DEF Move
    <3>3. QED
      BY <3>1, <3>2
  <2>5. QED
    BY <1>4, <2>1, <2>2, <2>3, <2>4, CommitReads DEF KnowInv, TokenInv
<1>9. CASE ~Possible(Now, w)
  <2>1. Move(c, [c EXCEPT !.pc = "failed"]) /\ silent' = (silent \/ c.wrote) /\ UNCHANGED db
    BY <1>1, <1>9, Zenon DEF Write
  <2>2. (silent => silent') /\ (c.wrote => silent')
    BY <2>1, Zenon
  <2>3. ASSUME NEW f \in calls, Midway(f)
        PROVE  silent' \/ \E g \in calls' : Midway(g)
    <3>1. CASE f = c
      BY <2>2, <2>3, <3>1 DEF Midway
    <3>2. CASE f # c
      BY <2>1, <2>3, <3>2 DEF Move
    <3>3. QED
      BY <3>1, <3>2
  <2>4. QED
    BY <1>4, <2>1, <2>2, <2>3, QuietReads DEF KnowInv
<1>10. QED
  BY <1>8, <1>9

LEMMA HandlerReads ==
  ASSUME KnowInv, NEW c \in calls, Publish(c) \/ HandlerFails(c)
  PROVE  ReadOK'
<1>1. CASE Publish(c)
  BY <1>1 DEF Publish, KnowInv, ReadOK, Told
<1>2. CASE HandlerFails(c)
  <2>1. UNCHANGED <<db, read, signal>> /\ silent' = (silent \/ c.wrote)
    BY <1>2 DEF HandlerFails, server
  <2>2. (silent => silent') /\ (c.wrote => silent')
    BY <2>1, Zenon
  <2>3. ASSUME NEW f \in calls, Midway(f)
        PROVE  silent' \/ \E g \in calls' : Midway(g)
    <3>1. CASE f = c
      BY <2>2, <2>3, <3>1 DEF Midway
    <3>2. CASE f # c
      BY <1>2, <2>3, <3>2 DEF HandlerFails, Move
    <3>3. QED
      BY <3>1, <3>2
  <2>4. QED
    BY <2>1, <2>2, <2>3, QuietReads DEF KnowInv
<1>3. QED
  BY <1>1, <1>2

LEMMA OtherReads ==
  ASSUME KnowInv, (\E op \in Others : Elsewhere(op)) \/ Minute \/ Expire \/ HearSignal
  PROVE  ReadOK'
<1>1. ASSUME NEW op \in Others, Elsewhere(op)
      PROVE  ReadOK'
  <2>1. PICK w : w = Head(op.writes)
    OBVIOUS
  <2>2. /\ Commit(w, {}) /\ UNCHANGED <<calls, read>>
        /\ signal' = (signal \/ op.signals)
        /\ silent' = (silent \/ (~op.signals /\ Active(Now) # Active(Committed(Now, w))))
    BY <1>1, <2>1, Zenon DEF Elsewhere
  <2>3. (signal => signal') /\ (op.signals => signal') /\ (silent => silent')
        /\ (~op.signals /\ Active(Now) # Active(Committed(Now, w)) => silent')
    BY <2>2, Zenon
  <2>4. QED
    BY <2>2, <2>3, CommitReads DEF KnowInv, TokenInv
<1>2. CASE Minute \/ Expire
  <2>1. UNCHANGED <<db, read, signal, silent>> /\ calls \subseteq calls'
    BY <1>2 DEF Minute, Expire, server
  <2>2. QED
    BY <2>1, QuietReads DEF KnowInv
<1>3. CASE HearSignal
  <2>1. read' = Len(db) /\ db' = db /\ Len(db) \in 1 .. Len(db)
    BY <1>3 DEF HearSignal, KnowInv, TokenInv, DbOK
  <2>2. QED
    BY <2>1 DEF ReadOK, Now, Last
<1>4. QED
  BY <1>1, <1>2, <1>3

LEMMA StepReads ==
  ASSUME KnowInv, [Next]_vars
  PROVE  ReadOK'
<1>1. Grows
  BY StepGrows DEF KnowInv, TokenInv
<1>2. CASE User
  BY <1>2, UserReads
<1>3. ASSUME NEW c \in calls, CallStep(c)
      PROVE  ReadOK'
  BY <1>1, <1>3, WorkReads, WriteReads, HandlerReads DEF CallStep
<1>4. CASE Environment
  BY <1>1, <1>4, WorkReads, HandlerReads, OtherReads DEF Environment
<1>5. CASE UNCHANGED vars
  BY <1>5, QuietReads DEF vars, server, history, KnowInv
<1>6. QED
  BY <1>2, <1>3, <1>4, <1>5 DEF Next, Work

-----------------------------------------------------------------------------
(* The pages and the cache.                                                 *)

\* What some page mounts: a key stands for one query.
MountedQuery ==
  {useApplications("100"), useApplications("20"), useApplications("5"), useApplication,
   useApplicationStats, useChains, useChainsAdmin, usePrograms("20"), usePrograms("100"),
   useProgram, useEvents("20"), useEvents("100"), useSubscriptions, useSubscription,
   useWebhooks("20"), useWebhooks("100"), useWebhook, Polled(useWebhookLogs),
   Polled(useWebhookLogStats), useMembers, useInvites, useMyPendingInvites, useApiKeys,
   useDashboardStats, useDailyEventStats, useTopApplications, useIngestorInstances,
   useDispatcherInstances}

LEMMA TheKeys ==
  /\ useApplications("100").key = <<"applications", "list", "100">>
  /\ useApplications("20").key = <<"applications", "list", "20">>
  /\ useApplications("5").key = <<"applications", "list", "5">>
  /\ useApplication.key = <<"applications", "detail">>
  /\ useApplicationStats.key = <<"applications", "detail", "stats">>
  /\ useChains.key = <<"chains", "list">>
  /\ useChainsAdmin.key = <<"chains", "admin", "list">>
  /\ usePrograms("20").key = <<"programs", "list", "20">>
  /\ usePrograms("100").key = <<"programs", "list", "100">>
  /\ useProgram.key = <<"programs", "detail">>
  /\ useEvents("20").key = <<"events", "list", "20">>
  /\ useEvents("100").key = <<"events", "list", "100">>
  /\ useSubscriptions.key = <<"subscriptions", "list", "20">>
  /\ useSubscription.key = <<"subscriptions", "detail">>
  /\ useWebhooks("20").key = <<"webhooks", "list", "20">>
  /\ useWebhooks("100").key = <<"webhooks", "list", "100">>
  /\ useWebhook.key = <<"webhooks", "detail">>
  /\ Polled(useWebhookLogs).key = <<"webhook-logs", "list", "20">>
  /\ Polled(useWebhookLogStats).key = <<"webhook-logs", "stats">>
  /\ useMembers.key = <<"members", "list">>
  /\ useInvites.key = <<"invites", "list">>
  /\ useMyPendingInvites.key = <<"invites", "pending">>
  /\ useApiKeys.key = <<"api-keys", "list", "20">>
  /\ useDashboardStats.key = <<"dashboard", "stats">>
  /\ useDailyEventStats.key = <<"dashboard", "dailyEventStats">>
  /\ useTopApplications.key = <<"dashboard", "topApplications">>
  /\ useIngestorInstances.key = <<"ingestor", "instances">>
  /\ useDispatcherInstances.key = <<"dispatcher", "instances">>
BY DEF useApplications, useApplication, useApplicationStats, useChains, useChainsAdmin,
       usePrograms, useProgram, useEvents, useSubscription, useSubscriptions, useWebhooks,
       useWebhook, useWebhookLogs, useWebhookLogStats, useMembers, useInvites,
       useMyPendingInvites, useApiKeys, useDashboardStats, useDailyEventStats, useTopApplications,
       useIngestorInstances, useDispatcherInstances, Query, Polled

LEMMA KeysApart ==
  ASSUME NEW x \in MountedQuery, NEW y \in MountedQuery, x.key = y.key
  PROVE  x = y
BY TheKeys, SMTT(100) DEF MountedQuery

PageNames ==
  {"dashboard", "applications", "overview", "members", "programs", "newProgram", "subscriptions",
   "newSubscription", "webhooks", "settings", "program", "subscription", "webhook", "chains",
   "ingestors", "dispatchers", "login"}

LEMMA ThePages == Page = PageNames
BY DEF Page, Pages, PageNames

LEMMA MountsOfScreens ==
  ASSUME NEW r \in BOOLEAN, NEW p \in Page
  PROVE  Mounts[r][p] = Pages[r][p].frame \cup Pages[r][p].mounts /\ Mounts[r][p] \subseteq MountedQuery
<1> DEFINE Fine(screen) == screen.frame \cup screen.mounts \subseteq MountedQuery
<1>1. Mounts[r][p] = Pages[r][p].frame \cup Pages[r][p].mounts
  BY DEF Mounts
<1>2. Fine(Pages[r]["dashboard"])
  BY DEF Pages, DashboardPage, Screen, Header, MountedQuery
<1>3. Fine(Pages[r]["applications"])
  BY DEF Pages, ApplicationsPage, Screen, Header, MountedQuery
<1>4. Fine(Pages[r]["overview"])
  BY DEF Pages, ApplicationOverviewPage, Screen, Header, MountedQuery, AppPage, AppLayout, Reached
<1>5. Fine(Pages[r]["members"])
  BY DEF Pages, MembersPage, Screen, Header, MountedQuery, AppPage, AppLayout, Reached
<1>6. Fine(Pages[r]["programs"])
  BY DEF Pages, ProgramsPage, Screen, Header, MountedQuery, AppPage, AppLayout, Reached
<1>7. Fine(Pages[r]["newProgram"])
  BY DEF Pages, CreateProgramDialog, Screen, Header, MountedQuery, AppPage, AppLayout, Reached
<1>8. Fine(Pages[r]["subscriptions"])
  BY DEF Pages, SubscriptionsPage, Screen, Header, MountedQuery, AppPage, AppLayout, Reached
<1>9. Fine(Pages[r]["newSubscription"])
  BY DEF Pages, CreateSubscriptionDialog, Screen, Header, MountedQuery, AppPage, AppLayout, Reached
<1>10. Fine(Pages[r]["webhooks"])
  BY DEF Pages, WebhooksPage, Screen, Header, MountedQuery, AppPage, AppLayout, Reached
<1>11. Fine(Pages[r]["settings"])
  BY DEF Pages, SettingsPage, Screen, Header, MountedQuery, AppPage, AppLayout, Reached
<1>12. Fine(Pages[r]["program"])
  BY DEF Pages, ProgramDetailPage, Screen, Header, MountedQuery, Reached
<1>13. Fine(Pages[r]["subscription"])
  BY DEF Pages, SubscriptionDetailPage, Screen, Header, MountedQuery, Reached
<1>14. Fine(Pages[r]["webhook"])
  BY DEF Pages, WebhookDetailPage, Screen, Header, MountedQuery, Reached
<1>15. Fine(Pages[r]["chains"])
  BY DEF Pages, ChainsPage, Screen, Header, MountedQuery
<1>16. Fine(Pages[r]["ingestors"])
  BY DEF Pages, IngestorsPage, Screen, Header, MountedQuery
<1>17. Fine(Pages[r]["dispatchers"])
  BY DEF Pages, DispatchersPage, Screen, Header, MountedQuery
<1>18. Fine(Pages[r]["login"])
  BY DEF Pages, LoginPage, Screen, Header, MountedQuery
<1>19. Fine(Pages[r][p])
  BY ThePages, <1>2, <1>3, <1>4, <1>5, <1>6, <1>7, <1>8, <1>9, <1>10, <1>11, <1>12, <1>13, <1>14, <1>15, <1>16, <1>17, <1>18 DEF PageNames
<1>20. QED
  BY <1>1, <1>19

EntryField == {"at", "stale", "invalid", "failed", "slipped"}
EntryFits(e, l) == e = [f \in EntryField |-> e[f]] /\ e.at \in 0 .. l
CacheOK == \A k \in DOMAIN cache : EntryFits(cache[k], Len(db))

FetchFor(c) == c.kind = "query" /\ c.heard
OneFetch == \A c, d \in calls : FetchFor(c) /\ FetchFor(d) /\ c.of.key = d.of.key => c = d

\* On the login page nobody waits for anything.
PageOK ==
  /\ root \in BOOLEAN /\ page \in Page /\ (signedIn => page # "login")
  /\ page = "login" => \A c \in calls : ~c.heard

ScreenInv == PageOK /\ CacheOK /\ OneFetch

LEMMA NoMoreFetches ==
  ASSUME OneFetch, NEW as, \A c \in calls : as[c].kind = c.kind /\ as[c].of = c.of /\ (as[c].heard => c.heard),
         \A e \in calls' : FetchFor(e) => \E c \in calls : e = as[c]
  PROVE  OneFetch'
<1>1. ASSUME NEW e \in calls', NEW f \in calls', FetchFor(e), FetchFor(f), e.of.key = f.of.key
      PROVE  e = f
  <2>1. PICK c \in calls : e = as[c]
    BY <1>1
  <2>2. PICK d \in calls : f = as[d]
    BY <1>1
  <2>3. /\ as[c].kind = c.kind /\ as[c].of = c.of /\ (as[c].heard => c.heard)
        /\ as[d].kind = d.kind /\ as[d].of = d.of /\ (as[d].heard => d.heard)
    OBVIOUS
  <2>4. c.kind = "query" /\ c.heard /\ d.kind = "query" /\ d.heard /\ c.of.key = d.of.key
    BY <1>1, <2>1, <2>2, <2>3 DEF FetchFor
  <2>5. c = d
    BY <2>4 DEF OneFetch, FetchFor
  <2>6. QED
    BY <2>1, <2>2, <2>5
<1>2. QED
  BY <1>1 DEF OneFetch

LEMMA Fewer ==
  ASSUME OneFetch, calls' \subseteq calls
  PROVE  OneFetch'
BY DEF OneFetch

LEMMA FewerHeard ==
  ASSUME CallsOK, OneFetch, NEW cs, cs \subseteq calls, calls' = Unheard(cs)
  PROVE  OneFetch' /\ \A e \in calls' : ~e.heard
<1>1. \A e \in calls' : ~e.heard
  BY DEF CallsOK, Fits, IsCall, CallField, Unheard
<1>2. QED
  BY <1>1 DEF OneFetch, FetchFor

LEMMA Moved ==
  ASSUME OneFetch, NEW c \in calls, NEW d, Move(c, d), d.kind = c.kind, d.of = c.of, d.heard = c.heard
  PROVE  OneFetch'
BY DEF OneFetch, Move, FetchFor

LEMMA Mounting ==
  ASSUME PageOK, OneFetch, NEW p \in Page, NEW qs, qs \subseteq Mounted(p), calls' = calls \cup Fetch(qs)
  PROVE  OneFetch'
<1>1. \A q \in qs : q \in MountedQuery
  BY MountsOfScreens DEF PageOK, Mounted
<1>2. \A e \in Fetch(qs) : \E q \in qs : e = Call(q, "query") /\ e.of = q /\ ~Fetching(q)
  BY DEF Fetch, Call
<1>3. ASSUME NEW e \in calls', NEW f \in calls', FetchFor(e), FetchFor(f), e.of.key = f.of.key
      PROVE  e = f
  <2>1. CASE e \in calls /\ f \in calls
    BY <1>3, <2>1 DEF OneFetch
  <2>2. CASE e \in Fetch(qs) /\ f \in Fetch(qs)
    <3>1. PICK q \in qs : e = Call(q, "query") /\ e.of = q
      BY <1>2, <2>2
    <3>2. PICK r \in qs : f = Call(r, "query") /\ f.of = r
      BY <1>2, <2>2
    <3>3. q = r
      BY <1>1, <1>3, <3>1, <3>2, KeysApart
    <3>4. QED
      BY <3>1, <3>2, <3>3
  <2>3. CASE e \in Fetch(qs) /\ f \in calls
    BY <1>2, <1>3, <2>3 DEF Fetching, FetchFor
  <2>4. CASE e \in calls /\ f \in Fetch(qs)
    BY <1>2, <1>3, <2>4 DEF Fetching, FetchFor
  <2>5. QED
    BY <2>1, <2>2, <2>3, <2>4
<1>4. QED
  BY <1>3 DEF OneFetch

LEMMA InvalidateFetches ==
  ASSUME CallsOK, root \in BOOLEAN, OneFetch, NEW keys, NEW cs, cs \subseteq calls, NEW p \in Page,
         Invalidate(keys, cs, p)
  PROVE  OneFetch'
<1>1. PICK flying : flying = {c \in cs : c.kind = "query" /\ c.heard /\ Matching(keys, c.of.key)}
  OBVIOUS
<1>2. PICK active : active = {q \in Mounted(p) : Matching(keys, q.key)}
  OBVIOUS
<1>3. PICK kept : kept = {c \in flying : c.of.key \notin {q.key : q \in {q \in active : Known(q)}}}
  OBVIOUS
<1>4. PICK sent : sent = {Call(q, "query") : q \in {q \in active : \A c \in kept : c.of.key # q.key}}
  OBVIOUS
<1>5. calls' = (cs \ flying) \cup Unheard(flying \ kept) \cup {[c EXCEPT !.late = TRUE] : c \in kept} \cup sent
  BY <1>1, <1>2, <1>3, <1>4, Zenon DEF Invalidate
<1>6. \A e \in Unheard(flying \ kept) : ~FetchFor(e)
  BY <1>1 DEF Unheard, CallsOK, Fits, IsCall, CallField, FetchFor
<1>7. \A e \in {[c EXCEPT !.late = TRUE] : c \in kept} :
        \E c \in kept : e = [c EXCEPT !.late = TRUE] /\ FetchFor(c) /\ e.of = c.of
  BY <1>1, <1>3 DEF CallsOK, Fits, IsCall, CallField, FetchFor
<1>8. \A e \in sent : \E q \in active : e = Call(q, "query") /\ e.of = q /\ \A c \in kept : c.of.key # q.key
  BY <1>4 DEF Call
<1>9. \A q \in active : q \in MountedQuery /\ Matching(keys, q.key)
  BY <1>2, MountsOfScreens DEF Mounted
<1>10. \A c \in cs \ flying : FetchFor(c) => ~Matching(keys, c.of.key)
  BY <1>1 DEF FetchFor
<1>11. \A c \in kept : c \in cs /\ Matching(keys, c.of.key)
  BY <1>1, <1>3
<1>12. ASSUME NEW e \in calls', FetchFor(e)
       PROVE  \/ e \in cs \ flying /\ ~Matching(keys, e.of.key)
              \/ /\ Matching(keys, e.of.key)
                 /\ \E c \in kept : e = [c EXCEPT !.late = TRUE] /\ FetchFor(c) /\ e.of = c.of
              \/ /\ Matching(keys, e.of.key) /\ \A c \in kept : c.of.key # e.of.key
                 /\ \E q \in active : e = Call(q, "query") /\ e.of = q
  <2>1. CASE e \in cs \ flying
    BY <1>10, <1>12, <2>1
  <2>2. CASE e \in {[c EXCEPT !.late = TRUE] : c \in kept}
    <3>1. PICK c \in kept : e = [c EXCEPT !.late = TRUE] /\ FetchFor(c) /\ e.of = c.of
      BY <1>7, <2>2
    <3>2. QED
      BY <1>11, <3>1
  <2>3. CASE e \in sent
    <3>1. PICK q \in active : e = Call(q, "query") /\ e.of = q /\ \A c \in kept : c.of.key # q.key
      BY <1>8, <2>3
    <3>2. QED
      BY <1>9, <3>1
  <2>4. QED
    BY <1>5, <1>6, <1>12, <2>1, <2>2, <2>3
<1>13. ASSUME NEW e \in calls', NEW f \in calls', FetchFor(e), FetchFor(f), e.of.key = f.of.key
       PROVE  e = f
  <2>1. PICK k : k = e.of.key /\ k = f.of.key
    BY <1>13
  <2>2. CASE ~Matching(keys, k)
    <3>1. e \in calls /\ f \in calls
      BY <1>12, <1>13, <2>1, <2>2
    <3>2. QED
      BY <1>13, <3>1 DEF OneFetch
  <2>3. CASE \E c \in kept : c.of.key = k /\ Matching(keys, k)
    <3>1. PICK c \in kept : e = [c EXCEPT !.late = TRUE] /\ FetchFor(c) /\ e.of = c.of
      BY <1>12, <1>13, <2>1, <2>3
    <3>2. PICK d \in kept : f = [d EXCEPT !.late = TRUE] /\ FetchFor(d) /\ f.of = d.of
      BY <1>12, <1>13, <2>1, <2>3
    <3>3. c = d
      BY <1>11, <1>13, <3>1, <3>2 DEF OneFetch
    <3>4. QED
      BY <3>1, <3>2, <3>3
  <2>4. CASE Matching(keys, k) /\ \A c \in kept : c.of.key # k
    <3>1. PICK q \in active : e = Call(q, "query") /\ e.of = q
      BY <1>12, <1>13, <2>1, <2>4
    <3>2. PICK r \in active : f = Call(r, "query") /\ f.of = r
      BY <1>12, <1>13, <2>1, <2>4
    <3>3. q = r
      BY <1>9, <1>13, <3>1, <3>2, KeysApart
    <3>4. QED
      BY <3>1, <3>2, <3>3
  <2>5. QED
    BY <2>2, <2>3, <2>4
<1>14. QED
  BY <1>13 DEF OneFetch

\* A call that goes on is still the same query or mutation, with the same listener.
Same(c, d) == d.kind = c.kind /\ d.of = c.of /\ d.heard = c.heard

LEMMA SameCalls ==
  ASSUME NEW c, IsCall(c), NEW pc, NEW todo, NEW w
  PROVE  /\ Same(c, [c EXCEPT !.pc = pc]) /\ Same(c, [c EXCEPT !.todo = todo, !.pc = pc])
         /\ Same(c, [c EXCEPT !.todo = todo, !.wrote = w])
         /\ Same(c, [[c EXCEPT !.todo = todo, !.wrote = w] EXCEPT !.pc = pc])
BY DEF Same, IsCall, CallField

LEMMA CallsGoOn ==
  ASSUME CallsOK, NEW c \in calls,
         \/ Find(c) \/ Write(c) \/ Publish(c) \/ HandlerFails(c) \/ CheckRefreshToken(c) \/ RotateTokens(c)
         \/ RenewalFails(c) \/ SetTokens(c)
  PROVE  /\ \E d : Move(c, d) /\ Same(c, d)
         /\ UNCHANGED <<root, page, cache, signedIn>>
<1>1. IsCall(c)
  BY DEF CallsOK, Fits
<1>2. CASE Find(c)
  <2>1. \E todo, pc : Move(c, [c EXCEPT !.todo = todo, !.pc = pc]) \/ Move(c, [c EXCEPT !.pc = pc])
    BY <1>2 DEF Find
  <2>2. QED
    BY <1>1, <1>2, <2>1, SameCalls DEF Find, browser
<1>3. CASE Write(c)
  <2>1. PICK todo : todo = Tail(c.todo)
    OBVIOUS
  <2>2. PICK d : d = [c EXCEPT !.todo = todo, !.wrote = TRUE]
    OBVIOUS
  <2>3. \/ Move(c, [d EXCEPT !.pc = "publishing"]) \/ Move(c, [d EXCEPT !.pc = "done"])
        \/ Move(c, d) \/ Move(c, [c EXCEPT !.pc = "failed"])
    BY <1>3, <2>1, <2>2 DEF Write, Returned
  <2>4. Same(c, d) /\ Same(c, [c EXCEPT !.pc = "failed"])
    BY <1>1, <2>2, SameCalls
  <2>5. Same(c, [d EXCEPT !.pc = "publishing"]) /\ Same(c, [d EXCEPT !.pc = "done"])
    BY <1>1, <2>2, SameCalls
  <2>6. QED
    BY <1>3, <2>3, <2>4, <2>5 DEF Write, browser
<1>4. CASE Publish(c)
  BY <1>1, <1>4, SameCalls DEF Publish, browser
<1>5. CASE HandlerFails(c)
  <2>1. PICK pc : Move(c, [c EXCEPT !.pc = pc, !.todo = <<>>])
    BY <1>5, Zenon DEF HandlerFails
  <2>2. Same(c, [c EXCEPT !.pc = pc, !.todo = <<>>])
    BY <1>1 DEF Same, IsCall, CallField
  <2>3. QED
    BY <1>5, <2>1, <2>2 DEF HandlerFails, browser
<1>6. CASE CheckRefreshToken(c) \/ RenewalFails(c)
  <2>1. \E pc : Move(c, [c EXCEPT !.pc = pc])
    BY <1>6, Zenon DEF CheckRefreshToken, RenewalFails
  <2>2. QED
    BY <1>1, <1>6, <2>1, SameCalls DEF CheckRefreshToken, RenewalFails, browser
<1>7. CASE RotateTokens(c)
  <2>1. PICK n : Move(c, [c EXCEPT !.pc = "renewed", !.holds = n])
    BY <1>7, Zenon DEF RotateTokens
  <2>2. Same(c, [c EXCEPT !.pc = "renewed", !.holds = n])
    BY <1>1 DEF Same, IsCall, CallField
  <2>3. QED
    BY <1>7, <2>1, <2>2 DEF RotateTokens, browser
<1>8. CASE SetTokens(c)
  <2>1. PICK t, from : Move(c, [c EXCEPT !.pc = "sent", !.token = t, !.holds = 0, !.from = from])
    BY <1>8, Zenon DEF SetTokens, Resend
  <2>2. Same(c, [c EXCEPT !.pc = "sent", !.token = t, !.holds = 0, !.from = from])
    BY <1>1 DEF Same, IsCall, CallField
  <2>3. QED
    BY <1>8, <2>1, <2>2 DEF SetTokens
<1>9. QED
  BY <1>2, <1>3, <1>4, <1>5, <1>6, <1>7, <1>8

LEMMA SamePage ==
  ASSUME PageOK, UNCHANGED <<root, page, signedIn>>,
         page = "login" => \A e \in calls' : e.heard => \E c \in calls : c.heard
  PROVE  PageOK'
BY DEF PageOK

LEMMA SameCache ==
  ASSUME Grows, CacheOK, UNCHANGED cache
  PROVE  CacheOK'
BY DEF CacheOK, EntryFits, Grows

LEMMA NoEntries == cache' = NoCache => CacheOK'
BY DEF NoCache, CacheOK

LEMMA Stores ==
  ASSUME CacheOK, UNCHANGED db, NEW k, NEW e, EntryFits(e, Len(db)), cache' = Store(k, e)
  PROVE  CacheOK'
BY DEF CacheOK, Store

LEMMA GoesOn ==
  ASSUME ScreenInv, CallsOK, Grows, NEW c \in calls,
         \/ Find(c) \/ Write(c) \/ Publish(c) \/ HandlerFails(c) \/ CheckRefreshToken(c) \/ RotateTokens(c)
         \/ RenewalFails(c) \/ SetTokens(c)
  PROVE  ScreenInv'
<1>1. PICK d : Move(c, d) /\ Same(c, d)
  BY CallsGoOn
<1>2. UNCHANGED <<root, page, cache, signedIn>>
  BY CallsGoOn
<1>3. PageOK'
  BY <1>1, <1>2, SamePage DEF ScreenInv, Move, Same
<1>4. OneFetch'
  BY <1>1, Moved DEF ScreenInv, Same
<1>5. QED
  BY <1>2, <1>3, <1>4, SameCache DEF ScreenInv

LEMMA SignOutScreens ==
  ASSUME ScreenInv, CallsOK, NEW c \in calls, SignOut(c), UNCHANGED root
  PROVE  ScreenInv'
<1>1. PICK cs : cs \subseteq calls /\ calls' = Unheard(cs)
  BY DEF SignOut
<1>2. OneFetch' /\ \A e \in calls' : ~e.heard
  BY <1>1, FewerHeard DEF ScreenInv
<1>3. PageOK'
  BY <1>2, ThePages DEF SignOut, PageOK, PageNames, ScreenInv
<1>4. QED
  BY <1>2, <1>3, NoEntries DEF SignOut, ScreenInv

LEMMA InterceptScreens ==
  ASSUME ScreenInv, CallsOK, Grows, NEW c \in calls, Intercept(c)
  PROVE  ScreenInv'
<1>1. CASE SignOut(c)
  BY <1>1, SignOutScreens DEF Intercept
<1>2. CASE ~SignOut(c)
  <2>1. IsCall(c)
    BY DEF CallsOK, Fits
  <2>2. PICK d : Move(c, d) /\ Same(c, d)
    <3>1. \/ Move(c, [c EXCEPT !.pc = "failed"])
          \/ Move(c, [c EXCEPT !.pc = "renewing", !.again = TRUE, !.holds = tokens])
      BY <1>2, Zenon DEF Intercept
    <3>2. /\ Same(c, [c EXCEPT !.pc = "failed"])
          /\ Same(c, [c EXCEPT !.pc = "renewing", !.again = TRUE, !.holds = tokens])
      BY <2>1 DEF Same, IsCall, CallField
    <3>3. QED
      BY <3>1, <3>2
  <2>3. UNCHANGED <<root, page, cache, signedIn>>
    BY <1>2 DEF Intercept, browser
  <2>4. PageOK'
    BY <2>2, <2>3, SamePage DEF ScreenInv, Move, Same
  <2>5. OneFetch'
    BY <2>2, Moved DEF ScreenInv, Same
  <2>6. QED
    BY <2>3, <2>4, <2>5, SameCache DEF ScreenInv
<1>3. QED
  BY <1>1, <1>2

LEMMA AnswerScreens ==
  ASSUME ScreenInv, CallsOK, Grows, NEW c \in calls, Arrive(c) \/ QueryFails(c) \/ Fail(c)
  PROVE  ScreenInv'
<1>1. UNCHANGED <<root, page, signedIn>> /\ calls' = calls \ {c}
  BY DEF Arrive, QueryFails, Fail, browser, server
<1>2. OneFetch' /\ PageOK'
  BY <1>1, Fewer, SamePage DEF ScreenInv
<1>3. CASE Arrive(c)
  <2>1. c.from \in 0 .. Len(db) /\ Len(db) \in Nat
    BY DEF CallsOK, Fits, Grows
  <2>2. PICK i \in c.from .. Len(db) :
          cache' = (IF c.heard THEN Store(c.of.key, [Entry EXCEPT !.at = i, !.slipped = c.late]) ELSE cache)
    BY <1>3, Zenon DEF Arrive
  <2>3. EntryFits([Entry EXCEPT !.at = i, !.slipped = c.late], Len(db))
    <3>1. i \in 0 .. Len(db)
      BY <2>1
    <3>2. QED
      BY <3>1 DEF Entry, EntryFits, EntryField
  <2>4. UNCHANGED db
    BY <1>3 DEF Arrive, server
  <2>5. QED
    BY <1>2, <2>2, <2>3, <2>4, Stores, SameCache DEF ScreenInv
<1>4. CASE QueryFails(c)
  <2>1. PICK k : k = c.of.key
    OBVIOUS
  <2>2. PICK e : e = [(IF k \in DOMAIN cache THEN cache[k] ELSE Entry) EXCEPT !.failed = TRUE]
    OBVIOUS
  <2>3. EntryFits(e, Len(db))
    <3>1. CASE k \in DOMAIN cache
      BY <2>2, <3>1 DEF ScreenInv, CacheOK, EntryFits, EntryField
    <3>2. CASE k \notin DOMAIN cache
      BY <2>2, <3>2 DEF Entry, EntryFits, EntryField, Grows
    <3>3. QED
      BY <3>1, <3>2
  <2>4. cache' = (IF c.heard THEN Store(k, e) ELSE cache) /\ UNCHANGED db
    BY <1>4, <2>1, <2>2 DEF QueryFails, server
  <2>5. QED
    BY <1>2, <2>3, <2>4, Stores, SameCache DEF ScreenInv
<1>5. CASE Fail(c)
  BY <1>2, <1>5, SameCache DEF ScreenInv, Fail, browser
<1>6. QED
  BY <1>3, <1>4, <1>5

LEMMA SucceedScreens ==
  ASSUME ScreenInv, CallsOK, Grows, NEW c \in calls, Succeed(c)
  PROVE  ScreenInv'
<1>1. UNCHANGED <<root, signedIn, db>> /\ page' = After(c) /\ After(c) \in Page
  BY ThePages DEF Succeed, After, PageNames, ScreenInv, PageOK, server
<1>2. CASE c.heard
  <2>1. PICK p : p = After(c)
    OBVIOUS
  <2>2. Invalidate(c.of.invalidates, calls \ {c}, p)
    BY <1>1, <1>2, <2>1 DEF Succeed
  <2>3. OneFetch'
    BY <1>1, <2>1, <2>2, InvalidateFetches DEF ScreenInv, PageOK
  <2>4. page # "login" /\ p # "login"
    BY <1>2, <2>1 DEF ScreenInv, PageOK, After
  <2>5. PageOK'
    BY <1>1, <2>1, <2>4 DEF ScreenInv, PageOK
  <2>6. CacheOK'
    <3>1. cache' = [k \in DOMAIN cache |-> [cache[k] EXCEPT !.invalid = @ \/ Matching(c.of.invalidates, k)]]
      BY <2>2 DEF Invalidate
    <3>2. QED
      BY <1>1, <3>1 DEF ScreenInv, CacheOK, EntryFits, EntryField
  <2>7. QED
    BY <2>3, <2>5, <2>6 DEF ScreenInv
<1>3. CASE ~c.heard
  <2>1. page' = page /\ calls' = calls \ {c} /\ UNCHANGED cache
    BY <1>1, <1>3 DEF Succeed, After
  <2>2. QED
    BY <1>1, <2>1, Fewer, SamePage, SameCache DEF ScreenInv
<1>4. QED
  BY <1>2, <1>3

LEMMA UserScreens ==
  ASSUME ScreenInv, CallsOK, Grows, User
  PROVE  ScreenInv'
<1>1. ASSUME NEW p \in Page, Navigate(p)
      PROVE  ScreenInv'
  <2>1. PICK qs : qs = {q \in Pages[root][p].mounts \cup (Pages[root][p].frame \ Pages[root][page].frame) :
                          Outdated(q)}
    OBVIOUS
  <2>2. qs \subseteq Mounted(p)
    BY <2>1, MountsOfScreens DEF Mounted, ScreenInv, PageOK
  <2>3. calls' = calls \cup Fetch(qs) /\ page' = p /\ p # "login" /\ UNCHANGED <<root, cache>>
    BY <1>1, <2>1 DEF Navigate, MountQueries
  <2>4. OneFetch'
    BY <2>2, <2>3, Mounting DEF ScreenInv
  <2>5. PageOK'
    BY <2>3 DEF ScreenInv, PageOK
  <2>6. QED
    BY <2>3, <2>4, <2>5, SameCache DEF ScreenInv
<1>2. ASSUME NEW offer \in Screen0.offers, Mutate(offer)
      PROVE  ScreenInv'
  <2>1. PICK new : new = [Call(offer.mutation, "mutation") EXCEPT !.calm = AtRest]
    OBVIOUS
  <2>2. PICK as : as = [c \in calls |-> [c EXCEPT !.calm = FALSE]]
    OBVIOUS
  <2>3. calls' = {as[c] : c \in calls} \cup {new} /\ UNCHANGED <<root, page, cache, signedIn>> /\ signedIn
    BY <1>2, <2>1, <2>2 DEF Mutate, browser
  <2>4. ~FetchFor(new)
    BY <2>1 DEF Call, FetchFor
  <2>5. \A c \in calls : as[c].kind = c.kind /\ as[c].of = c.of /\ as[c].heard = c.heard
    BY <2>2 DEF CallsOK, Fits, IsCall, CallField
  <2>6. \A e \in calls' : FetchFor(e) => \E c \in calls : e = as[c]
    BY <2>3, <2>4
  <2>7. OneFetch'
    BY <2>5, <2>6, NoMoreFetches DEF ScreenInv
  <2>8. PageOK'
    BY <2>3 DEF ScreenInv, PageOK
  <2>9. QED
    BY <2>3, <2>7, <2>8, SameCache DEF ScreenInv
<1>3. CASE Logout
  <2>1. OneFetch' /\ \A e \in calls' : ~e.heard
    BY <1>3, FewerHeard DEF Logout, ScreenInv
  <2>2. PageOK'
    BY <1>3, <2>1, ThePages DEF Logout, PageOK, PageNames, ScreenInv
  <2>3. QED
    BY <1>3, <2>1, <2>2, NoEntries DEF Logout, ScreenInv
<1>4. CASE SignIn
  <2>1. \A c \in calls : ~FetchFor(c)
    BY <1>4 DEF SignIn, ScreenInv, PageOK, FetchFor
  <2>2. "dashboard" \in Page
    BY ThePages DEF PageNames
  <2>3. PICK qs : qs = Mounted("dashboard") /\ qs \subseteq MountedQuery
    BY <2>2, MountsOfScreens DEF Mounted, ScreenInv, PageOK
  <2>4. calls' = calls \cup {[Call(q, "query") EXCEPT !.token = issued + 1] : q \in qs}
    BY <1>4, <2>3 DEF SignIn
  <2>5. ASSUME NEW e \in calls', FetchFor(e)
        PROVE  \E q \in qs : e = [Call(q, "query") EXCEPT !.token = issued + 1] /\ e.of = q
    BY <2>1, <2>4, <2>5 DEF Call
  <2>6. ASSUME NEW e \in calls', NEW f \in calls', FetchFor(e), FetchFor(f), e.of.key = f.of.key
        PROVE  e = f
    <3>1. PICK q \in qs : e = [Call(q, "query") EXCEPT !.token = issued + 1] /\ e.of = q
      BY <2>5, <2>6
    <3>2. PICK r \in qs : f = [Call(r, "query") EXCEPT !.token = issued + 1] /\ f.of = r
      BY <2>5, <2>6
    <3>3. q = r
      BY <2>3, <2>6, <3>1, <3>2, KeysApart
    <3>4. QED
      BY <3>1, <3>2, <3>3
  <2>7. OneFetch'
    BY <2>6 DEF OneFetch
  <2>8. PageOK'
    BY <1>4, <2>2 DEF SignIn, ScreenInv, PageOK
  <2>9. QED
    BY <1>4, <2>7, <2>8, SameCache DEF SignIn, ScreenInv
<1>5. QED
  BY <1>1, <1>2, <1>3, <1>4 DEF User

LEMMA OtherScreens ==
  ASSUME ScreenInv, Grows, (\E op \in Others : Elsewhere(op)) \/ Minute \/ Expire \/ HearSignal
  PROVE  ScreenInv'
<1>1. CASE (\E op \in Others : Elsewhere(op)) \/ HearSignal
  <2>1. UNCHANGED <<root, page, signedIn, cache, calls>>
    BY <1>1 DEF Elsewhere, HearSignal, browser
  <2>2. QED
    BY <2>1, Fewer, SamePage, SameCache DEF ScreenInv
<1>2. CASE Minute \/ Expire
  <2>1. PICK qs : qs = {q \in Mounted(page) : q.interval}
    OBVIOUS
  <2>2. /\ UNCHANGED <<root, page, signedIn, db>> /\ signedIn
        /\ cache' = Aged /\ calls' = calls \cup Fetch(qs)
    BY <1>2, <2>1 DEF Minute, Expire, server
  <2>3. OneFetch'
    BY <2>1, <2>2, Mounting DEF ScreenInv, PageOK
  <2>4. PageOK'
    BY <2>2, SamePage DEF ScreenInv, PageOK
  <2>5. CacheOK'
    BY <2>2 DEF ScreenInv, CacheOK, EntryFits, EntryField, Aged
  <2>6. QED
    BY <2>3, <2>4, <2>5 DEF ScreenInv
<1>3. QED
  BY <1>1, <1>2

LEMMA StepScreens ==
  ASSUME ScreenInv, KnowInv, [Next]_vars
  PROVE  ScreenInv'
<1>1. Grows /\ CallsOK
  BY StepGrows DEF KnowInv, TokenInv
<1>2. CASE User
  BY <1>1, <1>2, UserScreens
<1>3. ASSUME NEW c \in calls, CallStep(c)
      PROVE  ScreenInv'
  <2>1. CASE Rejected(c)
    BY <1>1, <2>1, SignOutScreens DEF Rejected
  <2>2. CASE ~Rejected(c)
    BY <1>1, <1>3, <2>2, AnswerScreens, GoesOn, InterceptScreens, SucceedScreens DEF CallStep
  <2>3. QED
    BY <2>1, <2>2
<1>4. CASE Environment
  BY <1>1, <1>4, GoesOn, OtherScreens DEF Environment
<1>5. CASE UNCHANGED vars
  <2>1. UNCHANGED <<root, page, signedIn, cache, calls>>
    BY <1>5 DEF vars, browser
  <2>2. QED
    BY <1>1, <2>1, Fewer, SamePage, SameCache DEF ScreenInv
<1>6. QED
  BY <1>2, <1>3, <1>4, <1>5 DEF Next, Work

-----------------------------------------------------------------------------
(* The theorems.                                                            *)

LEMMA Invariant == Spec => []KnowInv
<1>1. Init => KnowInv
  <2>1. ASSUME Init
        PROVE  TokenInv
    BY <2>1 DEF Init, TokenInv, NumbersOK, DbOK, CallsOK, NewPairsOK, OneByOne, StoredTokenLives, SignedOutForAReason
  <2>2. ASSUME Init
        PROVE  ReadOK
    <3>1. Len(db) = 1 /\ read = 1
      BY <2>2 DEF Init
    <3>2. QED
      BY <3>1 DEF ReadOK, Now, Last
  <2>3. QED
    BY <2>1, <2>2 DEF KnowInv
<1>2. KnowInv /\ [Next]_vars => KnowInv'
  BY StepTokens, StepReads DEF KnowInv
<1>3. QED
  BY <1>1, <1>2, PTL DEF Spec

LEMMA ScreenInvariant == Spec => []ScreenInv
<1>1. Init => ScreenInv
  <2>1. ASSUME Init
        PROVE  PageOK /\ OneFetch
    BY <2>1, ConsoleAssumption DEF Init, PageOK, OneFetch
  <2>2. ASSUME Init
        PROVE  CacheOK
    <3>1. Len(db) = 1
      BY <2>2 DEF Init
    <3>2. \A k \in DOMAIN cache : cache[k] = [Entry EXCEPT !.at = 1]
      BY <2>2 DEF Init
    <3>3. QED
      BY <3>1, <3>2 DEF CacheOK, EntryFits, EntryField, Entry
  <2>3. QED
    BY <2>1, <2>2 DEF ScreenInv
<1>2. KnowInv /\ ScreenInv /\ [Next]_vars => ScreenInv'
  BY StepScreens
<1>3. QED
  BY <1>1, <1>2, Invariant, PTL DEF Spec

\* The browser and the server keep to their types: the page is one of the application's,
\* every cached answer read a commit there was, nobody holds tokens that were not issued,
\* and no clicks, mounts, polls, invalidations or sign-ins make two fetches of one query that somebody
\* waits for.
THEOREM TypeCorrect == Spec => []TypeOK
<1>1. ASSUME KnowInv, ScreenInv
      PROVE  TypeOK
  <2>1. page \in Page /\ read \in 1 .. Len(db) /\ \A k \in DOMAIN cache : cache[k].at \in 0 .. Len(db)
    BY <1>1 DEF KnowInv, ReadOK, ScreenInv, PageOK, CacheOK, EntryFits
  <2>2. tokens \in 0 .. issued /\ expired \in 0 .. issued /\ revoked \subseteq 1 .. issued
    BY <1>1 DEF KnowInv, TokenInv, NumbersOK
  <2>3. \A c \in calls : /\ c.kind \in {"query", "mutation"} /\ c.token \in 0 .. issued
                         /\ c.holds \in 0 .. issued /\ c.from \in 0 .. Len(db)
    BY <1>1 DEF KnowInv, TokenInv, CallsOK, Fits
  <2>4. OneFetch
    BY <1>1 DEF ScreenInv
  <2>5. QED
    BY <2>1, <2>2, <2>3, <2>4 DEF TypeOK, OneFetch, FetchFor
<1>2. QED
  BY <1>1, Invariant, ScreenInvariant, PTL

\* The refresh token that the browser keeps can still be used, whenever no renewal
\* is between the server's answer and what the interceptor makes of it.
THEOREM TokenLives == Spec => []StoredTokenLives
<1>1. KnowInv => StoredTokenLives
  BY DEF KnowInv, TokenInv
<1>2. QED
  BY <1>1, Invariant, PTL

\* The interceptor signs a signed-in user out only after a failure, or when calls renewed
\* the tokens side by side: no order of clicks, navigations, answers and expiries
\* does it alone.
THEOREM SignedOutWithReason == Spec => []SignedOutForAReason
<1>1. KnowInv => SignedOutForAReason
  BY DEF KnowInv, TokenInv
<1>2. QED
  BY <1>1, Invariant, PTL

\* With no signal on its way and no handler between its commit and its signal, the last
\* answer to the ingestor is the current one, but for what changed without a signal.
THEOREM IngestorIsTold == Spec => []IngestorKnows
<1>1. KnowInv => IngestorKnows
  BY DEF KnowInv, ReadOK, Told, Midway, IngestorKnows
<1>2. QED
  BY <1>1, Invariant, PTL
=============================================================================
