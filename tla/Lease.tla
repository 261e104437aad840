-------------------------------- MODULE Lease --------------------------------
(***************************************************************************)
(* A lease service: what the claim keys in Redis promise the instances,    *)
(* whatever their timing and whatever fails.  AppClaim implements it.      *)
(*                                                                         *)
(* "owner" is what the service says, "believers" is what each instance     *)
(* thinks, and "asking" is what the instances ask of the service, which is *)
(* up to them.  An instance comes to own or to believe it has an           *)
(* application only by asking for a free lease.  A lease ends in three     *)
(* ways only: its owner asks for the end of it, a whole lease time passes  *)
(* without a renewal its owner asked for, or an operator who saw it held   *)
(* revokes it.  It never passes from one instance to another without       *)
(* having been free.                                                       *)
(***************************************************************************)
EXTENDS Integers

CONSTANTS Instance,   \* who can own a lease
          App,        \* what is leased
          None,       \* the owner of a free lease
          LeaseTtl    \* how long a lease lasts

VARIABLES owner,      \* owner[a]: who holds the lease on a
          left,       \* left[a]: the time left of it
          condemned,  \* the leases an operator is about to revoke
          asking,     \* asking[i]: the requests of i that wait to be served
          believers   \* believers[i]: what i thinks it has

leases == <<owner, left, condemned, believers>>
vars   == <<leases, asking>>

Request == {"claim", "renew", "release"} \X App

Init ==
  /\ owner = [a \in App |-> None]
  /\ left = [a \in App |-> 0]
  /\ condemned = {}
  /\ asking = [i \in Instance |-> {}]
  /\ believers = [i \in Instance |-> {}]

\* i takes a free lease, and learns that it did unless the answer is lost.
Acquire(i, a) ==
  /\ <<"claim", a>> \in asking[i]
  /\ owner[a] = None
  /\ owner' = [owner EXCEPT ![a] = i]
  /\ left' = [left EXCEPT ![a] = LeaseTtl]
  /\ believers' = [believers EXCEPT ![i] = @ \cup {a}] \/ UNCHANGED believers
  /\ UNCHANGED condemned

\* Only the owner renews.
Renew(i, a) ==
  /\ <<"renew", a>> \in asking[i]
  /\ owner[a] = i
  /\ left' = [left EXCEPT ![a] = LeaseTtl]
  /\ UNCHANGED <<owner, condemned, believers>>

\* Only the owner gives up.
GiveUp(i, a) ==
  /\ <<"release", a>> \in asking[i]
  /\ owner[a] = i
  /\ owner' = [owner EXCEPT ![a] = None]
  /\ left' = [left EXCEPT ![a] = 0]
  /\ UNCHANGED <<condemned, believers>>

\* i no longer believes it has the applications in S.
Forget(i, S) ==
  /\ believers' = [believers EXCEPT ![i] = @ \ S]
  /\ UNCHANGED <<owner, left, condemned>>

\* An operator chooses held leases, and revokes them later, whoever has them.
Condemn(S) ==
  /\ condemned = {} /\ \A a \in S : owner[a] # None
  /\ condemned' = S
  /\ UNCHANGED <<owner, left, believers>>

Revoke(a) ==
  /\ a \in condemned
  /\ condemned' = condemned \ {a}
  /\ owner' = [owner EXCEPT ![a] = None]
  /\ left' = [left EXCEPT ![a] = 0]
  /\ UNCHANGED believers

\* Time passes: what was on its last unit is free.
Pass ==
  /\ left' = [a \in App |-> IF left[a] > 0 THEN left[a] - 1 ELSE 0]
  /\ owner' = [a \in App |-> IF left[a] <= 1 THEN None ELSE owner[a]]
  /\ UNCHANGED <<condemned, believers>>

\* What happens to the leases and to what is believed of them.
Change ==
  \/ \E i \in Instance, a \in App : Acquire(i, a) \/ Renew(i, a) \/ GiveUp(i, a)
  \/ \E i \in Instance, S \in SUBSET App : Forget(i, S)
  \/ \E S \in SUBSET App : Condemn(S)
  \/ \E a \in App : Revoke(a)
  \/ Pass

\* The instances ask for what they like at any time.
Next ==
  /\ asking' \in [Instance -> SUBSET Request]
  /\ Change \/ UNCHANGED leases

Spec == Init /\ [][Next]_vars
=============================================================================
