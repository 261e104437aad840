------------------------------- MODULE Delivery -------------------------------
(***************************************************************************)
(* What the dispatcher promises about the messages of one application,     *)
(* whatever its instances do and however often they die: a message that    *)
(* was appended to the stream stays open until there is a reason to let go *)
(* of it.  The endpoint has accepted it, its subscription was found not to *)
(* be active (or the message cannot be read), it is among the dead         *)
(* letters, or its entry was beyond the retention.  That is at-least-once  *)
(* delivery: nothing here keeps a message from being accepted twice.       *)
(***************************************************************************)
CONSTANT Message

VARIABLES
  appended,  \* messages in the stream at some time
  accepted,  \* messages the endpoint answered with 2xx
  refused,   \* messages somebody found nobody to deliver to
  dead,      \* messages among the dead letters
  expired,   \* messages beyond the retention of the stream
  settled    \* messages nobody will look at again

vars == <<appended, accepted, refused, dead, expired, settled>>

open == appended \ settled

Init ==
  /\ appended = {} /\ accepted = {} /\ refused = {}
  /\ dead = {} /\ expired = {} /\ settled = {}

\* A capped stream lets the oldest go as new ones arrive.
Append(m, old) ==
  /\ m \notin appended
  /\ appended' = appended \cup {m}
  /\ old \subseteq appended
  /\ expired' = expired \cup old
  /\ UNCHANGED <<accepted, refused, dead, settled>>

\* A message may be accepted, refused or buried again after it was settled: by
\* a consumer that had claimed it before somebody else settled it.
Accept(m) ==
  /\ m \in appended
  /\ accepted' = accepted \cup {m}
  /\ UNCHANGED <<appended, refused, dead, expired, settled>>

Refuse(m) ==
  /\ m \in appended
  /\ refused' = refused \cup {m}
  /\ UNCHANGED <<appended, accepted, dead, expired, settled>>

Bury(m) ==
  /\ m \in appended
  /\ dead' = dead \cup {m}
  /\ UNCHANGED <<appended, accepted, refused, expired, settled>>

Expire(ms) ==
  /\ ms \subseteq appended
  /\ expired' = expired \cup ms
  /\ UNCHANGED <<appended, accepted, refused, dead, settled>>

\* There is a reason for each of the messages let go of.
Settle(ms) ==
  /\ ms \subseteq open \cap (accepted \cup refused \cup dead \cup expired)
  /\ settled' = settled \cup ms
  /\ UNCHANGED <<appended, accepted, refused, dead, expired>>

Next ==
  \/ \E m \in Message, old \in SUBSET Message : Append(m, old)
  \/ \E m \in Message : Accept(m) \/ Refuse(m) \/ Bury(m)
  \/ \E ms \in SUBSET Message : Expire(ms) \/ Settle(ms)

Spec == Init /\ [][Next]_vars
=============================================================================
