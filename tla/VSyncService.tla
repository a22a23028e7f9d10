---------------------------- MODULE VSyncService ----------------------------
(***************************************************************************)
(* What a VSync distributor promises those who use it, without threads,    *)
(* locks, modes or rates: whoever is a member and asks is owed an event,   *)
(* an event goes only to those who are owed one, a request is used up by   *)
(* the event that answers it, an event that does not fit is owed again,    *)
(* and the service rests only while it owes nothing.                       *)
(* VSyncDistributor implements it (VSyncDistributor!ImplementsService).    *)
(***************************************************************************)
CONSTANT Client

VARIABLES
  member,   \* who is registered
  owed,     \* what each member is owed
  inFlight, \* who is being sent the current event
  on        \* the service is running

serviceVars == <<member, owed, inFlight, on>>

\* "always": periodic events; "once": one event, for a request; "maybe": a
\* request was withdrawn or half made, and an event may still come of it.
Owed == {"none", "maybe", "once", "always"}

Due(c) == owed[c] \in {"once", "always"}

Init ==
  /\ member = {}
  /\ owed = [c \in Client |-> "none"]
  /\ inFlight = {}
  /\ on = FALSE

Join(c) ==
  /\ member' = member \cup {c}
  /\ UNCHANGED <<owed, inFlight, on>>

\* A member may leave while an event is on its way to it.
Leave(c) ==
  /\ member' = member \ {c}
  /\ owed' = [owed EXCEPT ![c] = "none"]
  /\ UNCHANGED <<inFlight, on>>

Ask(c) ==
  /\ c \in member
  /\ owed' = [owed EXCEPT ![c] = IF @ = "always" THEN @ ELSE "once"]
  /\ on' = TRUE
  /\ UNCHANGED <<member, inFlight>>

\* A member may ask for periodic events or withdraw.
Subscribe(c) ==
  /\ c \in member
  /\ \E o \in Owed : owed' = [owed EXCEPT ![c] = o]
  /\ on' = TRUE
  /\ UNCHANGED <<member, inFlight>>

WakeUp ==
  /\ on' = TRUE
  /\ UNCHANGED <<member, owed, inFlight>>

\* An event goes out to some of those who are owed one.
Emit ==
  /\ on
  /\ inFlight = {}
  /\ \E S \in SUBSET {c \in member : owed[c] # "none"} :
       /\ S # {}
       /\ inFlight' = S
       /\ owed' = [c \in Client |->
            IF c \in S /\ owed[c] # "always" THEN "none" ELSE owed[c]]
  /\ UNCHANGED <<member, on>>

Arrived(c) ==
  /\ c \in inFlight
  /\ inFlight' = inFlight \ {c}
  /\ UNCHANGED <<member, owed, on>>

\* The event did not fit and is owed again, unless the member has left.
Refused(c) ==
  /\ c \in inFlight
  /\ inFlight' = inFlight \ {c}
  /\ owed' = [owed EXCEPT ![c] =
       IF c \notin member THEN "none" ELSE IF @ = "always" THEN @ ELSE "once"]
  /\ UNCHANGED <<member, on>>

\* Whoever cannot be reached is no longer a member.
Unreachable(c) ==
  /\ c \in inFlight
  /\ inFlight' = inFlight \ {c}
  /\ member' = member \ {c}
  /\ owed' = [owed EXCEPT ![c] = "none"]
  /\ UNCHANGED on

Rest ==
  /\ \A c \in member : ~Due(c)
  /\ inFlight = {}
  /\ on' = FALSE
  /\ UNCHANGED <<member, owed, inFlight>>

Next ==
  \/ \E c \in Client : \/ Join(c) \/ Leave(c) \/ Ask(c) \/ Subscribe(c)
                       \/ Arrived(c) \/ Refused(c) \/ Unreachable(c)
  \/ WakeUp
  \/ Emit
  \/ Rest

Spec == Init /\ [][Next]_serviceVars
=============================================================================
