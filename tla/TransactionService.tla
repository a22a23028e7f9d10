------------------------- MODULE TransactionService -------------------------
(***************************************************************************)
(* What the render service promises the clients whose transactions it is   *)
(* handed, without threads, parcels, barriers or vsync: each transaction   *)
(* of a connected client is kept until a frame executes it, a frame        *)
(* executes those of a client in the order they were sent and without a    *)
(* gap, and only a client that has waited for a missing one for too long   *)
(* is let past a single gap.                                               *)
(* TransactionOrder implements it (TransactionOrder!ImplementsService).    *)
(***************************************************************************)
EXTENDS Integers

CONSTANT Client

VARIABLES
  connected, \* whose transactions are executed
  sent,      \* how many transactions a client has numbered
  here,      \* its transactions the service has and has not executed
  done,      \* those executed
  reached,   \* the number execution has come to
  overdue    \* who has waited for a missing transaction for too long

serviceVars == <<connected, sent, here, done, reached, overdue>>

Init ==
  /\ connected = Client
  /\ sent = [c \in Client |-> 0]
  /\ here = [c \in Client |-> {}]
  /\ done = [c \in Client |-> {}]
  /\ reached = [c \in Client |-> 0]
  /\ overdue = {}

Hand(c) ==
  /\ c \in connected
  /\ sent' = [sent EXCEPT ![c] = @ + 1]
  /\ here' = [here EXCEPT ![c] = @ \cup {sent[c] + 1}]
  /\ UNCHANGED <<connected, done, reached, overdue>>

\* A transaction that cannot be sent, or whose client is gone, is never here.
Miss(c) ==
  /\ sent' = [sent EXCEPT ![c] = @ + 1]
  /\ UNCHANGED <<connected, here, done, reached, overdue>>

WaitLonger ==
  /\ overdue \subseteq overdue' /\ overdue' \subseteq connected
  /\ UNCHANGED <<connected, sent, here, done, reached>>

Executed(c) == here[c] \ here'[c]

InTurn(c) ==
  /\ reached'[c] >= reached[c]
  /\ Executed(c) = (reached[c] + 1)..reached'[c]

\* In turn up to last, and then from next on: past a gap, or back to one that
\* was passed before.  The client is not let past another one in this frame.
PastGap(c) ==
  /\ c \in overdue \ overdue'
  /\ \E last \in {reached[c]} \cup Executed(c), next \in Executed(c) :
       /\ last >= reached[c]
       /\ next > last + 1 \/ (last = reached[c] /\ next =< last)
       /\ next =< reached'[c]
       /\ Executed(c) = ((reached[c] + 1)..last) \cup (next..reached'[c])

Frame ==
  /\ reached' \in [Client -> Nat] /\ here' \in [Client -> SUBSET Nat]
  /\ \A c \in Client : here'[c] \subseteq here[c]
  /\ \A c \in connected : InTurn(c) \/ PastGap(c)
  /\ \A c \in Client \ connected : here'[c] = here[c] /\ reached'[c] = reached[c]
  /\ done' = [c \in Client |-> done[c] \cup Executed(c)]
  /\ overdue' \subseteq overdue
  /\ UNCHANGED <<connected, sent>>

Leave(c) ==
  /\ c \in connected
  /\ connected' = connected \ {c}
  /\ here' = [here EXCEPT ![c] = {}]
  /\ reached' = [reached EXCEPT ![c] = 0]
  /\ overdue' = overdue \ {c}
  /\ UNCHANGED <<sent, done>>

Next ==
  \/ \E c \in Client : Hand(c) \/ Miss(c) \/ Leave(c)
  \/ WaitLonger
  \/ Frame

Spec == Init /\ [][Next]_serviceVars
=============================================================================
