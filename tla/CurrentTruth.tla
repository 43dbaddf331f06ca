---------------------------- MODULE CurrentTruth ----------------------------
(***************************************************************************)
(* What the fact ledger promises its readers, without the ledger: for each *)
(* topic (a space, a subject and a predicate) there is at most one belief  *)
(* that is held to be true now, and learning never replaces a belief by an *)
(* older one.  Only a person or decay may take a belief away, and then the *)
(* topic is left without one.                                              *)
(***************************************************************************)
EXTENDS Naturals

CONSTANTS Topics,   \* what a belief can be about
          Ids       \* the names of the ledger rows a belief can come from

VARIABLE current    \* the belief held on each topic

Belief == [id : Ids, from : Nat]

Nothing == [id |-> 0, from |-> 0]

TypeOK == current \in [Topics -> Belief \cup {Nothing}]

Init == current = [t \in Topics |-> Nothing]

(***************************************************************************)
(* Reading one document may move several topics forward at once.           *)
(***************************************************************************)
Learn ==
  /\ current' \in [Topics -> Belief \cup {Nothing}]
  /\ \A t \in Topics :
       \/ current'[t] = current[t]
       \/ /\ current'[t] # Nothing
          /\ current'[t].from >= current[t].from

(***************************************************************************)
(* Closing a fact by hand, or decay, leaves topics with nothing.           *)
(***************************************************************************)
Retract ==
  /\ current' \in [Topics -> Belief \cup {Nothing}]
  /\ \A t \in Topics : current'[t] \in {current[t], Nothing}

Next == Learn \/ Retract

Spec == Init /\ [][Next]_current
=============================================================================
