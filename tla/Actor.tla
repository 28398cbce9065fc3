------------------------------- MODULE Actor -------------------------------
(***************************************************************************)
(* What an actor promises to those who hold an ActorRef to it: messages it *)
(* was sent, also before its object exists, are handled one after another  *)
(* in the order they were sent, while its object is there; one sent to an  *)
(* actor that has died is not handled; and every ask gets one answer, a    *)
(* value or an error.                                                      *)
(***************************************************************************)
EXTENDS Sequences

CONSTANT Messages

VARIABLES
  life,   \* "aspiring", "established" or "dead"
  inbox,  \* the messages to be handled, the one being handled first
  reply   \* what the future of each ask holds

Answers == {"value", "error"}

Init ==
  /\ life = "aspiring"
  /\ inbox = <<>>
  /\ reply = [m \in Messages |-> "none"]

Establish ==
  /\ life = "aspiring"
  /\ life' = "established"
  /\ UNCHANGED <<inbox, reply>>

Send(m) ==
  /\ life # "dead"
  /\ reply[m] = "none"
  /\ inbox' = Append(inbox, m)
  /\ reply' = [reply EXCEPT ![m] = "pending"]
  /\ UNCHANGED life

Refuse(m) ==
  /\ life = "dead"
  /\ reply[m] = "none"
  /\ reply' = [reply EXCEPT ![m] = "error"]
  /\ UNCHANGED <<life, inbox>>

Handle ==
  /\ life = "established"
  /\ inbox # <<>>
  /\ reply' = [reply EXCEPT ![Head(inbox)] = "value"]
  /\ inbox' = Tail(inbox)
  /\ UNCHANGED life

Die ==
  /\ life = "established"
  /\ life' = "dead"
  /\ UNCHANGED <<inbox, reply>>

\* The messages left go with the actor, and so do their promises.
Discard ==
  /\ life = "dead"
  /\ inbox # <<>>
  /\ inbox' = <<>>
  /\ reply' = [m \in Messages |-> IF reply[m] = "pending" THEN "error" ELSE reply[m]]
  /\ UNCHANGED life

Next ==
  \/ Establish \/ Handle \/ Die \/ Discard
  \/ \E m \in Messages : Send(m) \/ Refuse(m)

Spec == Init /\ [][Next]_<<life, inbox, reply>>
=============================================================================
