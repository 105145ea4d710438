---------------------------- MODULE AtLeastOnce ----------------------------
(***************************************************************************)
(* What the relay promises the writers of the outbox: a message is handed  *)
(* to the publisher's children any number of times, it is complete only    *)
(* when every child has received it, and a completed message never comes   *)
(* back.  Leases, workers, retries and the clock are invisible here.       *)
(***************************************************************************)
EXTENDS Integers

CONSTANTS Rows, Children

VARIABLES phase, delivered

Init ==
  /\ phase = [r \in Rows |-> "absent"]
  /\ delivered = [r \in Rows |-> {}]

Enqueue(r) ==
  /\ phase[r] = "absent"
  /\ phase' = [phase EXCEPT ![r] = "open"]
  /\ UNCHANGED delivered

\* A worker that has lost its lease may deliver again after completion.
Deliver(r, c) ==
  /\ phase[r] # "absent"
  /\ delivered' = [delivered EXCEPT ![r] = @ \cup {c}]
  /\ UNCHANGED phase

Complete(r) ==
  /\ phase[r] = "open" /\ delivered[r] = Children
  /\ phase' = [phase EXCEPT ![r] = "sent"]
  /\ UNCHANGED delivered

GiveUp(r) ==
  /\ phase[r] = "open"
  /\ phase' = [phase EXCEPT ![r] = "failed"]
  /\ UNCHANGED delivered

Requeue(r) ==
  /\ phase[r] = "failed"
  /\ phase' = [phase EXCEPT ![r] = "open"]
  /\ UNCHANGED delivered

Next ==
  \E r \in Rows :
    \/ Enqueue(r) \/ Complete(r) \/ GiveUp(r) \/ Requeue(r)
    \/ \E c \in Children : Deliver(r, c)

Spec == Init /\ [][Next]_<<phase, delivered>>

=============================================================================
