---------------------------- MODULE AckedDelivery ----------------------------
(***************************************************************************)
(* What the ACK system promises, without sockets, attempts or ACKs: a      *)
(* packet is accepted at most once until its id is forgotten, a call that  *)
(* reports delivery carried a packet that was accepted before, and a call  *)
(* that has reported never changes its mind.                               *)
(***************************************************************************)
EXTENDS Naturals

CONSTANTS Packets, Ops, PacketOf

VARIABLES
  remembered,   \* packet ids the receiver would recognise
  accepted,     \* how often each packet was accepted
  outcome       \* what each call has reported

vars == <<remembered, accepted, outcome>>

Init ==
  /\ remembered = {}
  /\ accepted = [p \in Packets |-> 0]
  /\ outcome = [o \in Ops |-> "pending"]

Accept(p) ==
  /\ p \notin remembered
  /\ remembered' = remembered \cup {p}
  /\ accepted' = [accepted EXCEPT ![p] = @ + 1]
  /\ UNCHANGED outcome

Forget(p) ==
  /\ p \in remembered
  /\ remembered' = remembered \ {p}
  /\ UNCHANGED <<accepted, outcome>>

Report(o) ==
  /\ outcome[o] = "pending"
  /\ \/ /\ accepted[PacketOf[o]] > 0
        /\ outcome' = [outcome EXCEPT ![o] = "delivered"]
     \/ outcome' = [outcome EXCEPT ![o] = "unconfirmed"]
  /\ UNCHANGED <<remembered, accepted>>

Next ==
  \/ \E p \in Packets : Accept(p) \/ Forget(p)
  \/ \E o \in Ops : Report(o)

Spec == Init /\ [][Next]_vars

=============================================================================
