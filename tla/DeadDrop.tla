------------------------------- MODULE DeadDrop -------------------------------
(***************************************************************************)
(* What the dead drop promises, with nothing of git in it.  Every agent    *)
(* owns one append-only file.  A line the owner appends is sent, becomes   *)
(* published when it reaches the shared copy, and is delivered when the    *)
(* agent at the other end has been told of it.  Lines are named by their   *)
(* position in the owner's file.                                           *)
(***************************************************************************)
EXTENDS Naturals

CONSTANTS Agents,   \* the agents that share the wire
          Inbound,  \* Inbound[a] is the agent whose file a reads
          Odd       \* Odd[a]: lines of a's file that cannot be reported

VARIABLES sent,       \* sent[a]: number of messages a has appended
          published,  \* published[a]: number of a's messages on the shared copy
          delivered   \* delivered[a]: the messages of Inbound[a] reported to a

vars == <<sent, published, delivered>>

TypeOK ==
    /\ sent \in [Agents -> Nat]
    /\ published \in [Agents -> Nat]
    /\ delivered \in [Agents -> SUBSET (Nat \ {0})]

Init ==
    /\ sent = [a \in Agents |-> 0]
    /\ published = [a \in Agents |-> 0]
    /\ delivered = [a \in Agents |-> {}]

-----------------------------------------------------------------------------
Send(a) ==
    /\ sent' = [sent EXCEPT ![a] = @ + 1]
    /\ UNCHANGED <<published, delivered>>

\* Any number of messages may be published at once, never one that was not sent.
Publish(a) ==
    /\ \E n \in (published[a] + 1)..sent[a] :
          published' = [published EXCEPT ![a] = n]
    /\ UNCHANGED <<sent, delivered>>

\* Delivery extends a gapless prefix of what is published; it may repeat
\* messages but it never skips one, not even an odd one.
Deliver(a) ==
    /\ \E n \in 1..published[Inbound[a]] :
          /\ n \notin delivered[a]
          /\ 1..n \cap Odd[Inbound[a]] = {}
          /\ delivered' = [delivered EXCEPT ![a] = 1..n]
    /\ UNCHANGED <<sent, published>>

Next == \E a \in Agents : Send(a) \/ Publish(a) \/ Deliver(a)

Spec == Init /\ [][Next]_vars

\* A published message with no odd line before it is not left undelivered for
\* ever.  Nothing is said of Publish: the wire may stay unreachable.
FairSpec == Spec /\ \A a \in Agents : WF_vars(Deliver(a))
=============================================================================
