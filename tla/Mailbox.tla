------------------------------ MODULE Mailbox -------------------------------
(***************************************************************************)
(* Unbounded priority mailboxes of Akka and the set of database calls that *)
(* are under way, both as bags: two equal messages may wait at once.       *)
(*                                                                         *)
(* An UnboundedPriorityMailbox is a heap ordered by the priority alone: a  *)
(* message of the smallest number is taken next, and among messages of the *)
(* same number the mailbox promises no order, so any of them may be taken. *)
(***************************************************************************)
EXTENDS Naturals, Bags

\* The messages that wait in a mailbox, without their multiplicity.
Queued(box) == BagToSet(box)

Post(box, m) == box (+) SetToBag({m})

PostAll(box, S) == box (+) SetToBag(S)

Take(box, m) == box (-) SetToBag({m})

\* The messages the mailbox may hand over next; a priority is given by the
\* type of the message, the smaller number the more urgent.
Deliverable(box, priority) ==
    {m \in Queued(box) :
        \A n \in Queued(box) : priority[m.type] <= priority[n.type]}

\* box is a bag of members of S.
IsMailboxOf(box, S) == IsABag(box) /\ Queued(box) \subseteq S
=============================================================================
