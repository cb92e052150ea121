------------------------------- MODULE Mailbox -------------------------------
(***************************************************************************)
(* What a receiving topic promises, without its threads: a bounded mailbox *)
(* between the network and one consumer.  Envelopes leave it in the order  *)
(* they entered; a keep-latest mailbox gives up its oldest envelope for a  *)
(* new one, any other refuses the new one; closing it lets the consumer    *)
(* finish what is inside, and nothing enters it once the consumer is gone. *)
(***************************************************************************)
EXTENDS Integers, Sequences

CONSTANT Items

VARIABLES
  policy,  \* [keep_latest, capacity], fixed
  box,     \* the envelopes inside, oldest first
  hand,    \* what the consumer has taken and not finished, at most one
  phase    \* "new" | "open" | "closing" | "gone"

mailboxVars == <<policy, box, hand, phase>>

MailboxInit ==
  /\ policy \in [keep_latest : BOOLEAN, capacity : Nat \ {0}]
  /\ box = <<>>
  /\ hand = <<>>
  /\ phase = "new"

Open ==
  /\ phase = "new" /\ phase' = "open"
  /\ UNCHANGED <<policy, box, hand>>

\* An envelope that enters while the mailbox is closing is still consumed.
Put(item) ==
  /\ phase \in {"open", "closing"}
  /\ \/ /\ Len(box) < policy.capacity
        /\ box' = Append(box, item)
     \/ /\ Len(box) = policy.capacity
        /\ policy.keep_latest
        /\ box' = Append(Tail(box), item)
  /\ UNCHANGED <<policy, hand, phase>>

Take ==
  /\ phase \in {"open", "closing"}
  /\ box # <<>> /\ hand = <<>>
  /\ hand' = <<Head(box)>>
  /\ box' = Tail(box)
  /\ UNCHANGED <<policy, phase>>

Finish ==
  /\ hand # <<>> /\ hand' = <<>>
  /\ UNCHANGED <<policy, box, phase>>

Close ==
  /\ phase = "open" /\ phase' = "closing"
  /\ UNCHANGED <<policy, box, hand>>

Leave ==
  /\ phase = "closing" /\ box = <<>> /\ hand = <<>>
  /\ phase' = "gone"
  /\ UNCHANGED <<policy, box, hand>>

MailboxNext ==
  \/ Open \/ Take \/ Finish \/ Close \/ Leave
  \/ \E item \in Items : Put(item)

MailboxSpec == MailboxInit /\ [][MailboxNext]_mailboxVars
=============================================================================
