-------------------------- MODULE MessageDelivery --------------------------
(***************************************************************************)
(* What the outgoing messages of the core promise, without the chain, the  *)
(* threads, edits, errors, timers and restarts of module PendingMessages,  *)
(* which implements this specification: a message the archive has taken    *)
(* is delivered after all that were taken for its contact before it, but   *)
(* for those the server refused, and once.                                 *)
(***************************************************************************)
EXTENDS Naturals, Sequences

CONSTANTS Messages, Contacts, ContactOf

\* What is assumed of the constants.
EachHasContact == ContactOf \in [Messages -> Contacts]

VARIABLES outbox,   \* messages taken, per contact, in the order they were taken
          inbox,    \* messages the server has, per contact, in its order
          refused   \* messages the server refused

vars == <<outbox, inbox, refused>>

In(m, s) == \E i \in DOMAIN s : s[i] = m
Taken(m) == In(m, outbox[ContactOf[m]])
Delivered(m) == In(m, inbox[ContactOf[m]])
Settled(m) == Delivered(m) \/ m \in refused

\* One message after another: those in front of m in its outbox are settled.
ItsTurn(m) ==
    LET s == outbox[ContactOf[m]]
    IN  \E i \in DOMAIN s : s[i] = m /\ \A j \in 1..(i - 1) : Settled(s[j])

Init ==
    /\ outbox = [c \in Contacts |-> <<>>]
    /\ inbox = [c \in Contacts |-> <<>>]
    /\ refused = {}

Take(m) ==
    /\ ~Taken(m)
    /\ outbox' = [outbox EXCEPT ![ContactOf[m]] = Append(@, m)]
    /\ UNCHANGED <<inbox, refused>>

Deliver(m) ==
    /\ ItsTurn(m)
    /\ ~Delivered(m)
    /\ inbox' = [inbox EXCEPT ![ContactOf[m]] = Append(@, m)]
    /\ UNCHANGED <<outbox, refused>>

Refuse(m) ==
    /\ ItsTurn(m)
    /\ refused' = refused \union {m}
    /\ UNCHANGED <<outbox, inbox>>

Next == \E m \in Messages : Take(m) \/ Deliver(m) \/ Refuse(m)

Spec == Init /\ [][Next]_vars

-----------------------------------------------------------------------------
(* What follows from it, for every set of messages and contacts. *)

TypeOK ==
    /\ outbox \in [Contacts -> Seq(Messages)]
    /\ inbox \in [Contacts -> Seq(Messages)]
    /\ refused \subseteq Messages

\* A message is in a list of its own contact, and there once.
OfContact(c, s) ==
    /\ \A i \in DOMAIN s : ContactOf[s[i]] = c
    /\ \A i, j \in DOMAIN s : s[i] = s[j] => i = j
Once == \A c \in Contacts : OfContact(c, outbox[c]) /\ OfContact(c, inbox[c])

\* When the server has a message, it has, before that one, or refused, every
\* message of the contact that was taken earlier.
InOrder ==
    \A c \in Contacts : \A j \in DOMAIN inbox[c] : \A i, k \in DOMAIN outbox[c] :
        (i < k /\ outbox[c][k] = inbox[c][j]) =>
            \/ outbox[c][i] \in refused
            \/ \E h \in 1..(j - 1) : inbox[c][h] = outbox[c][i]

=============================================================================
