------------------------------ MODULE MCMailbox ------------------------------
(* Mailbox for TLC. *)
EXTENDS Mailbox

CONSTANTS a, b, c

\* One session that two others write to.
OneInbox == {a}
TwoWriters == {b, c}

\* Two sessions that write to each other, and to themselves.
TwoInboxes == {a, b}
EachOther == {a, b}
=============================================================================
