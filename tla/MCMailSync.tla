----------------------------- MODULE MCMailSync -----------------------------
EXTENDS MailSync
CONSTANTS a1, a2, a3, s1, p1, p2

ASSUME SyncAssumption == SyncConstants

Two == <<"INBOX", "INBOX.Trash">>
Four == <<"INBOX", "INBOX.Sent", "INBOX.Nairobi", "INBOX.Trash">>
Nobody == [m \in Messages |-> <<>>]
ReplyToSent == [m \in Messages |-> IF m = a1 THEN <<s1>> ELSE <<>>]
=============================================================================
