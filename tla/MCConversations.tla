--------------------------- MODULE MCConversations ---------------------------
EXTENDS Conversations

CONSTANTS adm, acc, cli, r1, r2

MCAdmin == {adm}
MCAccountant == {acc}
MCClient == {cli}
MCCase == {r1, r2}
MCOwner == [c \in MCCase |-> IF c = r1 THEN cli ELSE NONE]
MCStart == [u \in MCAdmin \cup MCAccountant \cup MCClient |-> IF u = adm THEN "direct" ELSE IF u = cli THEN r1 ELSE NONE]
\* The admin's window was opened from the page of r1.
MCReference == [u \in MCAdmin \cup MCAccountant \cup MCClient |-> IF u = adm THEN r1 ELSE NONE]
\* A note of the admin's on a client's case.
MCEarlier == <<[case |-> r1, user |-> adm, vis |-> "admin", read |-> FALSE, gone |-> FALSE,
                meant |-> [case |-> r1, vis |-> "admin"]]>>
=============================================================================
