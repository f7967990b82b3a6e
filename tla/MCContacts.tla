----------------------------- MODULE MCContacts -----------------------------
EXTENDS Contacts

CONSTANTS alice, bob, a1, b1

MCUsers == {alice, bob}
MCOwner == [c \in Conns |-> IF c = a1 THEN alice ELSE bob]
MCEnvelope ==
  [type : {"contact_request", "contact_accept", "contact_decline", "contact_list", "error"},
   of : SUBSET MCUsers]

EveryCommand == MCUsers \X {"add", "accept", "decline"}
AliceAdds == {<<alice, "add">>}
AddAcceptDecline == AliceAdds \cup ({bob} \X {"accept", "decline"})
=============================================================================
