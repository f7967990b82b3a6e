---------------------------- MODULE MCClientChat ----------------------------
EXTENDS ClientChat

Row(mine, delivered, read) == [mine |-> mine, cm |-> 0, delivered |-> delivered, read |-> read]

\* One row of each kind: delivered and not read, the client's own, in the queue.
MCPreload == <<Row(FALSE, TRUE, FALSE), Row(TRUE, TRUE, FALSE), Row(FALSE, FALSE, FALSE)>>

\* Nothing is left to be delivered or read.
MCSettled == <<Row(FALSE, TRUE, TRUE), Row(TRUE, TRUE, TRUE), Row(FALSE, TRUE, TRUE)>>
=============================================================================
