-------------------------- MODULE MCProcessBackend --------------------------
(* ProcessBackend on small instances.  The name of a user is the e-mail.   *)
EXTENDS ProcessBackend

A(pass, tag) == [email |-> "a", name |-> "a", pass |-> pass, tag |-> tag]
B(pass, tag) == [email |-> "b", name |-> "b", pass |-> pass, tag |-> tag]

MCUser == {A("p", TRUE), A("p", FALSE), B(None, TRUE)}
MCLists == {<<A("p", TRUE)>>, <<A("q", TRUE), B("p", TRUE)>>, <<B("q", FALSE)>>}
=============================================================================
