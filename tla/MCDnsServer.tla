---------------------------- MODULE MCDnsServer ------------------------------
(* A header of 2 bytes, names of up to 4, labels of up to 3, pointers from 8 *)
(* on (5 is neither): a label may end beyond the packet and beyond the       *)
(* longest name, and a question may leave no room for the answer.            *)
EXTENDS DnsServer

FewBytes == {0, 1, 3, 5, 8}
=============================================================================
