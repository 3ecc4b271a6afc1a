---------------------------- MODULE MCNewsReport ----------------------------
(* Instances of NewsReport for TLC.  A read takes 3 or 4 bytes.            *)
EXTENDS NewsReport

News(n)  == [kind |-> "news", size |-> n]
Doc(n)   == [kind |-> "doc", size |-> n]
Advert   == [kind |-> "advert", size |-> 2]
Port     == [kind |-> "port", size |-> 2]

AllKinds == {Doc(3), Advert, Port}
TwoKinds == {News(2), Doc(3)}
=============================================================================
