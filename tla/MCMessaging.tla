---------------------------- MODULE MCMessaging ----------------------------
(* Rows of a kind and requests are interchangeable.  Two clients share a   *)
(* telephone number, one has one of its own.                               *)
EXTENDS Messaging

Phones == [i1 |-> "shared", i2 |-> "own"]
Clients == [c1 |-> "shared", c2 |-> "shared", c3 |-> "own"]

Rows == Permutations(Message) \cup Permutations(Key) \cup Permutations(Fingerprint)
          \cup Permutations(ProviderId) \cup Permutations(Txn)

=============================================================================
