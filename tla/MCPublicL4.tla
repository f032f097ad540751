----------------------------- MODULE MCPublicL4 -----------------------------
(* Instances of PublicL4 for TLC. *)
EXTENDS PublicL4

CONSTANTS r1, k1, b1

\* One enabled resource from an earlier life of the server.
OneRow == {[id |-> r1, port |-> k1, on |-> TRUE, backend |-> b1]}

\* The old resource is listed first.
OldFirst == [r \in Resources |-> IF r = r1 THEN 0 ELSE 1]

=============================================================================
