------------------------------ MODULE MCTraefik ------------------------------
(* An instance of Traefik for TLC. *)
EXTENDS Traefik

\* Traefik is restarted after a change that needs it, and no resource keeps TLS without
\* certificates.
TraefikFollows == RestartFollows /\ HttpsUsable

=============================================================================
