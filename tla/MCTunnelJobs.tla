---------------------------- MODULE MCTunnelJobs ----------------------------
(* Instances of TunnelJobs for TLC. *)
EXTENDS TunnelJobs, TLC

CONSTANTS a1, j1, j2

\* One agent serves every job.
OneAgent == [j \in Jobs |-> a1]

\* A request of a browser and one with a deadline.
OneOfEach == (j1 :> "legacy") @@ (j2 :> "timed")

=============================================================================
