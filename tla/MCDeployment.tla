---------------------------- MODULE MCDeployment ----------------------------
\* Instances of Deployment for TLC: the second release adds a migration that
\* sorts below an applied one, the third edits one.
EXTENDS Deployment, TLC

CONSTANTS first, second, edited

MCShips == [r \in Releases |-> CASE r = first  -> (2 :> "b")
                                 [] r = second -> (1 :> "a" @@ 2 :> "b")
                                 [] r = edited -> (2 :> "x")]
=============================================================================
