------------------------------ MODULE MCIngest ------------------------------
\* Instances of Ingest for TLC: two lines carry the same workflow, one carries
\* nothing, and derive raises on the payload of one.
EXTENDS Ingest

CONSTANTS first, second, empty, odd, graph

MCContent == [m \in Manifests |-> CASE m = 1 -> {first, odd}
                                    [] m = 2 -> {second}
                                    [] m = 3 -> {empty}]
MCWorkflow == [r \in Records |-> IF r \in {first, second} THEN graph ELSE NoWorkflow]
=============================================================================
