---------------------------- MODULE MCPoliteness ----------------------------
\* Instances of Politeness for TLC: one or two hosts, one or two jobs.
EXTENDS Politeness

CONSTANTS api, cdn, fetcher, tipper, drainer

MCApi   == <<api>>
MCHosts == <<api, cdn>>
MCKind  == [j \in Jobs |-> CASE j = fetcher -> "fetch" [] j = tipper -> "tip"
                             [] j = drainer -> "backlog"]
=============================================================================
