----------------------------- MODULE MCCapture -----------------------------
\* Instances of Capture for TLC: artifact png carries a workflow in its bytes;
\* of webp only the API gives a workflow, byte-identical to png's, and a
\* prompt; jpeg is a barren container and lost is deleted at the source.
\* Their first bytes are the same.
EXTENDS Capture

CONSTANTS png, webp, jpeg, lost

MCRank   == [x \in Artifacts |-> IF x = png THEN 2 ELSE 1]
MCBytes  == [x \in Artifacts |-> IF x = png THEN {"workflow"} ELSE {}]
MCApi    == [x \in Artifacts |-> IF x = webp THEN Kinds ELSE {}]
\* A digest is named by the kind of the piece, so same kinds are shared.
MCDigest == [p \in Artifacts \X Channels \X Pieces |-> p[3]]
=============================================================================
