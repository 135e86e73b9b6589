------------------------------ MODULE Extract ------------------------------
(***************************************************************************)
(* From the bytes of an artifact to the rows of the lake: fetch_bytes gets *)
(* the payloads out of the file, transform derives a row for each.  The    *)
(* lake holds the rows of a workflow that has been captured before; its    *)
(* author, or somebody else, shares it once more, as it is or changed.     *)
(***************************************************************************)
EXTENDS Ranges, Derive

CONSTANT
  Graphs  \* the workflows first captured

ASSUME GraphsAssumption == \A g \in Graphs : g \in Graph

VARIABLES
  graph,   \* the workflow in the artifacts being shared
  shared,  \* whether it has been shared again
  lake     \* the derived rows; `of`, auxiliary, is the graph a row is of

fetchVars == vars
allVars   == <<vars, graph, shared, lake>>

Row(g, kind) == [of |-> g, row |-> Derived(g, kind)]

ExtractInit ==
  /\ Init
  /\ graph \in Graphs /\ shared = FALSE
  /\ lake = {Row(graph, kind) : kind \in {"save", "api"}}

----------------------------------------------------------------------------
\* What happens to a workflow between two captures (not this repository's).

Perm(S) == {p \in [S -> S] : \A x, y \in S : p[x] = p[y] => x = y}

\* A link between nodes that were given other numbers.
Moved(l, id) ==
  LET To(n) == IF n \in DOMAIN id THEN id[n] ELSE n IN
  [l EXCEPT !.src = To(@), !.dst = To(@)]

\* Saving it again numbers the nodes and lists them in another order.
Renumbered(g, at, id) ==
  LET Again(n) == [n EXCEPT !.id = id[n.id]] IN
  [g EXCEPT !.nodes = [i \in DOMAIN g.nodes |-> Again(g.nodes[at[i]])],
            !.links = {Moved(l, id) : l \in g.links}]
Resaved(g) ==
  {Renumbered(g, at, id) : at \in Perm(DOMAIN g.nodes), id \in Perm(Ids(g))}

\* Another model file, a link less, a link from another output, a node less, a
\* frontend that lists every widget, which may shift what else is listed.
Revalued(g) ==
  {[g EXCEPT !.nodes[i].value = v] : i \in DOMAIN g.nodes, v \in {n.value : n \in Range(g.nodes)}}
Unlinked(g) == {[g EXCEPT !.links = g.links \ {l}] : l \in g.links}
LinkedFrom(g, l, src, out) ==
  [g EXCEPT !.links = (g.links \ {l}) \cup {[l EXCEPT !.src = src, !.out = out]}]
Relinked(g) ==
  {LinkedFrom(g, l, src, out) : l \in g.links, src \in Ids(g), out \in {k.out : k \in g.links}}
Relisted(g) ==
  {[g EXCEPT !.listed = ~g.listed, !.links = {[l EXCEPT !.slot = @ + k] : l \in g.links}] :
     k \in {0, 1}}
Edited(g) ==
  Revalued(g) \cup Unlinked(g) \cup Relinked(g) \cup Relisted(g)
    \cup {[g EXCEPT !.nodes = SubSeq(g.nodes, 2, Len(g.nodes))]}

Share ==
  /\ pc = "idle" /\ ~shared
  /\ \E g \in {graph} \cup Edited(graph) : graph' \in Resaved(g)
  /\ shared' = TRUE
  /\ UNCHANGED <<fetchVars, lake>>

----------------------------------------------------------------------------
\* The pipeline.

Ask == (\E f \in Files : Fetch(f)) /\ UNCHANGED <<graph, shared, lake>>

Answer == Step /\ UNCHANGED <<graph, shared, lake>>

\* transform: a row per payload; a payload the lake has a row of adds none.
Load ==
  /\ pc = "done"
  /\ lake' = lake \cup
       {Row(graph, kind) : kind \in {k \in {"save", "api"} :
          (IF k = "save" THEN "workflow" ELSE "prompt") \in found}}
  /\ file' = NoFile /\ pc' = "idle" /\ start' = 0 /\ end' = HeadWindow
  /\ good' = 0 /\ held' = 0 /\ total' = FALSE /\ found' = {} /\ prefix' = "none"
  /\ honest' = TRUE
  /\ UNCHANGED <<graph, shared>>

ExtractNext == Share \/ Ask \/ Answer \/ Load

ExtractSpec == ExtractInit /\ [][ExtractNext]_allVars

----------------------------------------------------------------------------
\* Properties.

\* Every variable has its type, and fetch_bytes asks for windows within its
\* limits.
ExtractTypeOK ==
  /\ TypeOK
  /\ shared \in BOOLEAN
  /\ graph \in Graph
  /\ \A x \in lake : x.row.kind \in {"save", "api"}

\* The hashes tell workflows apart: rows with the same form are of the same
\* workflow, whatever its nodes are numbered and however they are listed; and a
\* workflow keeps its form when it is shared again, unless two of its nodes
\* have the same class and values.  An input is what the file calls it: on the
\* canvas its slot, so a frontend that lists a widget in front of it gives the
\* workflow another hash, which a prompt keeps.  (Rows only change while
\* nothing is asked.)
CanonicalDecides ==
  pc = "idle" =>
    \A x, y \in lake :
      x.row.kind = y.row.kind =>
        \A keep \in BOOLEAN :
          LET kind == x.row.kind
              same == IF keep THEN x.row.canonical = y.row.canonical
                      ELSE x.row.structural = y.row.structural
          IN /\ same => SameWorkflow(x.of, y.of, kind, keep)
             /\ SameWorkflow(x.of, y.of, kind, keep) /\ ~Tied(x.of, kind, keep) => same

\* The canvas and the prompt of one workflow agree on which loader inputs are
\* literals and which are links: in both directions for a class whose loader
\* the reference table knows, and on the links for every class.  A widget fed by a primitive
\* is left out: the prompt has its value written in.
BindingsAgree ==
  pc = "idle" =>
    \A x, y \in lake :
      x.of = y.of /\ x.row.kind = "save" /\ y.row.kind = "api" =>
        LET g == x.of
            Plain(n) == \A l \in Feeding(g, n) : l \in Sent(g, n)
            Of(z, n) == {b \in z.row.bindings : b.node = n.id}
            links(z, n) == {b \in Of(z, n) : b.binding = "link"}
        IN \A n \in Executed(g) : Plain(n) =>
             /\ links(x, n) = links(y, n)
             /\ Of(x, n) \subseteq Of(y, n)
             /\ n.class \in DOMAIN CoreInputs /\ Loader \in CoreInputs[n.class] =>
                  Of(x, n) = Of(y, n)
=============================================================================
