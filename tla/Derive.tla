------------------------------- MODULE Derive -------------------------------
(***************************************************************************)
(* derive: what the lake says of a workflow it has captured - the form its *)
(* canonical and structural hashes are taken of, and how each loader input *)
(* is bound.  The same graph reaches the lake in two shapes: `save`, what  *)
(* the canvas stores, and `api`, what the executor is sent.                *)
(*                                                                         *)
(* A graph's nodes are a sequence of [id, class, value], where `value` is  *)
(* that of the node's loader widget; a link leads from an output of a node *)
(* to an input of another, which has a name and, on the canvas, a place in *)
(* its node's list, the slot.  `listed` graphs come from a frontend that   *)
(* lists the widgets no link feeds too.  Classes and values are numbers in *)
(* the order their names sort.                                             *)
(***************************************************************************)
EXTENDS Integers, Sequences, FiniteSets, FiniteSetsExt, Functions

CONSTANTS
  Virtual,     \* the classes the frontend resolves itself: on the canvas, never in
               \* a prompt (its Note, Reroute and PrimitiveNode, not every class
               \* FRONTEND_NATIVE names: the server has PrimitiveInt and its like)
  CoreInputs,  \* Reference.core_inputs: the inputs of the classes it knows
  Loader       \* the name of the loader input a node has, one of LOADER_INPUTS

ASSUME ReferenceAssumption ==
  \A c \in DOMAIN CoreInputs : CoreInputs[c] \subseteq STRING

\* A canvas numbers its nodes apart.
Node  == [id : Nat, class : Nat, value : Nat]
Link  == [src : Nat, out : Nat, dst : Nat, slot : Nat, input : STRING, type : STRING]
Graph == {g \in [nodes : Seq(Node), links : SUBSET Link, listed : BOOLEAN] :
            \A i, j \in DOMAIN g.nodes : g.nodes[i].id = g.nodes[j].id => i = j}

NodeOf(g, id) == CHOOSE n \in Range(g.nodes) : n.id = id
Ids(g)        == {n.id : n \in Range(g.nodes)}
Feeding(g, n) == {l \in g.links : l.dst = n.id}

----------------------------------------------------------------------------
\* The two shapes (ComfyUI's, not this repository's).

\* A node of a prompt takes what a link from a real node sends it; a primitive's
\* value is written in its place.
Sent(g, n) ==
  {l \in Feeding(g, n) : l.src \in Ids(g) /\ NodeOf(g, l.src).class \notin Virtual}

Written(g, n) ==
  IF \E l \in Sent(g, n) : l.input = Loader THEN {}
  ELSE LET from == {l \in Feeding(g, n) : l.input = Loader /\ l.src \in Ids(g)} IN
       {IF from = {} THEN n.value ELSE NodeOf(g, (CHOOSE l \in from : TRUE).src).value}

Executed(g) == {n \in Range(g.nodes) : n.class \notin Virtual}

----------------------------------------------------------------------------
\* _save_bindings, and the bindings of _derive_api.

\* Mutant of Fed: an input that is listed is linked.
FedWhenListed(g, n, name) == g.listed \/ \E l \in Feeding(g, n) : l.input = name

\* inputs[]'s `link` is not None.
Fed(g, n, name) == \E l \in Feeding(g, n) : l.input = name

Binding(n, name, linked) ==
  [node |-> n.id, class |-> n.class, input |-> name,
   binding |-> IF linked THEN "link" ELSE "literal"]

\* The loader input of a node is in inputs[] when a link feeds it or the
\* frontend lists it all the same; when it is not, the reference table tells.
SaveBindings(g, n) ==
  IF Fed(g, n, Loader) \/ (g.listed /\ n.class \notin Virtual)
  THEN {Binding(n, Loader, Fed(g, n, Loader))}
  ELSE IF n.class \in DOMAIN CoreInputs /\ Loader \in CoreInputs[n.class]
       THEN {Binding(n, Loader, FALSE)}
       ELSE {}

ApiBindings(g, n) ==
  {Binding(n, Loader, TRUE) : l \in {k \in Sent(g, n) : k.input = Loader}}
    \cup {Binding(n, Loader, FALSE) : v \in Written(g, n)}

----------------------------------------------------------------------------
\* canonical_form.

\* Mutant of Before: nodes of a class stay as they are listed.
BeforeByClass(a, b) == a.class < b.class

\* The order nodes are sorted in.
Before(a, b) == a.class < b.class \/ (a.class = b.class /\ a.value < b.value)

\* The sort is stable: nodes with equal keys stay in the order of the list.
RankAt(keyed, i) ==
  Cardinality({j \in DOMAIN keyed : \/ Before(keyed[j], keyed[i])
                                    \/ ~Before(keyed[i], keyed[j]) /\ j < i})

\* rank.get(id, -1).
RankOf(keyed, id) ==
  Max({-1} \cup {RankAt(keyed, i) : i \in {j \in DOMAIN keyed : keyed[j].id = id}})

\* The node at position r of the sorted list.
AtRank(keyed, r) == CHOOSE i \in DOMAIN keyed : RankAt(keyed, i) = r

\* A sorted list says how often each element occurs.
Bag(f) == [e \in Range(f) |-> Cardinality({l \in DOMAIN f : f[l] = e})]

\* What an edge says next to the nodes at its ends: a canvas names an input by
\* its slot, a prompt by its name.
Says(kind, l) == IF kind = "save" THEN <<l.out, l.slot, l.type>> ELSE <<l.out, l.input>>

\* The sorted nodes, and the sorted list of the links between them.
CanonicalForm(keyed, links, kind) ==
  [n |-> [r \in 0 .. Cardinality(DOMAIN keyed) - 1 |->
            LET i == AtRank(keyed, r) IN <<keyed[i].class, keyed[i].value>>],
   e |-> Bag([l \in links |-> <<RankOf(keyed, l.src), RankOf(keyed, l.dst), Says(kind, l)>>])]

\* What a node is sorted by next to its class.  Without the widget values a
\* canvas keeps nothing else, a prompt the names of its literal inputs.
ValueOf(g, n, kind, keep) ==
  IF kind = "save" THEN IF keep THEN n.value ELSE 0
  ELSE IF keep THEN Max({0} \cup Written(g, n))
  ELSE Cardinality(Written(g, n))

\* The nodes of a shape with their sort keys, by their places in the file.
Keyed(g, kind, keep) ==
  [i \in {j \in DOMAIN g.nodes : kind = "save" \/ g.nodes[j] \in Executed(g)} |->
     [id |-> g.nodes[i].id, class |-> g.nodes[i].class,
      value |-> ValueOf(g, g.nodes[i], kind, keep)]]

LinksOf(g, kind) ==
  IF kind = "save" THEN g.links
  ELSE UNION {Sent(g, n) : n \in Executed(g)}

Form(g, kind, keep) == CanonicalForm(Keyed(g, kind, keep), LinksOf(g, kind), kind)

\* derive: the row of one capture.
Derived(g, kind) ==
  [kind |-> kind,
   canonical |-> Form(g, kind, TRUE), structural |-> Form(g, kind, FALSE),
   bindings |-> IF kind = "save"
                THEN UNION {SaveBindings(g, n) : n \in Range(g.nodes)}
                ELSE UNION {ApiBindings(g, n) : n \in Executed(g)}]

----------------------------------------------------------------------------
\* What the rows are held against.

\* The links, each end the place `to` gives the node (0: there is no such node).
PlaceOf(keyed, id) == Max({0} \cup {i \in DOMAIN keyed : keyed[i].id = id})
Ends(keyed, links, kind, to) ==
  LET Place(id) == LET i == PlaceOf(keyed, id) IN IF i = 0 THEN 0 ELSE to[i]
  IN Bag([l \in links |-> <<Place(l.src), Place(l.dst), Says(kind, l)>>])

\* Two graphs of a kind are the same workflow: some matching of their nodes
\* keeps the keys, and the links between matched nodes with what they say.
SameWorkflow(g, h, kind, keep) ==
  LET a == Keyed(g, kind, keep)
      b == Keyed(h, kind, keep)
  IN \E p \in Bijection(DOMAIN a, DOMAIN b) :
       /\ \A i \in DOMAIN a : a[i].class = b[p[i]].class /\ a[i].value = b[p[i]].value
       /\ Ends(a, LinksOf(g, kind), kind, p)
            = Ends(b, LinksOf(h, kind), kind, [i \in DOMAIN b |-> i])

\* Two nodes the sort cannot tell apart.
Tied(g, kind, keep) ==
  LET k == Keyed(g, kind, keep) IN
  \E i, j \in DOMAIN k : i # j /\ k[i].class = k[j].class /\ k[i].value = k[j].value
=============================================================================
