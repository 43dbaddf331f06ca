---------------------------- MODULE SourceGraph ----------------------------
(***************************************************************************)
(* The graph of what a space holds and where it comes from (evidence.rs,   *)
(* evidence_graph).  A node is <<kind, id>>, an edge <<from, to, kind>>.   *)
(* A view of the store is a record:                                        *)
(*                                                                         *)
(*   events     the journal, oldest first                                  *)
(*   episodes   id |-> its chunks, in order                                *)
(*   claims     the facts, in the order of facts_list; each has an id, the *)
(*              episodes it is derived from, and of these the ones that    *)
(*              belong to another space or are gone                        *)
(***************************************************************************)
EXTENDS Integers, SequencesExt

Kinds == <<"episode", "claim", "recall", "session", "turn", "tool_call", "chunk">>

NoEpisode == 0

Newest(seq, n) == IF Len(seq) <= n THEN seq ELSE SubSeq(seq, Len(seq) - n + 1, Len(seq))

FirstOf(seq, n) == IF Len(seq) <= n THEN seq ELSE SubSeq(seq, 1, n)

(* What an event draws: a session and its turns and tools, or a recall and *)
(* what it returned.                                                       *)
EventNode(k, e) ==
  IF e.kind = "recall" THEN <<"recall", k>>
  ELSE <<IF e.kind = "agent" /\ e.tool THEN "tool_call" ELSE "turn", k>>

EventNodes(k, e) ==
  {EventNode(k, e)} \cup (IF e.kind = "agent" THEN {<<"session", e.session>>} ELSE {})

EventEdges(k, e) ==
  IF e.kind = "agent"
  THEN {<<<<"session", e.session>>, EventNode(k, e), IF e.tool THEN "invoked" ELSE "has">>}
       \cup {<<EventNode(k, e), <<"episode", x>>, "captured_as">> : x \in {e.episode} \ {NoEpisode}}
  ELSE {<<EventNode(k, e), <<"chunk", c>>, "returned">> : c \in e.chunks}
       \cup {<<EventNode(k, e), <<"claim", f>>, "held">> : f \in e.claims}

(* The sample: the newest events and episodes, some passages of each, and  *)
(* the first claims, each with the sources that are of this space.         *)
DrawnEvents(view, limit) ==
  LET first == Len(view.events) - Len(Newest(view.events, limit)) + 1
  IN  first .. Len(view.events)

DrawnEpisodes(view, limit) ==
  LET Newer(x) == {y \in DOMAIN view.episodes : y > x}
  IN  {x \in DOMAIN view.episodes : Cardinality(Newer(x)) < limit}

DrawnClaims(view, limit) == ToSet(FirstOf(view.claims, limit))

Sources(view, claim) == claim.sources \cap DOMAIN view.episodes

DrawnSources(view, limit) == UNION {Sources(view, f) : f \in DrawnClaims(view, limit)}

AllNodes(view, limit) ==
  (UNION {EventNodes(k, view.events[k]) : k \in DrawnEvents(view, limit)})
  \cup {<<"episode", x>> : x \in DrawnEpisodes(view, limit) \cup DrawnSources(view, limit)}
  \cup (UNION {{<<"chunk", c>> : c \in ToSet(FirstOf(view.episodes[x], limit))} :
                 x \in DrawnEpisodes(view, limit)})
  \cup {<<"claim", f.id>> : f \in DrawnClaims(view, limit)}

AllEdges(view, limit) ==
  (UNION {EventEdges(k, view.events[k]) : k \in DrawnEvents(view, limit)})
  \cup (UNION {{<<<<"episode", x>>, <<"chunk", c>>, "chunked_into">> :
                  c \in ToSet(FirstOf(view.episodes[x], limit))} : x \in DrawnEpisodes(view, limit)})
  \cup (UNION {{<<<<"episode", x>>, <<"claim", f.id>>, "source_of">> : x \in Sources(view, f)} :
                 f \in DrawnClaims(view, limit)})

Endpoints(edges) == UNION {{e[1], e[2]} : e \in edges}

(* The order in which a kind gives up its nodes: an end of a source_of     *)
(* edge, then an end of any edge, then the rest; the larger id first.      *)
Tiers(nodes, edges) ==
  LET provenance == Endpoints({e \in edges : e[3] = "source_of"})
      anchored == Endpoints(edges)
  IN  [n \in nodes |-> IF n \in provenance THEN 2 ELSE IF n \in anchored THEN 1 ELSE 0]

GoesFirst(tier, a, b) ==
  /\ a[1] = b[1]
  /\ \/ tier[a] > tier[b]
     \/ tier[a] = tier[b] /\ a[2] > b[2]

KindPlace(kind) == CHOOSE k \in DOMAIN Kinds : Kinds[k] = kind

(* The first nodes of an order.                                            *)
FirstNodes(nodes, Before, limit) ==
  {n \in nodes : Cardinality({o \in nodes : <<o, n>> \in Before}) < limit}

(* Seeded fault: the nodes that come first by their key are kept. *)
KeptByKey(nodes, edges, limit) ==
  LET tier == Tiers(nodes, edges)
  IN  FirstNodes(nodes,
                 {p \in nodes \X nodes : \/ KindPlace(p[1][1]) > KindPlace(p[2][1])
                                         \/ GoesFirst(tier, p[1], p[2])},
                 limit)

(* The kinds take turns, each with its next node, until the limit is       *)
(* reached.                                                                *)
TakenFirst(nodes, edges) ==
  LET tier == Tiers(nodes, edges)
      turn == [n \in nodes |-> Cardinality({o \in nodes : GoesFirst(tier, o, n)})]
  IN  {p \in nodes \X nodes :
         \/ turn[p[1]] < turn[p[2]]
         \/ turn[p[1]] = turn[p[2]] /\ KindPlace(p[1][1]) < KindPlace(p[2][1])}

Kept(nodes, edges, limit) ==
  IF Cardinality(nodes) <= limit THEN nodes
  ELSE FirstNodes(nodes, TakenFirst(nodes, edges), limit)

(* Sources that are gone are missing; sources that did not fit, of any     *)
(* claim of the sample, are omitted.                                       *)
EvidenceGraph(view, limit) ==
  LET nodes == Kept(AllNodes(view, limit), AllEdges(view, limit), limit)
  IN  [nodes |-> nodes,
       edges |-> {e \in AllEdges(view, limit) : e[1] \in nodes /\ e[2] \in nodes},
       truncated |-> \/ Cardinality(AllNodes(view, limit)) > limit
                     \/ Len(view.events) > limit
                     \/ Cardinality(DOMAIN view.episodes) > limit
                     \/ \E x \in DrawnEpisodes(view, limit) : Len(view.episodes[x]) > limit,
       omitted |-> Cardinality({x \in DrawnSources(view, limit) : <<"episode", x>> \notin nodes}),
       missing |-> Cardinality(UNION {f.gone : f \in DrawnClaims(view, limit)})]

=============================================================================
