----------------------------- MODULE FactLinks -----------------------------
(***************************************************************************)
(* Relations between the facts of one space (links.rs).  link_facts checks *)
(* a link in many statements - the facts, the quote, the link itself, then *)
(* a walk along the dependencies, one statement per fact - and stores it   *)
(* in the last, without a transaction around them.                         *)
(***************************************************************************)
EXTENDS Integers, FiniteSets

CONSTANTS
  Linkers,       \* the processes
  LinkedFacts,   \* the facts of the space
  StrayFacts,    \* facts of other spaces, or of none
  LinkCalls,     \* what is asked: links of Calls
  LongestChain,  \* facts a walk may see (10,000 in the code)
  MaxLinks       \* bound: the links

VARIABLES
  links,     \* the stored links, each with what it rests on
  linking,   \* linking[p]: the call p is in, with the state of its walk
  crossed    \* history: a link was stored while another call was checking

linkVars == <<links, linking, crossed>>

LinkKinds == {"extends", "derived_from", "contradicts", "supports"}
DependencyKinds == {"extends", "derived_from"}

(* What the caller says of the quote: none, one that the named episode of  *)
(* the space holds, or one that does not hold up.                          *)
Quotes == {"none", "held", "false"}

Calls == [from : LinkedFacts \cup StrayFacts, to : LinkedFacts \cup StrayFacts,
          kind : LinkKinds \cup {"other"}, quote : Quotes]

ASSUME LinkCallsAssumption == LinkCalls \subseteq Calls

NotLinking == [at |-> "idle"]

LinksInit == links = {} /\ linking = [p \in Linkers |-> NotLinking] /\ crossed = FALSE

Same(link, call) == link.from = call.from /\ link.to = call.to /\ link.kind = call.kind

(* A refused call writes nothing, and neither does one whose link is there.*)
Sound(call) ==
  /\ call.kind \in LinkKinds
  /\ call.from # call.to
  /\ {call.from, call.to} \subseteq LinkedFacts
  /\ call.quote # "false"

BeginLink(p, call) ==
  /\ linking[p] = NotLinking
  /\ Sound(call)
  /\ ~ \E link \in links : Same(link, call)
  /\ linking' = [linking EXCEPT ![p] =
       [at |-> IF call.kind \in DependencyKinds THEN "walk" ELSE "insert",
        call |-> call, seen |-> {call.to}, frontier |-> {call.to}]]
  /\ UNCHANGED <<links, crossed>>

(* fact_links, of which depends_on follows those that leave the fact.      *)
DependsDirectly(f) == {link.to : link \in {k \in links : k.from = f /\ k.kind \in DependencyKinds}}

(* Seeded fault: what the first fact depends on is not followed. *)
FurtherNone(walk, f) == {}

Further(walk, f) == DependsDirectly(f) \ walk.seen

(* One fact of depends_on.  The walk is over when it meets the target,     *)
(* when it has seen too many facts, or when nothing is left to read.       *)
Walk(p, f) ==
  LET walk == linking[p]
      next == Further(walk, f)
      seen == walk.seen \cup next
  IN  /\ walk.at = "walk" /\ f \in walk.frontier
      /\ linking' = [linking EXCEPT ![p] =
           IF walk.call.from \in DependsDirectly(f) \/ Cardinality(seen) > LongestChain
           THEN NotLinking
           ELSE [walk EXCEPT !.seen = seen, !.frontier = (@ \ {f}) \cup next]]
      /\ UNCHANGED <<links, crossed>>

StillChecking(p) == linking[p].at = "walk" \/ linking[p].at = "insert"

(* INSERT OR IGNORE: a link that another process stored meanwhile stays.   *)
InsertLink(p) ==
  LET walk == linking[p]
  IN  /\ walk.at = "insert" \/ (walk.at = "walk" /\ walk.frontier = {})
      /\ Cardinality(links) < MaxLinks
      /\ links' = IF \E link \in links : Same(link, walk.call) THEN links
                  ELSE links \cup {walk.call}
      /\ linking' = [linking EXCEPT ![p] = NotLinking]
      /\ crossed' = (crossed \/ (walk.call.kind \in DependencyKinds
                                 /\ \E q \in Linkers \ {p} : linking[q].at = "walk"))

(* A statement fails, or the process ends.                                 *)
LinkFails(p) ==
  /\ StillChecking(p)
  /\ linking' = [linking EXCEPT ![p] = NotLinking]
  /\ UNCHANGED <<links, crossed>>

LinksNext ==
  \/ \E p \in Linkers, call \in LinkCalls : BeginLink(p, call)
  \/ \E p \in Linkers, f \in LinkedFacts : Walk(p, f)
  \/ \E p \in Linkers : InsertLink(p)
  \/ \E p \in Linkers : LinkFails(p)

LinksSpec == LinksInit /\ [][LinksNext]_linkVars

-----------------------------------------------------------------------------

(* A set of facts in which each depends on another of the set.             *)
Circular(S) == S # {} /\ \A f \in S : DependsDirectly(f) \cap S # {}

(* Links join facts of the space, one link of a kind, and a dependency     *)
(* that would close a cycle is refused (link_facts): no facts depend on    *)
(* each other in a circle, unless one dependency was stored while another  *)
(* was being checked (links.rs:89 and 95 are separate statements).         *)
LinksStayAcyclic ==
  /\ \A link \in links : Sound(link)
  /\ \A a, b \in links : Same(a, b) => a = b
  /\ ~ crossed => ~ \E S \in SUBSET LinkedFacts : Circular(S)

=============================================================================
