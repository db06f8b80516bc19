-------------------------- MODULE MCKnowledgeStore --------------------------
EXTENDS KnowledgeStore, TLC

CONSTANTS c1, c2, rb1, rb2, inc1, inc2, old, new

\* One interpreter loads sqlite-vec; the other may be built without it.
MCLoads == [c \in Connections |-> IF c = c1 THEN {TRUE} ELSE BOOLEAN]

MCKindOf == [d \in Keys |-> IF d \in {inc1, inc2} THEN "incident" ELSE "runbook"]

\* One document of each kind is there already: the near one is an incident.
MCFiles ==
  LET docs == [d \in Keys |-> CASE d = rb2 -> old [] d = inc2 -> new [] OTHER -> Absent]
  IN  {[docs |-> docs, index |-> docs, unindexed |-> {}]}

MCAdded == {<<rb1, old>>, <<rb1, new>>, <<inc1, new>>}

MCSeeds == <<<<rb1, new>>>>

MCScore == "q" :> (old :> 1 @@ new :> 2)

=============================================================================
