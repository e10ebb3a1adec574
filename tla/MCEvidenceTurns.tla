-------------------------- MODULE MCEvidenceTurns --------------------------
(* Small instances of EvidenceTurns. *)
EXTENDS EvidenceTurns

CONSTANTS
  Artifacts,  \* files that tools write
  Nowhere     \* the value of Nothing

\* A page and the label of its finding; a long label of the critic's, cut by a load;
\* a long page.
AllTexts == Artifacts \cup {"page", "web:page", "web:long", "web:cut", "longpage", "cutpage"}

Shortened ==
  [t \in AllTexts |-> CASE t = "web:long" -> "web:cut"
                        [] t = "longpage" -> "cutpage"
                        [] OTHER -> t]

Labels == [f \in {"page", "long"} |-> IF f = "page" THEN "web:page" ELSE "web:long"]

WriteFile(a) == [type |-> "tool", layer |-> "artifact", text |-> a, finding |-> Nowhere]
Fetch(text) == [type |-> "tool", layer |-> "external_prior", text |-> text, finding |-> "page"]

Writes == {WriteFile(a) : a \in Artifacts}
Pages == Writes \cup {Fetch("page")}
LongPage == {Fetch("longpage")}

Claim(finding) == [type |-> "plain", finding |-> finding]
Class(class) == [type |-> "class", what |-> class]
Failure == [type |-> "failure", what |-> "oos"]

Silence == {<<>>}
Claims == {<<>>, <<Claim(Nowhere)>>}
Failing == {<<>>, <<Failure>>}
Classified == {<<>>, <<Class("infra")>>}

Propose(class, target, override, findings, portfolio) ==
  [class |-> class, target |-> target, override |-> override,
   findings |-> findings, hyps |-> portfolio]

\* Infrastructure with and without a proof, research on and off target, with what
\* the critic may assert beside it.
AllKinds ==
  {Propose("infra", "first", "depends", <<>>, <<1, 0>>),
   Propose("infra", "first", "none", <<"prose", "long">>, <<>>),
   Propose("research", "first", "none", <<>>, <<>>),
   Propose("unknown", "other", "none", <<>>, <<>>)}

OneClass == {Propose("research", "first", "none", <<>>, <<>>)}
TwoClasses == OneClass \cup {Propose("infra", "first", "depends", <<>>, <<>>)}
Asserting == {Propose("research", "first", "none", <<"long">>, <<>>)}

\* Files are only compared with each other.
Symmetry == Permutations(Artifacts)
=============================================================================
