-------------------------- MODULE MCStandaloneTools ---------------------------
(* Values of the constants of StandaloneTools for TLC. *)
EXTENDS StandaloneTools, TLC, SequencesExt

CONSTANTS e1, e2, o1, o2, k1, k2

Pattern == INSTANCE PathPatterns

\* Every pattern of one or two segments over these, against every path of up to three.
A == <<"a">>
B == <<"b">>
AB == <<"a", "b">>
MCSegments ==
  {Pattern!Name(A), Pattern!Name(AB), Pattern!Glob(<<>>, <<>>), Pattern!Glob(A, <<>>),
   Pattern!Glob(<<>>, B), Pattern!Glob(A, B), Pattern!Glob(AB, <<>>), Pattern!Globstar}
MCPatterns == {<<s>> : s \in MCSegments} \cup {<<s, t>> : s, t \in MCSegments}
MCPaths == UNION {[1..n -> {A, B, AB, <<"a", "c", "b">>}] : n \in 1..3}
MCNodes == <<1, 2, 3>>
MCPrerequisites == {SetToSortSeq(s, <) : s \in SUBSET (1..4)} \cup {<<2, 1>>}
MCSteps == <<1, 2>>

\* A valid intent to start from: every finding repaired by both actions.
MCTemplate ==
  LET place == CHOOSE p \in Sources : TRUE IN
  [status |-> "READY", owner |-> "team", allowed |-> Sources, forbidden |-> {}, preserve |-> {},
   findings |-> [f \in Findings |->
     [category |-> "OTHER", pressing |-> TRUE, deferred |-> FALSE, path |-> place]],
   actions |-> [a \in Actions |->
     [repairs |-> Findings, operation |-> "IMPLEMENT", depends |-> {}, checks |-> Checks,
      path |-> place, destructive |-> FALSE, human |-> FALSE, automated |-> TRUE]],
   checks |-> [c \in Checks |-> [deterministic |-> TRUE, covers |-> Findings \cup Actions]],
   criteria |-> [f \in Findings |-> Checks], order |-> SetToSeq(Actions), analysis |-> Unset]

\* One member changed by the migration, one removed, one left.
MCBase == [p \in Members |-> IF p = "m3" THEN "new" ELSE "old"]
MCSource == [p \in Members |-> IF p = "m3" THEN NoBlob ELSE IF p = "m1" THEN "new" ELSE "old"]

\* Three releases: one file goes and comes back, one turns from seed to managed.
MCPackage ==
  [r \in 1..3 |-> [p \in ManagedTargets |->
    CASE p = "tool"   -> (IF r = 2 THEN "none" ELSE "managed")
      [] p = "seeded" -> (IF r = 1 THEN "seed" ELSE "managed")
      [] OTHER        -> "none"]]

\* For each repository a content that is signed, one with the statement of another
\* document, and one whose statement nobody signed.
MCSigned == {<<"plesk", "d1">>, <<"moved", "d1">>}
MCContents == {[document |-> "d1", attestation |-> <<"plesk", "d1">>],
               [document |-> "d1", attestation |-> <<"moved", "d1">>],
               [document |-> "d2", attestation |-> <<"plesk", "d1">>],
               [document |-> "d2", attestation |-> <<"plesk", "d2">>]}
MCEmbedded == [document |-> "d0", attestation |-> <<>>]

\* Documents of three capabilities: the first needs the handle "h", which the second or
\* nothing produces; they depend on each other in every way, and on the unknown fourth.
Provider(c, planes) ==
  [connector |-> c, uri |-> c, flags |-> {}, planes |-> planes, credentials |-> {}]
Dependencies == {<<>>, <<1>>, <<2>>, <<3>>, <<4>>, <<1, 2>>}
Capability(requires, credentials, produces, planned, providers) ==
  [requires |-> requires, credentials |-> credentials, produces |-> produces, flags |-> {},
   planned |-> planned, providers |-> providers]
MCDocuments ==
  {<<Capability(r1, {"h"}, {}, FALSE, p), 
     Capability(r2, {}, h, FALSE, <<Provider("c2", {})>>),
     Capability(r3, {}, {}, planned, <<Provider("c3", {})>>)>> :
     r1 \in Dependencies, r2 \in {<<>>, <<1>>, <<3>>, <<4>>}, r3 \in Dependencies,
     h \in {{}, {"h"}}, planned \in BOOLEAN,
     p \in {<<Provider("c1", {})>>, <<Provider("c1", {"a"}), Provider("c2", {})>>}}
AllPresent ==
  [refused |-> {}, absent |-> {}, unreviewed |-> {}, blocked |-> {}, connectors |-> {"c1", "c2", "c3"},
   routes |-> {"c1", "c2", "c3"}, flags |-> {}, plane |-> "a"]
MCObserved ==
  {AllPresent, [AllPresent EXCEPT !.refused = {2}], [AllPresent EXCEPT !.absent = {1}],
   [AllPresent EXCEPT !.connectors = {"c2", "c3"}],
   [AllPresent EXCEPT !.plane = "b", !.routes = {"c1", "c2"}]}
MCInquiries ==
  [document : MCDocuments, observed : MCObserved, held : {{}, {"h"}}, wanted : {<<3>>, <<3, 1>>}]

MCSymmetry == Permutations({e1, e2}) \cup Permutations({o1, o2}) \cup Permutations({k1, k2})
==============================================================================
