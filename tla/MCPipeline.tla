----------------------------- MODULE MCPipeline -----------------------------
EXTENDS Pipeline

CONSTANTS flp1, flp2, skeleton, abc

Entry(a, l, m, n) ==
  [active |-> a, location |-> l, machines |-> m, maxNumberCycles |-> n]

two  == <<flp1, flp2>>
back == <<flp2, flp1>>

\* One task of every kind, and pairs of a merged task and another one. The
\* entry that has no "active" stops generateLocal on every host.
MCConfigs ==
  {[t \in {skeleton, abc} |-> IF t = skeleton THEN e ELSE f] :
     e \in {Entry("true", "local", two, -1), Entry("true", "local", back, 1), Entry("true", "local", <<flp2>>, -1)},
     f \in {Entry("false", "local", two, -1), Entry("unset", "local", <<flp1>>, -1)}}
  \cup
  {[t \in {skeleton, abc} |-> Entry(IF t = abc THEN "true" ELSE "false", "remote", <<flp1>>, 2)]}
=============================================================================
