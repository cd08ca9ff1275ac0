----------------------------- MODULE MCDelivery -----------------------------
(***************************************************************************)
(* Model-checking instances of Delivery: two files with one destination,   *)
(* with destinations of which one is a name tried for the other, and with  *)
(* unrelated ones.                                                         *)
(***************************************************************************)
EXTENDS Delivery, TLC

CONSTANTS f1, f2, w1, w2

MCFile == {f1, f2}
MCWorker == {w1, w2}
MCSymmetry == Permutations(MCWorker)
MCPlan(m, n) == [f \in MCFile |-> IF f = f1 THEN m ELSE n]
MCPlans == {MCPlan(<<1>>, <<1>>), MCPlan(<<1>>, <<1, 1>>), MCPlan(<<1>>, <<2>>)}
MCSamePlan == {MCPlan(<<1>>, <<1>>)}
MCOlds == {{}, {<<1>>}, {<<1>>, <<1, 1>>}}
MCConfigs ==
  {c \in [policy : {"overwrite", "skip", "rename-old", "rename-new", "prompt"},
          mode : {"copy", "move"}, sameFs : BOOLEAN, metadata : BOOLEAN,
          xattrs : BOOLEAN, parallelism : 1 .. 2] :
     /\ c.metadata = c.xattrs
     /\ ~c.metadata => c.policy = "overwrite" /\ c.parallelism = 1
     /\ c.policy \in {"skip", "prompt"} => c.parallelism = 1
     /\ c.mode = "copy" => c.sameFs}
MCRenameNew == {c \in MCConfigs : c.policy = "rename-new"}
=============================================================================
