------------------------------ MODULE MCDispatch ------------------------------
(* Chains of two packs, three jobs of the rank lane, and the heavy lane's.  *)
EXTENDS Dispatch

MCJobs  == {"p1", "p2", "q", "r1", "r2", "r3", "align", "render", "bad"}
MCPacks == {"p", "q"}
MCKind  == [j \in MCJobs |-> CASE j \in {"p1", "p2", "q", "bad"} -> "ops" [] j \in {"r1", "r2", "r3"} -> "clip_rank"
                               [] j = "align" -> "infer" [] OTHER -> "render"]
MCPack  == [j \in MCJobs |-> IF j = "q" THEN "q" ELSE "p"]
MCLabel == [j \in MCJobs |-> "corr"]
MCInfra == {"p1", "r1"}
MCWidth == [ops |-> 2, heavy |-> 1, rank |-> 2]
MCLoads == {{"r1", "r2", "r3"}, {"p1", "p2", "q"}, {"align", "render", "p1"}, {"bad", "r1", "q"}}
=============================================================================
