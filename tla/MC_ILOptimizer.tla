--------------------------- MODULE MC_ILOptimizer ---------------------------
(* ILOptimizer on the IL that ILGenerator makes of the pool of programs.   *)
EXTENDS ILOptimizer, ILGenerator, Pool

MCPrograms == {GenProgram(src).bodies :
                 src \in Pairs(Statements) \cup Others \cup ArrayTriples}
=============================================================================
