------------------------------- MODULE MCOta --------------------------------
(* Model-checking instance of Ota: two builds, updates and scripts of one and two chunks. *)
EXTENDS Ota

MCDefines(ast) == {"on_init"}
MCChunks(n) == IF n = 1 THEN 2 ELSE 1
MCBuildsOf(u) == IF u = 1 THEN {1, 2} ELSE {2}
MCTarget(u) == 1
MCIds == 1 .. 2
MCPriorities == {0}
MCAsts == 1 .. 2
MCUpdates == 1 .. 2
MCBatches == {1}
MCAssets == 1 .. 2
MCSizeOf(i) == IF i.version = 2 THEN 3 ELSE 2
MCPriorityOf(i) == IF i.version = 2 THEN 2 ELSE 1
=============================================================================
