----------------------------- MODULE MCScripts ------------------------------
(* Model-checking instance of Scripts: one script with every hook, one that only ticks. *)
EXTENDS Scripts

MCDefines(ast) == IF ast = 1 THEN {"on_init", "on_event", "on_input", "on_tick", "on_unload"}
                             ELSE {"on_tick"}
MCIds == 1 .. 2
MCPriorities == 0 .. 1
MCAsts == 1 .. 2
=============================================================================
