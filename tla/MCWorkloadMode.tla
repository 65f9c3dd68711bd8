--------------------------- MODULE MCWorkloadMode ---------------------------
EXTENDS WorkloadMode
CONSTANTS run, blender
MCDomain == [i \in Ids |-> IF i = run THEN "AI" ELSE "RENDER"]
=============================================================================
