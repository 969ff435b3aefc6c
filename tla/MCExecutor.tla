---- MODULE MCExecutor ----
EXTENDS EnvRun, TLC
\* The loop of an install or a fix has made its order and reads the targets no more.
TargetsStillRead == IF Forward /\ stage \in {"run", "done"} THEN <<>> ELSE plan.targets
View == <<registry, [plan EXCEPT !.targets = TargetsStillRead], detect, stage, rest, handled, rosters,
          acted, liveBefore, struck, hookVars>>
====
