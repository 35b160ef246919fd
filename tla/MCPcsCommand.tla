---------------------------- MODULE MCPcsCommand ----------------------------
(* PcsCommand on small sets of threads.                                    *)
EXTENDS PcsCommand
RawDef == {{}, {Start}}

\* What TLC tells states apart by.  No guard, no other variable and no property
\* but the type reads power or armed, and only the HMI reads onoff, which it
\* sets before: states that differ in these alone go on alike.
View == <<word, saved, man,
          IF \E t \in Threads : pc[t] \in {"teststop", "teststart"} THEN onoff ELSE FALSE,
          order, fsm, pc, op, reg, orphan>>
=============================================================================
