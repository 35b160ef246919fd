-------------------------- MODULE MCFirmwareUpdate --------------------------
(* FirmwareUpdate for two connections, two threads and a flash of two       *)
(* regions.                                                                *)
EXTENDS FirmwareUpdate
CONSTANTS a, b
LengthDef == [i \in Images |-> IF i = a THEN 2 ELSE 1]

\* What is left in a variable that is set again before anybody reads it is no
\* difference between two states: update_ctrl of a closed slot, the block
\* that has been written, the image of an ended update, the number of an ended
\* thread.  Nor is what VerdictExact does not ask for any more: the image that
\* is marked, after its check, and the blocks that came, when something broke.
\* (A check that no update asked for reads md5; CONSTRAINT ends the run there.)
Live(jobs) == \E w \in Workers : worker[w].job \in jobs
View ==
    <<conns, [s \in conns |-> ctrl[s]], flag,
      IF flag THEN md5 ELSE None,
      IF Live({"write"}) THEN buf ELSE None,
      worker, got,
      IF Live(Jobs \ {"free", "write", "written"}) THEN checker ELSE None,
      f, area,
      IF Live({"passed", "unsaved"}) THEN approved ELSE None,
      tasks, latest, image, broken, idled,
      IF broken = {} THEN <<orderly, sent>> ELSE << >>>>
=============================================================================
