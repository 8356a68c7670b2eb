--------------------------- MODULE MCFrameLevels ---------------------------
(***************************************************************************)
(* A program with one function of each layout, whose hook sites share two  *)
(* front cache slots.                                                      *)
(***************************************************************************)
EXTENDS FrameLevels

MCLayout ==
  [fix |-> "fixed", big |-> "fixed", ptr |-> "frame_pointer", asm |-> "undescribed", vec |-> "realigned"]

MCSizes == [fix |-> {1}, big |-> {7}, ptr |-> {1, 3}, asm |-> {1}, vec |-> {2, 4}]

MCSlotOf == [s \in (DOMAIN MCLayout) \X Places |-> IF s[2] = "exit" \/ s[1] = "vec" THEN 1 ELSE 0]
=============================================================================
