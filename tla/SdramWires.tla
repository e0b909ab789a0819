------------------------------ MODULE SdramWires ------------------------------
(***************************************************************************)
(* The two registers that sit between the parts of the SDRAM subsystem.    *)
(***************************************************************************)
EXTENDS SdramPkg

VARIABLES
  op,     \* the arbiter's holding register, the controller's input (op_*)
  pins    \* the controller's registered outputs, the chip's input (sdram_*)
===============================================================================
