-------------------------------- MODULE Board --------------------------------
(***************************************************************************)
(* What the components that drive the outputs share, on top of the clock:  *)
(* the vocabulary of the decode table and the names of the outputs.        *)
(***************************************************************************)
EXTENDS Uptime

CONSTANTS
    Outputs,   \* names an output may have
    Signals,   \* enum signals of the decode table
    Texts      \* the texts an enum signal decodes to
==============================================================================
