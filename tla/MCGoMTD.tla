------------------------------ MODULE MCGoMTD -------------------------------
(***************************************************************************)
(* Small instances of GoMTD for TLC, and the properties of the driver.     *)
(***************************************************************************)
EXTENDS GoMTD

MCStaticEvals == {-7, 0, 7}
=============================================================================
