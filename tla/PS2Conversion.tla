--------------------------- MODULE PS2Conversion ---------------------------
(***************************************************************************)
(* The two ways a PS2 game leaves the server: ps2.Filesystem writes it to  *)
(* an OPL drive, ps2.FPKGBuilder packs it for a PS4.  They share nothing   *)
(* but the ISO, which both only read, so a behaviour follows one of them.  *)
(***************************************************************************)
EXTENDS OPLFilesystem, FPKGBuilder

VARIABLE target  \* "drive" or "package"

conversionVars == <<target, oplVars, fpkgVars>>

ConversionInit ==
    /\ target \in {"drive", "package"}
    /\ OPLInit /\ FPKGInit

ConversionNext ==
    \/ target = "drive"   /\ OPLNext  /\ UNCHANGED <<target, fpkgVars>>
    \/ target = "package" /\ FPKGNext /\ UNCHANGED <<target, oplVars>>

ConversionSpec == ConversionInit /\ [][ConversionNext]_conversionVars
=============================================================================
