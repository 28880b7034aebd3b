-------------------------------- MODULE MCSnap --------------------------------
(***************************************************************************)
(* Small instances of Snap: rings of three and two offsets.                *)
(***************************************************************************)
EXTENDS Snap

CONSTANT nobike

SmallRings == <<3, 2>>

=============================================================================
