----------------------------- MODULE MCMaterial -----------------------------
(***************************************************************************)
(* One material for TLC: a datasheet type that holds one current document, *)
(* certificates and photos that stand side by side, two versions of the    *)
(* descriptions. MaxDocuments and MaxInputs are in the cfg.                *)
(***************************************************************************)
EXTENDS Material

CONSTANTS datasheet, certificate, photo, d1, d2

AllTypes == {datasheet, certificate, photo}
OnePerMaterial == {datasheet}
PhotosOnly == {photo}
TwoDescriptions == {d1, d2}

=============================================================================
