---------------------------- MODULE MCProductImages ----------------------------
(* Small instances of ProductImages.                                        *)
EXTENDS ProductImages, TLC

CONSTANTS f1, f2
================================================================================
