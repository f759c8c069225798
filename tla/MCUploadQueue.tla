--------------------------- MODULE MCUploadQueue ---------------------------
(***************************************************************************)
(* Instances of UploadQueue for TLC.                                       *)
(***************************************************************************)
EXTENDS UploadQueue, TLC

\* Segments are interchangeable: no action and no safety property names one.
SegmentSymmetry == Permutations(Segment)
=============================================================================
