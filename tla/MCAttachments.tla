--------------------------- MODULE MCAttachments ---------------------------
(* Instances of Attachments for TLC. *)
EXTENDS Attachments, TLC

(* Attachment ids and workers are interchangeable; used by runs without liveness. *)
Symmetry == Permutations(Files) \cup Permutations(Workers)
=============================================================================
