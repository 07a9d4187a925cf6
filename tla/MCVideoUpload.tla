---------------------------- MODULE MCVideoUpload ----------------------------
(* Instances of VideoUpload for TLC: attempts at one video in two parts.     *)
EXTENDS VideoUpload, TLC

CONSTANTS a1, a2, a3, u1, u2, u3

(* The platform names uploads; attempts only compare them. *)
UploadSymmetry == Permutations(Uploads)
=============================================================================
