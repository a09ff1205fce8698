---------------------------- MODULE Acquisition ----------------------------
(***************************************************************************)
(* What a receiver promises to whoever reads its files later: an image     *)
(* that grows (and may lose its tail when the power fails), and at most    *)
(* one claim about it.  Once the image is claimed to be verified it is     *)
(* complete, its hash is one the operator gave, and nothing changes any    *)
(* more.                                                                   *)
(***************************************************************************)
EXTENDS Naturals, Sequences

CONSTANTS Byte, ExpectedBytes, Sha256(_), Given

VARIABLES image, claim

IsPrefixOf(a, b) == Len(a) <= Len(b) /\ SubSeq(b, 1, Len(a)) = a

Init == image = <<>> /\ claim = "open"

Grow ==
  /\ claim = "open"
  /\ image' \in Seq(Byte)
  /\ IsPrefixOf(image, image') /\ Len(image') <= ExpectedBytes
  /\ UNCHANGED claim

Lose ==
  /\ claim = "open"
  /\ image' \in Seq(Byte)
  /\ IsPrefixOf(image', image)
  /\ UNCHANGED claim

Verify ==
  /\ claim = "open"
  /\ Len(image) = ExpectedBytes
  /\ Sha256(image) \in Given
  /\ claim' = "verified"
  /\ UNCHANGED image

Next == Grow \/ Lose \/ Verify

Spec == Init /\ [][Next]_<<image, claim>>
=============================================================================
