---------------------------- MODULE MC_Checksum ----------------------------
(* Headers of 6 and 7 bytes over byte values around the 16-bit carry      *)
(* boundary, and a forward_pair of three rules: a server migrated to C,    *)
(* then C migrated on to D, and a rule whose new address was never filled  *)
(* in ("").                                                                *)
EXTENDS Checksum

MCBytes == {0, 1, 127, 128, 255}
MCHdrLens == 6..7

A == <<1, 0>>
B == <<0, 128>>
C == <<255, 255>>
D == <<127, 1>>

MCRules == << [src |-> A, dst |-> B, new |-> C],
              [src |-> C, dst |-> B, new |-> D],
              [src |-> B, dst |-> D, new |-> "none"] >>

=============================================================================
