----------------------- MODULE MCCardinalityPipeline -----------------------
(* Instantiates CardinalityPipeline for TLC.  The bytes are a letter, the  *)
(* segment separator, the field separator and the line terminator: enough *)
(* for nested prefixes, distinct children ("a" vs "aa" vs ""), lines       *)
(* without a field separator and blank lines.                              *)
EXTENDS CardinalityPipeline

MCAlphabet == {"a", ".", " ", "\n"}

=============================================================================
