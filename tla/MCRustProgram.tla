--------------------------- MODULE MCRustProgram ---------------------------
(***************************************************************************)
(* Every byte string over Alphabet of at most MaxLength bytes, and those   *)
(* over LongAlphabet that are one byte longer.                             *)
(***************************************************************************)
EXTENDS RustMain

CONSTANTS Alphabet, LongAlphabet, MaxLength

ASSUME BoundsAssumption == Alphabet \cup LongAlphabet \subseteq 0 .. 255 /\ MaxLength \in Nat

MCCodes ==
    UNION {[0 .. (n - 1) -> Alphabet] : n \in 1 .. MaxLength}
    \cup [0 .. MaxLength -> LongAlphabet]

\* The pattern of main.rs with any target, one that asks for a constant operand,
\* and one that names its query twice.
MCQueries ==
    {Operation(JUMPI, <<Query("target"), Query("condition")>>),
     Operation(JUMPI, <<Query("target"), Operation(MOD, <<Query("left"), Query("right")>>)>>),
     Operation(MOD, <<Constant(0), Query("right")>>),
     Operation(MOD, <<Argument(0), Query("right")>>),
     Operation(MOD, <<Query("both"), Query("both")>>)}

=============================================================================
