--------------------------- MODULE MCApplePipeline ---------------------------
(***************************************************************************)
(* ApplePipeline on a surface of two cells, each a band of its own.        *)
(***************************************************************************)
EXTENDS ApplePipeline

MCCells == {1, 2}
MCBands == <<{1}, {2}>>
MCPayloads ==
    {NoPayload, FullBaseline} \cup UNION {[S -> 1..MaxDraws] : S \in SUBSET Cells}
MCNoPatches == <<>>
MCGenerations == 1..MaxGeneration

=============================================================================
