---------------------------- MODULE MCRdpPipeline ----------------------------
(***************************************************************************)
(* RdpPipeline on a surface of two cells, each a band of its own: a PDU    *)
(* changes one cell, the surface, or the surface in two regions.           *)
(***************************************************************************)
EXTENDS RdpPipeline

MCCells == {1, 2}
MCBands == <<{1}, {2}>>
MCPduRegions == {<<{1}>>, <<{1, 2}>>, <<{1}, {2}>>}
MCPayloads ==
    {NoPayload, FullBaseline} \cup UNION {[S -> 1..MaxDraws] : S \in SUBSET Cells}
MCNoPatches == <<>>
MCGenerations == 1..MaxGeneration

=============================================================================
