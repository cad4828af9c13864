----------------------------- MODULE FrameStream -----------------------------
(***************************************************************************)
(* What the viewer of one session is promised about the remote picture,    *)
(* whatever happens between the protocol thread and the screen:            *)
(*   - the texture only moves forward, generation by generation and inside *)
(*     a generation revision by revision;                                  *)
(*   - a presented picture is one the texture holds, no revision is        *)
(*     presented twice, and the first one presented of a generation is a   *)
(*     complete baseline.                                                  *)
(***************************************************************************)
EXTENDS Naturals

VARIABLES
    shown,   \* generation and revision of the texture; generation 0: no texture
    screen   \* generation, revision and completeness presented last

streamVars == <<shown, screen>>

Shown == [generation : Nat, revision : Nat]
Screen == [generation : Nat, revision : Nat, full : BOOLEAN]

StreamInit ==
    /\ shown = [generation |-> 0, revision |-> 0]
    /\ screen = [generation |-> 0, revision |-> 0, full |-> FALSE]

\* A new generation replaces the texture.
Start ==
    /\ shown' \in Shown
    /\ shown'.generation > shown.generation
    /\ shown'.revision > 0
    /\ UNCHANGED screen

\* A newer revision of the same generation.
Advance ==
    /\ shown.generation > 0
    /\ shown' \in Shown
    /\ shown'.generation = shown.generation
    /\ shown'.revision > shown.revision
    /\ UNCHANGED screen

\* The texture reaches the screen.
Present ==
    /\ shown.generation > 0
    /\ \/ screen.generation < shown.generation
       \/ screen.generation = shown.generation /\ screen.revision < shown.revision
    /\ screen' \in Screen
    /\ screen'.generation = shown.generation
    /\ screen'.revision = shown.revision
    /\ screen.generation < shown.generation => screen'.full
    /\ UNCHANGED shown

StreamNext == Start \/ Advance \/ Present

StreamSpec == StreamInit /\ [][StreamNext]_streamVars

=============================================================================
