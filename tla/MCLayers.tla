------------------------------ MODULE MCLayers ------------------------------
(* A display of three by two pixels with small windows that overlap. *)
EXTENDS Layers

MCMouseShape == {<<0, 0>>}
MCSizes  == {<<2, 1>>}
MCPlaces == {<<0, 0>>, <<1, 0>>}
MCMoves  == {<<1, 0>>, <<-1, 0>>, <<0, 1>>, <<0, -1>>}

\* Bound: the first window is created in the corner, the second one beside it.
InTurn == \A id \in DOMAIN layers' \ DOMAIN layers : layers'[id].x = id - 2

MCSpec == LmInit /\ [][LmNext /\ InTurn]_vars
=============================================================================
