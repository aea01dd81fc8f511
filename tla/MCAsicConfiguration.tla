------------------------ MODULE MCAsicConfiguration ------------------------
(***************************************************************************)
(* Two ASICs of two channels, each on a FEB/D of its own.  A              *)
(* configuration that differs from the one after initializeSystem in a     *)
(* channel that is not the last, and one that differs in all channels.     *)
(***************************************************************************)
EXTENDS AsicConfiguration

MCTacRefresh(v) == v

MCConfigs ==
  { [r \in Registers |-> 1], [r \in Registers |-> IF r[2] = Global \/ r = <<0, 0>> THEN 1 ELSE 0] }

MCBiasChannels == {<<0, 0>>}

MCBiasConfigs == {[k \in BiasChannels |-> 1]}
=============================================================================
