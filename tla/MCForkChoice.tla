---------------------------- MODULE MCForkChoice ----------------------------
EXTENDS HeaviestSubtreeForkChoice

\* 0 -- 1 -- (2,0)
\*        \- (2,1) -- 4       two versions of slot 2
MCBlocks == {<<0, 0>>, <<1, 0>>, <<2, 0>>, <<2, 1>>, <<4, 0>>}
MCParentOf == [k \in MCBlocks |->
    CASE k = <<0, 0>> -> <<>>
      [] k = <<1, 0>> -> <<0, 0>>
      [] k[1] = 2     -> <<1, 0>>
      [] OTHER        -> <<2, 1>>]
MCRoot == <<0, 0>>
MCValidators == {"v", "w"}
MCStakes == [e \in 0..2 |-> [v \in MCValidators |->
    IF v = "v" THEN 2 ELSE IF e = 0 THEN 1 ELSE 3]]
=============================================================================
