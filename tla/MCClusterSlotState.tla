------------------------- MODULE MCClusterSlotState -------------------------
EXTENDS ClusterSlotState

\* 0 -- (1,0) -- (2,0) -- (3,0)
\*            \- (2,1)             two versions of slot 2
MCBlocks == {<<0, 0>>, <<1, 0>>, <<2, 0>>, <<2, 1>>, <<3, 0>>}
MCParentOf == [k \in MCBlocks |->
    CASE k = <<0, 0>> -> <<>>
      [] k = <<1, 0>> -> <<0, 0>>
      [] k[1] = 2     -> <<1, 0>>
      [] OTHER        -> <<2, 0>>]
MCRoot == <<0, 0>>
MCStakes == [e \in {0} |-> <<>>]
\* What the cluster settles on, and what samples of it may say.
ConfirmNone    == {}
ConfirmOther   == {<<1, 0>>, <<2, 1>>}
ConfirmOurs    == {<<2, 0>>}
ConfirmChild   == {<<3, 0>>}
SampleAny      == {<<2, 0>>, <<2, 1>>}
SampleOurs     == {<<2, 0>>}
SampleOther    == {<<2, 1>>}
=============================================================================
