--------------------------- MODULE MCMpCoherence ----------------------------
EXTENDS MpCoherence
InOrder(b) == [depend |-> "inorder", bottom |-> b]
InAnyOrder(b) == [depend |-> "any", bottom |-> b]
TwoKinds == {InOrder(1), InAnyOrder(0)}
=============================================================================
