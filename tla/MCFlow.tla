------------------------------- MODULE MCFlow -------------------------------
EXTENDS FlowInv
Three_One == <<3, 1>>
OneMsg == <<1>>
TwoMsg == <<2>>
One_One == <<1, 1>>
NoMsgs == <<>>
=============================================================================
