---------------------------- MODULE MCConnPool ----------------------------
EXTENDS ConnPool

TwoGroups == <<"make a", "make b", "barrier", "link">>
TwoFirst == [h \in 1..Hosts |-> IF h = 1 THEN 2 ELSE 1]
=============================================================================
