------------------------- MODULE MCSupervisedWorker -------------------------
(* Texts with every symbol that is escaped, some longer than the pipe. *)
EXTENDS SupervisedWorker

MCDetails == {<<>>, <<Tab>>, <<"x", LF>>, <<Backslash, "n">>}
MCHostErrors == {<<"x">>, <<CR, LF>>, <<Backslash, Tab>>, <<"t", Backslash>>}
MCLineSizes == {HeadLength(p) + 1 : p \in Plans}
=============================================================================
