--------------------------- MODULE MCInstrumentsDb ---------------------------
EXTENDS InstrumentsDb

LOCAL x0 == <<"x", 1>>
MCContents == "f" :> <<"x", "x">> @@ "g" :> <<>>
MCBaseName == "f" :> "x" @@ "g" :> "x"
MCFsWalk == <<[sub |-> <<>>, files |-> <<"g">>], [sub |-> <<x0>>, files |-> <<"f">>]>>
MCRequests == {FileScan(<<x0>>, "f", 1), DirectoryScan(<<>>, TRUE),
               TreeScan(<<>>, FALSE, FALSE), TreeScan(<<x0>>, TRUE, FALSE)}
=============================================================================
