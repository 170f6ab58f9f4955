------------------------------ MODULE MCServices ------------------------------
\* The MCP clients and the terminal, side by side: a behaviour belongs to one of
\* them, and the other one stays in its initial state.
EXTENDS McpClient, Terminal

VARIABLE part

vars == <<mvars, tvars, part>>

Init == MInit /\ TInit /\ part \in {"mcp", "terminal"}

Next ==
  /\ UNCHANGED part
  /\ \/ part = "mcp" /\ MNext /\ UNCHANGED tvars
     \/ part = "terminal" /\ TNext /\ UNCHANGED mvars

FairSpec == Init /\ [][Next]_vars /\ MFair /\ TFair

OneClient == <<"files">>
===============================================================================
