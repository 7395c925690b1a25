------------------------------ MODULE MCParser -------------------------------
EXTENDS Parser
MCClassNames == {"A", "B"}
=============================================================================
