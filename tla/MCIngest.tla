------------------------------- MODULE MCIngest -------------------------------
EXTENDS ServerIngest
===============================================================================
