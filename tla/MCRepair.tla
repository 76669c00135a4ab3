------------------------------ MODULE MCRepair ------------------------------
EXTENDS Repair
==============================================================================
