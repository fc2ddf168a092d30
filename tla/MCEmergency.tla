------------------------------ MODULE MCEmergency ------------------------------
EXTENDS EmergencyCommand
===============================================================================
