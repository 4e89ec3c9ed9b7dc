-------------------------------- MODULE MCUefi --------------------------------
EXTENDS CyanfsUefi
===============================================================================
