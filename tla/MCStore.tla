-------------------------------- MODULE MCStore --------------------------------
EXTENDS StoreProperties
===============================================================================
