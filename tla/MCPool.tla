-------------------------------- MODULE MCPool --------------------------------
EXTENDS PoolProperties
===============================================================================
