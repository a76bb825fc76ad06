------------------------------ MODULE MCSpawner ------------------------------
EXTENDS Spawner
=============================================================================
