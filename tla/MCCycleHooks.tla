---------------------------- MODULE MCCycleHooks ----------------------------
EXTENDS CycleHooks, MCCycleEngine
=============================================================================
