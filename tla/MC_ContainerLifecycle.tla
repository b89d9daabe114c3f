------------------------- MODULE MC_ContainerLifecycle -------------------------
EXTENDS ContainerLifecycle, TLC
================================================================================
