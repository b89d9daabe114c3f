-------------------------- MODULE MC_BridgeConnection --------------------------
EXTENDS BridgeConnection, TLC
CONSTANTS i1, i2, c1, c2

TwoServers == c1 :> i1 @@ c2 :> i2
OneServer == c1 :> i1
================================================================================
