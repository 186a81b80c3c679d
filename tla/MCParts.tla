-------------------------------- MODULE MCParts --------------------------------
(***************************************************************************)
(* The components whose safety is checked and that need little state, side *)
(* by side in one instance.  They share no variable; a behaviour is one of *)
(* one part, which is chosen at the start, and the others keep still.      *)
(* They are extended, so that a property is here what it is there; the     *)
(* configuration gives their constants.                                    *)
(***************************************************************************)
EXTENDS MCHookIO, RockStream, HttpPool, Config, TimedCaches, WebSocket, ByteArray

CONSTANTS m1, m2, m3, m4                        \* messages of WebSocket

VARIABLE part

Lengths == [m \in {m1, m2, m3, m4} |->
              CASE m = m1 -> "short" [] m = m2 -> "long" [] m = m3 -> "empty" [] m = m4 -> "huge"]

Parts == {"io", "rock", "pool", "cache", "bytes", "ws", "config"}

PartsInit ==
    /\ part \in Parts
    /\ Init /\ (part # "io" => cast = {z} /\ crew = Workers)
    /\ RockInit /\ PoolInit /\ ConfigInit
    /\ CacheInit /\ ByteInit
    /\ WsInit /\ (part # "ws" => ~client)

Still(which) ==
    /\ "io" \in which => UNCHANGED vars
    /\ "rock" \in which => UNCHANGED rockVars
    /\ "pool" \in which => UNCHANGED poolVars
    /\ "cache" \in which => UNCHANGED cacheVars
    /\ "bytes" \in which => UNCHANGED byteVars
    /\ "ws" \in which => UNCHANGED wsVars
    /\ "config" \in which => UNCHANGED configVars

Runs(p) == part = p /\ part' = p /\ Still(Parts \ {p})

PartsNext ==
    \/ Runs("io") /\ Next
    \/ Runs("rock") /\ RockNext
    \/ Runs("pool") /\ PoolNext
    \/ Runs("cache") /\ CacheNext
    \/ Runs("bytes") /\ ByteNext
    \/ Runs("ws") /\ WsNext
    \/ Runs("config") /\ ConfigNext

PartsSpec ==
    /\ PartsInit
    /\ [][PartsNext]_<<vars, rockVars, poolVars, cacheVars, byteVars, wsVars, configVars, part>>
===============================================================================
