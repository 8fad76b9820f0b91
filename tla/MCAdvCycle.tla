----------------------------- MODULE MCAdvCycle -----------------------------
(* A small instance of AdvCycle: the knobs that NVS may hold, and a few    *)
(* temperatures around the threshold of half a degree.                     *)
EXTENDS AdvCycle

MCTemps == {2500, 2530, 2560}
MCRawMvMs == {1000, 60000}
MCRawStMs == {0, 3000, 65535}
=============================================================================
