--------------------------- MODULE MCSoundSnapshot ---------------------------
(* SoundSnapshot for TLC, with the sizes of MCSoundRing.                    *)
EXTENDS SoundSnapshot, MCSoundRing
=============================================================================
