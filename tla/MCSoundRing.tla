----------------------------- MODULE MCSoundRing -----------------------------
(* SoundRing for TLC: the sizes sound.h derives from SOUND_SAMPLES, and the *)
(* block that main's audio specification asks for.                          *)
EXTENDS SoundRing

CONSTANT SOUND_SAMPLES       \* 4096 there

SOUND_BUF_SZ     == SOUND_SAMPLES * 3
SOUND_BUF_TMP_SZ == 2                    \* one stereo pair; SAMPLES / 2 there
SOUND_WAKE       == SOUND_SAMPLES * 2
DESIRED_SAMPLES  == SOUND_SAMPLES        \* SAMPLES / 2 stereo frames
FAST16           == SOUND_SAMPLES * 6    \* 2^64 there
=============================================================================
