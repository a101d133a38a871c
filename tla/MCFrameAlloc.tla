---------------------------- MODULE MCFrameAlloc ----------------------------
(* FrameAlloc on a machine of eight four-byte frames.                        *)
EXTENDS FrameAlloc

MCRequests == 0 .. 2
MCSizes == {0, 1, 5, 8}
=============================================================================
