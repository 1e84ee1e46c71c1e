---------------------------- MODULE MCEncodeApi ----------------------------
(* Model-checking instances of EncodeApi. *)
EXTENDS EncodeApi

AllCodecs == [video : BOOLEAN, delay : BOOLEAN, frame_size : FrameSizes]
=============================================================================
