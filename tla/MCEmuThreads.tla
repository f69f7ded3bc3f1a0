---------------------------- MODULE MCEmuThreads ----------------------------
(* Small instances of EmuThreads *)
EXTENDS EmuThreads, TLC

\* The dynarec saves and loads; the interpreter has the menu loop, whose
\* handlers write Emu_Is_Paused.
BothCores ==
    ("dynarec" :> {"pause", "resume", "save", "load", "stop", "play"}) @@
    ("interpreter" :> {"pause", "resume", "menu", "stop", "play"})

LoadAndResume == "dynarec" :> {"load", "pause", "resume"}
=============================================================================
