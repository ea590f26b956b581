--------------------------- MODULE MCIpcSpscBuffer ----------------------------
(* Model-checking instances of IpcSpscBuffer; the .cfg files give the constants. *)
EXTENDS IpcSpscBuffer
==============================================================================
