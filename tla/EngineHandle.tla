---------------------------- MODULE EngineHandle ----------------------------
(***************************************************************************)
(* The life of one native engine behind its Python facade.  SlimEngine      *)
(* (hftbacktest_slim/engine/replay.py) holds the only handle to what        *)
(* hbt_slim_create allocated (native/src/ffi.rs).  An engine may be given   *)
(* back once and not used afterwards; the facade keeps to that by           *)
(* forgetting its handle, whoever closes it, however often and from         *)
(* whichever exception.                                                     *)
(*                                                                         *)
(* An engine is a record: allocated and freed count the two native calls,   *)
(* handle says whether the facade still holds one.                          *)
(***************************************************************************)
EXTENDS Integers, Sequences

NoEngine == [allocated |-> 0, freed |-> 0, handle |-> FALSE]

Live(e) == e.allocated > e.freed

-----------------------------------------------------------------------------
(* The native library: a file is "good", "other_abi", "broken" (it does not *)
(* load or lacks the version function) or "missing".                        *)

(* resolve_library_path, without an explicit path: the environment's is     *)
(* authoritative even if it is missing; otherwise the first candidate that  *)
(* is a file.                                                               *)
ResolveLibrary(environment, candidates) ==
    LET files == SelectSeq(candidates, LAMBDA f : f # "missing") IN
    IF environment # "unset" THEN environment ELSE IF files = <<>> THEN "missing" ELSE files[1]

(* NativeBinding.__init__, with the signatures it configures at its end,    *)
(* raises for any library but a good one.                                   *)
Binds(environment, candidates) == ResolveLibrary(environment, candidates) = "good"

-----------------------------------------------------------------------------
(* hbt_slim_create copies the rows and allocates, or returns null.          *)
HbtSlimCreate(e, accepted) == IF accepted THEN [e EXCEPT !.allocated = @ + 1] ELSE e

HbtSlimFree(e) == [e EXCEPT !.freed = @ + 1]

(* SlimExecutionAdapter.open: the pair's times in force and the assets are  *)
(* checked, the library bound and the rows of both legs read before an      *)
(* engine is asked for; the handle is kept unless it is null.               *)
Construct(e, bound, checked, accepted) ==
    IF bound /\ checked THEN [HbtSlimCreate(e, accepted) EXCEPT !.handle = accepted] ELSE e

CloseKeepingHandle(e) == IF e.handle THEN HbtSlimFree(e) ELSE e    \* mutant: the handle is not cleared

Close(e) == IF e.handle THEN HbtSlimFree([e EXCEPT !.handle = FALSE]) ELSE e

(* __del__, when the last reference to the facade goes.                     *)
Del(e) == Close(e)

(* What a call makes of the native code: every call but close is refused    *)
(* once the handle is gone, and a code that is neither raises.              *)
Answer(e, rc) ==
    CASE e.handle /\ rc = 0 -> "more"
      [] e.handle /\ rc = 1 -> "end"
      [] OTHER -> "raise"
=============================================================================
