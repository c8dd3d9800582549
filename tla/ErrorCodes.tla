----------------------------- MODULE ErrorCodes -----------------------------
(***************************************************************************)
(* The result codes of include/cemb/error_codes.h that the modelled        *)
(* operations return.  Only their being different from one another         *)
(* matters, so a code is its own name.                                     *)
(***************************************************************************)
ERR_NONE            == "ERR_NONE"
ERR_NOT_INITIALISED == "ERR_NOT_INITIALISED"
ERR_NO_MEM          == "ERR_NO_MEM"
ERR_INVALID_ARG     == "ERR_INVALID_ARG"
ERR_TIMEOUT         == "ERR_TIMEOUT"
ERR_OUT_OF_BOUNDS   == "ERR_OUT_OF_BOUNDS"
ERR_NOOP            == "ERR_NOOP"
ERR_INCOMPLETE      == "ERR_INCOMPLETE"
ERR_EMPTY           == "ERR_EMPTY"

ErrorCode == {ERR_NONE, ERR_NOT_INITIALISED, ERR_NO_MEM, ERR_INVALID_ARG,
              ERR_TIMEOUT, ERR_OUT_OF_BOUNDS, ERR_NOOP, ERR_INCOMPLETE,
              ERR_EMPTY}
=============================================================================
