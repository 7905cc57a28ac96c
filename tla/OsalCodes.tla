----------------------------- MODULE OsalCodes -----------------------------
(***************************************************************************)
(* The status codes of osal_types.h that the drivers return, as numbers:   *)
(* some callers compare them with a count of bytes.  No code is negative.  *)
(***************************************************************************)
OSAL_SUCCESS == 0
OSAL_ERR_GENERIC == 1
OSAL_ERR_TIMEOUT == 4
=============================================================================
