---------------------------- MODULE CryptoTypes ----------------------------
(***************************************************************************)
(* The vocabulary every module shares: the result codes of                 *)
(* crypto/CryptoTypes.h, the backend preference of crypto/CryptoEngine.h    *)
(* and the two backends CryptoEngine.cpp keeps as static singletons.        *)
(***************************************************************************)
EXTENDS Integers

\* enum class CryptoStatus
CryptoStatus == {"Ok", "HardwareMissing", "NotStarted", "BadParam",
                 "InternalError", "Unsupported", "AuthFailed"}

\* enum class CryptoEngine::Prefer
Prefer == {"Auto", "CC310", "OnChip"}

\* The value of CryptoEngine::backend_: nullptr, &g_cc310 or &g_onchip
BackendPtr == {"none", "CC310", "OnChip"}

\* constexpr uint8_t kRsaInvalidSlot
kRsaInvalidSlot == 255

\* The value of a CRYS call that succeeded
CRYS_OK == 0
=============================================================================
