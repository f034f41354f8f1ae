---------------------------- MODULE SharedMutex ----------------------------
(***************************************************************************)
(* std::shared_mutex as the handlers use it: meme_lock and api_lock are    *)
(* taken through std::unique_lock (one writer, no reader) and              *)
(* std::shared_lock (any readers, no writer), and every return path        *)
(* releases through the lock object's destructor.  The mutex is the        *)
(* standard library's, so this module is external to the repository.       *)
(***************************************************************************)
VARIABLES
  writers,   \* threads that hold the mutex exclusively
  readers    \* threads that hold it shared

LockExclusive(t) ==
  /\ writers = {} /\ readers = {}
  /\ writers' = {t}
  /\ UNCHANGED readers

LockShared(t) ==
  /\ writers = {}
  /\ readers' = readers \union {t}
  /\ UNCHANGED writers

UnlockExclusive(t) ==
  /\ writers' = writers \ {t}
  /\ UNCHANGED readers

UnlockShared(t) ==
  /\ readers' = readers \ {t}
  /\ UNCHANGED writers

(* A process that dies takes its mutex with it.                            *)
ResetMutex == writers' = {} /\ readers' = {}
=============================================================================
