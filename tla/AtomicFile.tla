----------------------------- MODULE AtomicFile -----------------------------
(***************************************************************************)
(* write_atomic_bytes of lewm-train/src/checkpoint.rs for one path: open   *)
(* and truncate "<name>.tmp", write_all, sync_all, rename over the path,   *)
(* fsync of the parent directory.  Every checkpoint file (model record,    *)
(* safetensors mirror, parity probe, sidecar) goes through it.             *)
(*                                                                         *)
(* The operating system is modelled as far as the code relies on it: the   *)
(* page cache survives a killed process, a power failure keeps only what   *)
(* was synced, and an unsynced file may come back torn.  The bytes of one  *)
(* write are its version number: 1, 2, ... in the order of the calls.      *)
(***************************************************************************)
EXTENDS Integers

CONSTANT MaxWrites        \* bound on the number of calls

ASSUME MaxWritesAssumption == MaxWrites \in Nat \ {0}

Versions == 0..MaxWrites  \* 0: the path does not exist yet
Torn     == -1            \* empty, truncated or partly written bytes

VARIABLES
  pc,          \* next statement of the call in progress, "idle" between calls
  version,     \* version the current (or last) call writes
  tmp,         \* bytes of the temporary file in the page cache (Torn if none)
  tmpSynced,   \* TRUE when sync_all covered those bytes
  path,        \* bytes a reader of the path finds now
  pathSynced,  \* TRUE when these bytes themselves are on the device
  disk,        \* bytes the path had when its directory entry was last synced
  acked        \* version of the last call that returned Ok

vars == <<pc, version, tmp, tmpSynced, path, pathSynced, disk, acked>>

TypeOK ==
  /\ pc \in {"idle", "write", "sync", "rename", "sync_dir"}
  /\ version \in Versions
  /\ tmp \in Versions \union {Torn}
  /\ tmpSynced \in BOOLEAN
  /\ path \in Versions \union {Torn}
  /\ pathSynced \in BOOLEAN
  /\ disk \in Versions \union {Torn}
  /\ acked \in Versions

Init ==
  /\ pc = "idle"
  /\ version = 0
  /\ tmp = Torn
  /\ tmpSynced = FALSE
  /\ path = 0
  /\ pathSynced = TRUE
  /\ disk = 0
  /\ acked = 0

-----------------------------------------------------------------------------
(* Deviations of the statements below that the properties must catch; no     *)
(* specification uses them.                                                *)

\* The bytes are written to the path itself instead of a temporary file.
WriteInPlace ==
  /\ pc = "idle"
  /\ version < MaxWrites
  /\ version' = version + 1
  /\ path' = Torn
  /\ pathSynced' = FALSE
  /\ pc' = "write"
  /\ UNCHANGED <<tmp, tmpSynced, disk, acked>>

-----------------------------------------------------------------------------
(* The call. *)

\* A new call opens the temporary file with create and truncate, whatever an
\* interrupted call left there.
OpenTmp ==
  /\ pc = "idle"
  /\ version < MaxWrites
  /\ version' = version + 1
  /\ tmp' = Torn
  /\ tmpSynced' = FALSE
  /\ pc' = "write"
  /\ UNCHANGED <<path, pathSynced, disk, acked>>

WriteAll ==
  /\ pc = "write"
  /\ tmp' = version
  /\ tmpSynced' = FALSE
  /\ pc' = "sync"
  /\ UNCHANGED <<version, path, pathSynced, disk, acked>>

SyncAll ==
  /\ pc = "sync"
  /\ tmpSynced' = TRUE
  /\ pc' = "rename"
  /\ UNCHANGED <<version, tmp, path, pathSynced, disk, acked>>

\* The rename is atomic in the page cache; the directory entry on the device
\* still names the old bytes.
Rename ==
  /\ pc = "rename"
  /\ path' = tmp
  /\ pathSynced' = tmpSynced
  /\ tmp' = Torn
  /\ tmpSynced' = FALSE
  /\ pc' = "sync_dir"
  /\ UNCHANGED <<version, disk, acked>>

\* The last statement; the call returns Ok.
SyncParentDir ==
  /\ pc = "sync_dir"
  /\ disk' = IF pathSynced THEN path ELSE Torn
  /\ acked' = version
  /\ pc' = "idle"
  /\ UNCHANGED <<version, tmp, tmpSynced, path, pathSynced>>

-----------------------------------------------------------------------------
(* What can go wrong. *)

\* A killed process, or any statement returning an error: the call ends where
\* it is and the page cache keeps what it has.
Interrupt ==
  /\ pc # "idle"
  /\ pc' = "idle"
  /\ UNCHANGED <<version, tmp, tmpSynced, path, pathSynced, disk, acked>>

\* A power failure: the path names what its synced directory entry names or,
\* if that reached the device in time, what the last rename installed, whose
\* bytes are whole only if they had been synced.
PowerFailure ==
  /\ pc' = "idle"
  /\ path' \in {disk, IF pathSynced THEN path ELSE Torn}
  /\ disk' = path'
  /\ pathSynced' = TRUE
  /\ tmp' = Torn
  /\ tmpSynced' = FALSE
  /\ UNCHANGED <<version, acked>>

Next ==
  \/ OpenTmp \/ WriteAll \/ SyncAll \/ Rename \/ SyncParentDir
  \/ Interrupt \/ PowerFailure

Spec == Init /\ [][Next]_vars

-----------------------------------------------------------------------------
(* Properties. *)

\* A reader of a checkpoint file finds one whole version, at every instant and
\* after every crash or power failure: write_atomic_bytes never exposes a torn
\* file.  This is what lets load_checkpoint parse whatever it finds.
NeverTorn == path # Torn

\* Once write_atomic_bytes has returned Ok, neither the visible bytes nor what
\* a power failure would leave is older than the acknowledged version.
AckedSurvives == path >= acked /\ disk >= acked

\* The bytes on the device never run ahead of what a reader sees, and neither
\* is newer than the newest call; with NeverTorn this is what the step
\* invariant needs.
Staged ==
  /\ disk # Torn
  /\ disk <= path /\ path <= version
  /\ pathSynced
  /\ pc \in {"sync", "rename"} => tmp = version
  /\ pc = "rename" => tmpSynced
  /\ pc = "sync_dir" => path = version
  /\ pc \in {"write", "sync", "rename"} => path < version

\* The inductive invariant behind NeverTorn and AckedSurvives.
IInv == TypeOK /\ NeverTorn /\ AckedSurvives /\ Staged

\* The file implements the register: the whole call is one atomic publication
\* followed by its acknowledgement, also across crashes and power failures.
Register == INSTANCE DurableRegister WITH visible <- path, acked <- acked
ImplementsRegister == Register!Spec
=============================================================================
