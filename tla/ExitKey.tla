------------------------------- MODULE ExitKey -------------------------------
(***************************************************************************)
(* The exit's long-term signing key (src/geph4-exit/src/main.rs, main).    *)
(* At start-up the exit reads the key file; when the read fails it         *)
(* generates a key, writes it with std::fs::write, then makes the file     *)
(* read-only and sets its mode with set_mode(600), and runs with the new   *)
(* key whether or not the write succeeded.  The process may die at any     *)
(* point and is started again; the file survives.  std::fs::write          *)
(* truncates the file before it writes the bytes, so a death in between    *)
(* leaves a file that does not deserialize; main then returns the error of *)
(* bincode::deserialize(..)? and the supervisor starts the exit again.     *)
(*                                                                         *)
(* A mode is the integer the code passes: the permission bits are read     *)
(* off it by division, so set_mode(600) is the decimal 600, 0o1130.  A     *)
(* file std::fs::write creates gets 0o666 less the umask 0o022: 0o644.     *)
(***************************************************************************)
EXTENDS Naturals, FiniteSets

CONSTANTS
    Keys,        \* keys Keypair::generate may return
    NoKey,
    RunAsRoot,   \* whether the exit runs as root, which bypasses the bits
    MaxRestarts, \* bound on the process ending and being started again
    TornWrites,  \* whether the process may die inside std::fs::write
    IoErrors,    \* whether file operations and the binder request may fail
    MaxFaults    \* bound on failed reads and writes of the key file

ASSUME ExitKeyAssumption ==
    /\ NoKey \notin Keys
    /\ IsFiniteSet(Keys)
    /\ RunAsRoot \in BOOLEAN
    /\ MaxRestarts \in Nat
    /\ MaxFaults \in Nat
    /\ Cardinality(Keys) > MaxRestarts + MaxFaults
    /\ TornWrites \in BOOLEAN
    /\ IoErrors \in BOOLEAN

\* perms.set_mode(600)
KeyMode == 600

\* 0o644, the mode of a file created under the umask 0o022
CreateMode == 420

Bit(m, b) == (m \div b) % 2 = 1

OwnerRead(m)  == Bit(m, 256)   \* 0o400
OwnerWrite(m) == Bit(m, 128)   \* 0o200
OtherRead(m)  == Bit(m, 4)     \* 0o004

Absent == [key |-> NoKey, mode |-> 0]

\* Bytes that are not a serialized keypair: the key file's content after a
\* death inside std::fs::write.
Garbage == NoKey

VARIABLES
    file,      \* the key file: Absent, or its key and mode
    pc,        \* "down", "gen" (key generated), "written", "keyed" (key in
               \* hand), "up", "failed"
    mem,       \* the key the process holds
    used,      \* keys generated so far
    announced, \* keys the exit has come up with (ghost)
    restarts,
    faults     \* failed reads of an existing file and failed writes (ghost)

vars == <<file, pc, mem, used, announced, restarts, faults>>

CanRead  == file # Absent /\ (RunAsRoot \/ OwnerRead(file.mode))
CanWrite == file = Absent \/ RunAsRoot \/ OwnerWrite(file.mode)

\* An I/O error of a file operation the permissions allow.
Fault == IoErrors /\ faults < MaxFaults

\* The file after std::fs::write of bytes k: an existing file keeps its mode.
Written(k) == [key |-> k, mode |-> IF file = Absent THEN CreateMode ELSE file.mode]

\* Keypair::generate.
Generate == \E k \in Keys \ used : mem' = k /\ used' = used \cup {k} /\ pc' = "gen"

Init ==
    /\ file = Absent
    /\ pc = "down"
    /\ mem = NoKey
    /\ used = {}
    /\ announced = {}
    /\ restarts = 0
    /\ faults = 0

\* Mutant: a file that does not deserialize is passed over, and the exit
\* runs with a fresh key it does not save.
ReadGarbageFresh ==
    /\ pc = "down"
    /\ \/ /\ CanRead /\ file.key # Garbage
          /\ mem' = file.key /\ pc' = "keyed"
          /\ UNCHANGED <<used, faults>>
       \/ /\ CanRead /\ file.key = Garbage
          /\ \E k \in Keys \ used : mem' = k /\ used' = used \cup {k}
          /\ pc' = "keyed"
          /\ UNCHANGED faults
       \/ ~CanRead /\ Generate /\ UNCHANGED faults
       \/ CanRead /\ Fault /\ Generate /\ faults' = faults + 1
    /\ UNCHANGED <<file, announced, restarts>>

\* match std::fs::read: Ok deserializes the file (its `?` ends main on bytes
\* that are not a keypair); Err, for a missing or unreadable file or any
\* other I/O error, generates a key.
ReadKey ==
    /\ pc = "down"
    /\ \/ /\ CanRead
          /\ IF file.key # Garbage
               THEN mem' = file.key /\ pc' = "keyed"
               ELSE pc' = "failed" /\ UNCHANGED mem
          /\ UNCHANGED <<used, faults>>
       \/ ~CanRead /\ Generate /\ UNCHANGED faults
       \/ CanRead /\ Fault /\ Generate /\ faults' = faults + 1
    /\ UNCHANGED <<file, announced, restarts>>

\* std::fs::write truncates and writes; on error, which leaves the file as
\* it was or, once opened, truncated, the exit logs and goes on with the
\* unsaved key.
WriteKey ==
    /\ pc = "gen"
    /\ \/ CanWrite /\ file' = Written(mem) /\ pc' = "written" /\ UNCHANGED faults
       \/ ~CanWrite /\ pc' = "keyed" /\ UNCHANGED <<file, faults>>
       \/ /\ CanWrite /\ Fault
          /\ file' \in {file, Written(Garbage)}
          /\ pc' = "keyed"
          /\ faults' = faults + 1
    /\ UNCHANGED <<mem, used, announced, restarts>>

\* The process dies after std::fs::write truncated or created the file and
\* before it wrote all of the bytes.
TornWrite ==
    /\ TornWrites
    /\ pc = "gen"
    /\ CanWrite
    /\ restarts < MaxRestarts
    /\ file' = Written(Garbage)
    /\ pc' = "down"
    /\ mem' = NoKey
    /\ restarts' = restarts + 1
    /\ UNCHANGED <<used, announced, faults>>

\* metadata, set_readonly(true), set_mode(600), set_permissions: the mode
\* becomes 600, or a `?` ends main with the mode as written.
SetPerms ==
    /\ pc = "written"
    /\ \/ file' = [file EXCEPT !.mode = KeyMode] /\ pc' = "keyed"
          /\ UNCHANGED restarts
       \/ /\ IoErrors /\ restarts < MaxRestarts
          /\ pc' = "failed" /\ restarts' = restarts + 1
          /\ UNCHANGED file
    /\ UNCHANGED <<mem, used, announced, faults>>

\* The binder's GetExits request, then listen::main_loop with the key; a
\* failed request (its `?`, or the panic on another response) ends main.
Serve ==
    /\ pc = "keyed"
    /\ \/ pc' = "up" /\ announced' = announced \cup {mem} /\ UNCHANGED restarts
       \/ /\ IoErrors /\ restarts < MaxRestarts
          /\ pc' = "failed" /\ restarts' = restarts + 1
          /\ UNCHANGED announced
    /\ UNCHANGED <<file, mem, used, faults>>

\* The process dies and is started again.
Restart ==
    /\ pc # "down"
    /\ restarts < MaxRestarts
    /\ pc' = "down"
    /\ mem' = NoKey
    /\ restarts' = restarts + 1
    /\ UNCHANGED <<file, used, announced, faults>>

\* main returned an error and the supervisor starts the exit again.
Relaunch ==
    /\ pc = "failed"
    /\ pc' = "down"
    /\ UNCHANGED <<file, mem, used, announced, restarts, faults>>

\* Serving: the rest of the exit's life.
Run == pc = "up" /\ UNCHANGED vars

Next == ReadKey \/ WriteKey \/ SetPerms \/ Serve \/ TornWrite \/ Restart
        \/ Relaunch \/ Run

\* main runs its start-up to the end unless the process dies, and the
\* supervisor starts an exit whose main returned.
Spec == Init /\ [][Next]_vars
            /\ WF_vars(ReadKey) /\ WF_vars(WriteKey) /\ WF_vars(SetPerms)
            /\ WF_vars(Serve) /\ WF_vars(Relaunch)

-----------------------------------------------------------------------------

\* Restarts of the exit never change its identity: every incarnation that
\* comes up serves with the same signing key, the one main persisted.
StableIdentity == Cardinality(announced) <= 1

\* The exit changes its identity only through a failed read or write of its
\* key file: every incarnation that comes up serves with the key main
\* persisted, across deaths at any point of start-up, torn writes and failed
\* binder requests, and each I/O error of main's read-or-generate adds at
\* most one further key.
IdentityLostOnlyByFaults == Cardinality(announced) <= 1 + faults

\* An exit that is started eventually serves: start-up survives a death at
\* any point of main's read-or-generate, including inside the write.
ExitComesUp == pc = "down" ~> pc = "up"

\* Whenever the exit is not in the middle of start-up, the key file on disk
\* is not readable by other users, as the mode 0600 the exit's key file is
\* documented to have ensures.
KeyNotExposed ==
    pc \in {"down", "up"} /\ file # Absent => ~OtherRead(file.mode)

=============================================================================
