--------------------------- MODULE ProtectedStore ---------------------------
(***************************************************************************)
(* The records and the lock of the updater's private directory:            *)
(* daemon/macos/src/root_update/store.rs.                                  *)
(*                                                                         *)
(* Every other module takes save, load, remove and lock for one step. Here *)
(* they are the system calls they are made of: a save writes and syncs a   *)
(* temporary file and renames it over the record; a load opens the record, *)
(* then asks whether the file it has open still has a name; the lock is a  *)
(* file created once and flocked. Between two calls another process may    *)
(* act and the computer may stop, which leaves the directory at some point *)
(* since it was last synced and loses what a file was not synced for.      *)
(***************************************************************************)
EXTENDS Integers, FiniteSets, Sequences

CONSTANTS
    MaxOps,     \* bound on the saves and removals of the record
    MaxFiles,   \* bound on the files ever created
    Lockers,    \* processes that take the lock
    MaxStops    \* bound on stops of the computer

ASSUME StoreAssumption ==
    MaxOps \in Nat /\ MaxFiles \in Nat /\ MaxStops \in Nat /\ IsFiniteSet(Lockers)

VARIABLES
    dir,       \* the directory: the file of each name, 0 for none
    past,      \* the directory at every point since it was last synced
    file,      \* the files ever created: the version written, whether it is synced
    writer,    \* the process that saves and removes the record
    acked,     \* the version of the last operation that returned
    reader,    \* a process that loads the record; floor: acked when it looked at its file
    locker,    \* the processes that take the lock
    holds,     \* the file each of them has locked
    stops

vars == <<dir, past, file, writer, acked, reader, locker, holds, stops>>

Names == {"record", "temp", "lock"}
Files == 1..Len(file)
nlink(f) == Cardinality({n \in Names : dir[n] = f})

Contents == [version : 0..MaxOps, synced : BOOLEAN]
WriterSteps == {"idle", "clear", "create", "write", "fsync", "rename", "unlink", "sync"}
ReaderSteps == {"idle", "open", "stat", "read", "got"}
Lookups == [step : ReaderSteps, file : Nat, tries : 0..3, floor : 0..MaxOps, version : 0..MaxOps]

TypeOK ==
    /\ file \in Seq(Contents)
    /\ dir \in [Names -> {0} \cup Files] /\ past \in SUBSET [Names -> {0} \cup Files]
    /\ writer \in [step : WriterSteps, version : 0..MaxOps] /\ acked \in 0..MaxOps
    /\ reader \in Lookups
    /\ locker \in [Lockers -> {"idle", "create", "flock", "held"}]
    /\ holds \in [Lockers -> {0} \cup Files] /\ stops \in 0..MaxStops

Init ==
    /\ dir = [n \in Names |-> 0] /\ past = {dir} /\ file = <<>>
    /\ writer = [step |-> "idle", version |-> 0] /\ acked = 0
    /\ reader = [step |-> "idle", file |-> 0, tries |-> 0, floor |-> 0, version |-> 0]
    /\ locker = [p \in Lockers |-> "idle"] /\ holds = [p \in Lockers |-> 0] /\ stops = 0

-----------------------------------------------------------------------------
(* System calls *)

Changes(d) == dir' = d /\ past' = past \cup {d}
Syncs == past' = {dir} /\ UNCHANGED dir
\* O_CREAT | O_EXCL: fails when the name is taken.
Creates(n) ==
    /\ dir[n] = 0 /\ Len(file) < MaxFiles
    /\ file' = Append(file, [version |-> 0, synced |-> FALSE])
    /\ Changes([dir EXCEPT ![n] = Len(file) + 1])

-----------------------------------------------------------------------------
(* save and remove *)

Step(at, to) == writer.step = at /\ writer' = [writer EXCEPT !.step = to]
Rest == UNCHANGED <<reader, locker, holds, stops>>
Begin(to) ==
    /\ writer.step = "idle" /\ writer.version < MaxOps
    /\ writer' = [step |-> to, version |-> writer.version + 1]
    /\ UNCHANGED <<dir, past, file, acked>> /\ Rest
save == Begin("clear")
remove == Begin("unlink")

\* remove(temp), with its sync.
Clear ==
    /\ Step("clear", "create") /\ dir' = [dir EXCEPT !["temp"] = 0] /\ past' = {dir'}
    /\ UNCHANGED <<file, acked>> /\ Rest
Create == Step("create", "write") /\ Creates("temp") /\ UNCHANGED acked /\ Rest
WriteAll ==
    /\ Step("write", "fsync") /\ file' = [file EXCEPT ![dir["temp"]].version = writer.version]
    /\ UNCHANGED <<dir, past, acked>> /\ Rest
NoFsync == UNCHANGED file
Fsyncs == file' = [file EXCEPT ![dir["temp"]].synced = TRUE]
Fsync == Step("fsync", "rename") /\ Fsyncs /\ UNCHANGED <<dir, past, acked>> /\ Rest
KeepsTemp(f) == [dir EXCEPT !["record"] = f]
Renamed(f) == [dir EXCEPT !["record"] = f, !["temp"] = 0]
Rename ==
    /\ Step("rename", "sync") /\ Changes(Renamed(dir["temp"]))
    /\ UNCHANGED <<file, acked>> /\ Rest
Unlink ==
    /\ Step("unlink", "sync") /\ Changes([dir EXCEPT !["record"] = 0])
    /\ UNCHANGED <<file, acked>> /\ Rest
NoSync == UNCHANGED <<dir, past>>
DirSyncs == Syncs
Sync ==
    /\ Step("sync", "idle") /\ DirSyncs /\ acked' = writer.version /\ UNCHANGED file /\ Rest
\* A call fails: the error is returned, the temporary file stays.
Fails ==
    /\ writer.step # "idle" /\ writer' = [writer EXCEPT !.step = "idle"]
    /\ UNCHANGED <<dir, past, file, acked>> /\ Rest

-----------------------------------------------------------------------------
(* load: read_file *)

ReaderRest == UNCHANGED <<dir, past, file, writer, acked, locker, holds, stops>>
load ==
    /\ reader.step \in {"idle", "got"} /\ MaxOps > 0
    /\ reader' = [step |-> "open", file |-> 0, tries |-> 0, floor |-> 0, version |-> 0]
    /\ ReaderRest
Idle == [step |-> "idle", file |-> 0, tries |-> 0, floor |-> 0, version |-> 0]
Open ==
    /\ reader.step = "open"
    /\ reader' = IF dir["record"] = 0 \/ reader.tries = 3 THEN Idle
                 ELSE [reader EXCEPT !.step = "stat", !.file = dir["record"], !.tries = @ + 1]
    /\ ReaderRest
\* A file that has lost its name is opened again, three times at most.
TrustsOpen(f) == FALSE
Retired(f) == nlink(f) = 0
Stat ==
    /\ reader.step = "stat"
    /\ reader' = IF Retired(reader.file) THEN [reader EXCEPT !.step = "open"]
                 ELSE [reader EXCEPT !.step = "read", !.floor = acked]
    /\ ReaderRest
Read ==
    /\ reader.step = "read"
    /\ reader' = [reader EXCEPT !.step = "got", !.version = file[reader.file].version]
    /\ ReaderRest

-----------------------------------------------------------------------------
(* lock: the file is made by whoever finds none, and flocked. *)

LockerGoes(p, s) == locker' = [locker EXCEPT ![p] = s]
LockerRest == UNCHANGED <<writer, acked, reader, stops>>
lock(p) ==
    /\ locker[p] = "idle" /\ LockerGoes(p, IF dir["lock"] = 0 THEN "create" ELSE "flock")
    /\ UNCHANGED <<dir, past, file, holds>> /\ LockerRest
Overwrites ==
    /\ Len(file) < MaxFiles
    /\ file' = Append(file, [version |-> 0, synced |-> FALSE])
    /\ Changes([dir EXCEPT !["lock"] = Len(file) + 1])
CreatesLock == Creates("lock")
MakesLock(p) ==
    /\ locker[p] = "create" /\ LockerGoes(p, "flock") /\ CreatesLock
    /\ UNCHANGED holds /\ LockerRest
FindsLock(p) ==
    /\ locker[p] = "create" /\ dir["lock"] # 0 /\ LockerGoes(p, "flock")
    /\ UNCHANGED <<dir, past, file, holds>> /\ LockerRest
\* LOCK_EX | LOCK_NB: whoever does not get it fails.
Flock(p) ==
    /\ locker[p] = "flock"
    /\ IF \E q \in Lockers : holds[q] = dir["lock"]
       THEN LockerGoes(p, "idle") /\ UNCHANGED holds
       ELSE LockerGoes(p, "held") /\ holds' = [holds EXCEPT ![p] = dir["lock"]]
    /\ UNCHANGED <<dir, past, file>> /\ LockerRest
Unlock(p) ==
    /\ locker[p] = "held" /\ LockerGoes(p, "idle") /\ holds' = [holds EXCEPT ![p] = 0]
    /\ UNCHANGED <<dir, past, file>> /\ LockerRest

-----------------------------------------------------------------------------
\* The computer stops and starts.
Stop ==
    /\ stops < MaxStops /\ stops' = stops + 1
    /\ \E d \in past : dir' = d /\ past' = {d}
    /\ \E lost \in SUBSET {f \in Files : ~file[f].synced} :
        file' = [f \in Files |-> IF f \in lost THEN [file[f] EXCEPT !.version = 0] ELSE file[f]]
    /\ writer' = [writer EXCEPT !.step = "idle"] /\ reader' = Idle
    /\ locker' = [p \in Lockers |-> "idle"] /\ holds' = [p \in Lockers |-> 0]
    /\ UNCHANGED acked

Next ==
    \/ save \/ remove \/ Clear \/ Create \/ WriteAll \/ Fsync \/ Rename \/ Unlink \/ Sync \/ Fails
    \/ load \/ Open \/ Stat \/ Read \/ Stop
    \/ \E p \in Lockers : lock(p) \/ MakesLock(p) \/ FindsLock(p) \/ Flock(p) \/ Unlock(p)

Spec == Init /\ [][Next]_vars

-----------------------------------------------------------------------------
(* A file has one name at a time, now and wherever a stop may lead back.   *)
NamedOnce ==
    /\ dir \in past
    /\ \A d \in past : \A m, n \in Names : d[m] = d[n] /\ d[m] # 0 => m = n

\* A file that may be read as a record: written whole, and since the last one returned.
Whole(f) == f \in Files /\ file[f].synced /\ file[f].version > 0 /\ file[f].version >= acked

(* Whatever a stop leaves, the record is whole and no older than the last  *)
(* save or removal that returned (save, sync).                             *)
RecordDurable == \A d \in past : d["record"] # 0 => Whole(d["record"])

(* Where a save stands, what its temporary file holds, and that no record  *)
(* a stop may bring back is that file (save).                              *)
SavePosition ==
    /\ acked <= writer.version
    /\ writer.step # "idle" => writer.version > acked
    /\ writer.step \in {"write", "fsync", "rename"} =>
        dir["temp"] # 0 /\ \A d \in past : d["record"] # dir["temp"]
    /\ writer.step \in {"fsync", "rename"} => file[dir["temp"]].version = writer.version
    /\ writer.step = "rename" => file[dir["temp"]].synced
    /\ writer.step = "sync" /\ dir["record"] # 0 =>
        file[dir["record"]].version = writer.version

(* A load never sees a record that was not written whole, whatever saves,  *)
(* failures and stops came before (save syncs before it renames).          *)
ReadsWhole == reader.step = "got" => reader.version > 0

(* A load never returns a record older than the last save or removal that  *)
(* had returned when it looked at the file it opened: not one replaced     *)
(* while it was being opened, and not one a stop has brought back          *)
(* (read_file_after_open, sync).                                           *)
ReadsNoOlder == reader.step = "got" => reader.version >= reader.floor

(* What a load has open was the record, and is nothing else now: while it  *)
(* has its name it is still the record (read_file_after_open).             *)
LoadPosition ==
    /\ reader.step \in {"stat", "read"} =>
        /\ reader.file \in Files /\ file[reader.file].synced /\ file[reader.file].version > 0
        /\ reader.file # dir["temp"] /\ reader.file # dir["lock"]
    /\ reader.step = "read" => file[reader.file].version >= reader.floor

(* Two processes never hold the lock, also when both find no lock file.    *)
OneHolder == \A p, q \in Lockers : locker[p] = "held" /\ locker[q] = "held" => p = q

(* Who holds the lock has locked the file that has its name, nobody else   *)
(* has locked anything (lock, Drop).                                       *)
LockPosition == \A p \in Lockers :
    /\ locker[p] \in {"flock", "held"} => dir["lock"] # 0
    /\ holds[p] = IF locker[p] = "held" THEN dir["lock"] ELSE 0

(* Every system call, of whichever process, every failure and every stop   *)
(* of the computer preserves this: the records are whole and current, the  *)
(* lock has one holder (store.rs).                                         *)
StoreInvariant ==
    /\ TypeOK /\ NamedOnce /\ RecordDurable /\ SavePosition /\ LoadPosition /\ LockPosition
    /\ ReadsWhole /\ ReadsNoOlder /\ OneHolder

-----------------------------------------------------------------------------
(* The store as the other modules take it *)

Version(d) == IF d["record"] = 0 THEN 0 ELSE file[d["record"]].version
Value == Version(dir)
Durable == {Version(d) : d \in past}
Pending ==
    CASE writer.step = "idle" -> [step |-> "idle", target |-> 0]
      [] writer.step = "unlink" -> [step |-> "begun", target |-> 0]
      [] writer.step = "sync" -> [step |-> "applied", target |-> Value]
      [] OTHER -> [step |-> "begun", target |-> writer.version]
Loaded ==
    CASE reader.step = "read" -> file[reader.file].version
      [] reader.step = "got" -> reader.version
      [] OTHER -> 0
Holders == {p \in Lockers : locker[p] = "held"}

Record == INSTANCE AtomicRecord WITH
    value <- Value, durable <- Durable, op <- Pending, loaded <- Loaded, holder <- Holders

(* The calls of save, remove, load and lock, cut anywhere by each other,   *)
(* by failures and by stops, amount to one step each (store.rs).           *)
RecordSpec == Record!Spec
=============================================================================
