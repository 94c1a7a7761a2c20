------------------------ MODULE ProtectedStoreProofs ------------------------
(***************************************************************************)
(* Proofs about ProtectedStore, for any number of saves, files, lockers    *)
(* and stops of the computer: its inductive invariant, what a load may     *)
(* read, the one holder of the lock, and that the calls of an operation    *)
(* amount to the one step of AtomicRecord.                                 *)
(***************************************************************************)
EXTENDS ProtectedStore, FiniteSetTheorems, TLAPS

\* The bounds the other definitions are stated with.
Bounds == MaxOps \in Nat /\ MaxFiles \in Nat /\ MaxStops \in Nat

LEMMA HasBounds == Bounds
  BY StoreAssumption DEF Bounds

-----------------------------------------------------------------------------
(* Files and their names *)

\* A file without a link is the one no name stands for.
LEMMA RetiredHasNoName ==
    ASSUME NEW f, ~Retired(f)
    PROVE  \E n \in Names : dir[n] = f
  <1>1. SUFFICES ASSUME {n \in Names : dir[n] = f} = {}
                 PROVE  FALSE
    OBVIOUS
  <1>2. Cardinality({}) = 0
    BY FS_EmptySet
  <1> QED  BY <1>1, <1>2 DEF Retired, nlink

\* A file in use is a record of its contents.
LEMMA FileType ==
    ASSUME TypeOK, NEW f \in Files
    PROVE  /\ file[f] \in Contents
           /\ file[f].version \in 0..MaxOps
           /\ file[f].synced \in BOOLEAN
           /\ f \in Nat /\ f # 0
  <1>1. file \in Seq(Contents)
    BY DEF TypeOK
  <1>2. file[f] \in Contents
    BY <1>1 DEF Files
  <1>3. f \in Nat /\ f # 0
    BY <1>1 DEF Files
  <1>4. file[f].version \in 0..MaxOps
    BY <1>2 DEF Contents
  <1>5. file[f].synced \in BOOLEAN
    BY <1>2 DEF Contents
  <1> QED  BY <1>2, <1>3, <1>4, <1>5

\* A new file comes after the others, which it leaves alone.
LEMMA FileMade ==
    ASSUME TypeOK, Bounds, file' = Append(file, [version |-> 0, synced |-> FALSE])
    PROVE  /\ file' \in Seq(Contents)
           /\ Files' = 1..(Len(file) + 1) /\ Files \subseteq Files'
           /\ \A f \in Files : file'[f] = file[f] /\ f # Len(file) + 1
           /\ Len(file) + 1 \in Files' /\ Len(file) + 1 # 0
  <1> DEFINE new == [version |-> 0, synced |-> FALSE]
  <1>1. file \in Seq(Contents)
    BY DEF TypeOK
  <1>2. 0 \in 0..MaxOps
    BY DEF Bounds
  <1>3. FALSE \in BOOLEAN
    BY Zenon
  <1>4. new \in Contents
    BY <1>2, <1>3 DEF Contents
  <1> HIDE DEF new
  <1>5. file' = Append(file, new)
    BY DEF new
  <1>6. file' \in Seq(Contents)
    BY <1>1, <1>4, <1>5
  <1>7. Len(file') = Len(file) + 1 /\ Len(file) \in Nat
    BY <1>1, <1>4, <1>5
  <1>8. Files' = 1..(Len(file) + 1)
    BY <1>7 DEF Files
  <1>9. \A f \in Files : file'[f] = file[f] /\ f # Len(file) + 1
    BY <1>1, <1>4, <1>5 DEF Files
  <1> QED  BY <1>6, <1>7, <1>8, <1>9 DEF Files

\* Writing a file or syncing it changes that file only.
LEMMA FileChanged ==
    ASSUME TypeOK, NEW f \in Files, NEW c \in Contents, file' = [file EXCEPT ![f] = c]
    PROVE  /\ file' \in Seq(Contents)
           /\ Files' = Files
           /\ file'[f] = c
           /\ \A g \in Files : g # f => file'[g] = file[g]
  <1>1. file \in Seq(Contents)
    BY DEF TypeOK
  <1>2. file' \in Seq(Contents) /\ Len(file') = Len(file)
    BY <1>1 DEF Files
  <1> QED  BY <1>1, <1>2 DEF Files

-----------------------------------------------------------------------------
(* The writer: save and remove *)

\* What the parts other than the writer's rest on has not changed.
Others == <<reader, locker, holds, stops>>

\* The writer begins an operation, or gives one up.
LEMMA BeginFailStep ==
    ASSUME StoreInvariant, Bounds, save \/ remove \/ Fails
    PROVE  StoreInvariant'
  <1> USE DEF StoreInvariant
  <1>1. /\ UNCHANGED <<dir, past, file, acked>> /\ UNCHANGED Others
        /\ writer.version <= writer'.version
        /\ writer'.step \in {"idle", "clear", "unlink"}
        /\ writer'.step # "idle" => writer'.version > writer.version
        /\ writer' \in [step : WriterSteps, version : 0..MaxOps]
    BY DEF save, remove, Begin, Fails, Rest, Others, TypeOK, WriterSteps, Bounds
  <1>2. TypeOK'
    BY <1>1 DEF TypeOK, Files, Others
  <1>3. NamedOnce' /\ RecordDurable'
    BY <1>1 DEF NamedOnce, RecordDurable, Whole, Files
  <1>4. SavePosition'
    BY <1>1 DEF SavePosition, TypeOK, Bounds
  <1>5. LoadPosition' /\ ReadsWhole' /\ ReadsNoOlder'
    BY <1>1 DEF LoadPosition, ReadsWhole, ReadsNoOlder, Files, Others
  <1>6. LockPosition' /\ OneHolder'
    BY <1>1 DEF LockPosition, OneHolder, Others
  <1> QED  BY <1>2, <1>3, <1>4, <1>5, <1>6

\* A change of the directory that takes the names of the temporary file or the record
\* away, or gives the record the name of the temporary file.
LEMMA NamesKept ==
    ASSUME TypeOK, NamedOnce, NEW d \in {[dir EXCEPT !["temp"] = 0],
                                         [dir EXCEPT !["record"] = 0],
                                         Renamed(dir["temp"])}
    PROVE  /\ d \in [Names -> {0} \cup Files]
           /\ \A m, n \in Names : d[m] = d[n] /\ d[m] # 0 => m = n
           /\ d["lock"] = dir["lock"]
           /\ d["temp"] \in {0, dir["temp"]}
           /\ d["record"] \in {0, dir["record"], dir["temp"]}
  <1>1. dir \in [Names -> {0} \cup Files]
    BY DEF TypeOK
  <1>2. \A m, n \in Names : dir[m] = dir[n] /\ dir[m] # 0 => m = n
    BY DEF NamedOnce
  <1>3. CASE d = [dir EXCEPT !["temp"] = 0]
    BY <1>1, <1>2, <1>3 DEF Names
  <1>4. CASE d = [dir EXCEPT !["record"] = 0]
    BY <1>1, <1>2, <1>4 DEF Names
  <1>5. CASE d = Renamed(dir["temp"])
    BY <1>1, <1>2, <1>5 DEF Names, Renamed
  <1> QED  BY <1>3, <1>4, <1>5

\* The temporary file is removed and the directory synced.
LEMMA ClearStep ==
    ASSUME StoreInvariant, Bounds, Clear
    PROVE  StoreInvariant'
  <1> USE DEF StoreInvariant
  <1>1. /\ dir' = [dir EXCEPT !["temp"] = 0] /\ past' = {dir'}
        /\ UNCHANGED <<file, acked>> /\ UNCHANGED Others
        /\ writer.step = "clear" /\ writer'.step = "create" /\ writer'.version = writer.version
        /\ writer' \in [step : WriterSteps, version : 0..MaxOps]
    BY DEF Clear, Step, Rest, Others, TypeOK, WriterSteps
  <1>2. /\ dir' \in [Names -> {0} \cup Files]
        /\ \A m, n \in Names : dir'[m] = dir'[n] /\ dir'[m] # 0 => m = n
        /\ dir'["lock"] = dir["lock"]
    BY <1>1, NamesKept
  <1>3. dir'["record"] = dir["record"] /\ dir'["temp"] = 0
    BY <1>1 DEF TypeOK, Names
  <1>4. TypeOK'
    BY <1>1, <1>2 DEF TypeOK, Files, Others
  <1>5. NamedOnce'
    BY <1>1, <1>2 DEF NamedOnce
  <1>6. RecordDurable'
    BY <1>1, <1>3 DEF RecordDurable, NamedOnce, Whole, Files
  <1>7. SavePosition'
    BY <1>1 DEF SavePosition
  <1>8. LoadPosition' /\ ReadsWhole' /\ ReadsNoOlder'
    BY <1>1, <1>2, <1>3 DEF LoadPosition, ReadsWhole, ReadsNoOlder, Files, Others
  <1>9. LockPosition' /\ OneHolder'
    BY <1>1, <1>2 DEF LockPosition, OneHolder, Others
  <1> QED  BY <1>4, <1>5, <1>6, <1>7, <1>8, <1>9

\* The temporary file becomes the record, or the record is removed.
LEMMA PublishStep ==
    ASSUME StoreInvariant, Bounds, Rename \/ Unlink
    PROVE  StoreInvariant'
  <1> USE DEF StoreInvariant
  <1>1. /\ past' = past \cup {dir'} /\ UNCHANGED <<file, acked>> /\ UNCHANGED Others
        /\ writer'.step = "sync" /\ writer'.version = writer.version
        /\ writer.step # "idle"
        /\ writer' \in [step : WriterSteps, version : 0..MaxOps]
    BY DEF Rename, Unlink, Step, Changes, Rest, Others, TypeOK, WriterSteps
  <1>2. \/ writer.step = "rename" /\ dir' = Renamed(dir["temp"])
        \/ dir' = [dir EXCEPT !["record"] = 0]
    BY DEF Rename, Unlink, Step, Changes
  <1>3. /\ dir' \in [Names -> {0} \cup Files]
        /\ \A m, n \in Names : dir'[m] = dir'[n] /\ dir'[m] # 0 => m = n
        /\ dir'["lock"] = dir["lock"] /\ dir'["temp"] \in {0, dir["temp"]}
    <2>1. dir' \in {[dir EXCEPT !["temp"] = 0], [dir EXCEPT !["record"] = 0], Renamed(dir["temp"])}
      BY <1>2
    <2> QED  BY <2>1, NamesKept
  <1>4. dir'["record"] = 0 \/ (dir'["record"] = dir["temp"] /\ writer.step = "rename")
    BY <1>2 DEF TypeOK, Names, Renamed
  <1>5. dir'["record"] # 0 => Whole(dir["temp"]) /\ file[dir["temp"]].version = writer.version
    <2>1. SUFFICES ASSUME writer.step = "rename"
                   PROVE  Whole(dir["temp"]) /\ file[dir["temp"]].version = writer.version
      BY <1>4
    <2>2. /\ dir["temp"] # 0 /\ file[dir["temp"]].version = writer.version
          /\ file[dir["temp"]].synced /\ writer.version > acked
      BY <2>1 DEF SavePosition
    <2>3. dir["temp"] \in Files /\ acked \in Nat /\ writer.version \in Nat
      BY <2>2 DEF TypeOK, Names, Bounds
    <2> QED  BY <2>2, <2>3 DEF Whole
  <1>6. TypeOK'
    BY <1>1, <1>3 DEF TypeOK, Files, Others
  <1>7. NamedOnce'
    BY <1>1, <1>3 DEF NamedOnce
  <1>8. RecordDurable'
    BY <1>1, <1>4, <1>5 DEF RecordDurable, Whole, Files
  <1>9. SavePosition'
    BY <1>1, <1>4, <1>5 DEF SavePosition
  <1>10. LoadPosition' /\ ReadsWhole' /\ ReadsNoOlder'
    <2>1. reader.file \in Files => reader.file # 0
      BY DEF Files, TypeOK
    <2> QED  BY <1>1, <1>3, <2>1 DEF LoadPosition, ReadsWhole, ReadsNoOlder, Files, Others
  <1>11. LockPosition' /\ OneHolder'
    BY <1>1, <1>3 DEF LockPosition, OneHolder, Others
  <1> QED  BY <1>6, <1>7, <1>8, <1>9, <1>10, <1>11

\* The temporary file is written or synced.
LEMMA FillStep ==
    ASSUME StoreInvariant, Bounds, WriteAll \/ Fsync
    PROVE  StoreInvariant'
  <1> USE DEF StoreInvariant
  <1> DEFINE t == dir["temp"]
             c == IF writer.step = "write" THEN [file[t] EXCEPT !.version = writer.version]
                                           ELSE [file[t] EXCEPT !.synced = TRUE]
  <1>1. /\ UNCHANGED <<dir, past, acked>> /\ UNCHANGED Others
        /\ writer' \in [step : WriterSteps, version : 0..MaxOps]
        /\ writer'.version = writer.version
        /\ \/ writer.step = "write" /\ writer'.step = "fsync"
           \/ writer.step = "fsync" /\ writer'.step = "rename"
        /\ file' = [file EXCEPT ![t] = c]
    BY DEF WriteAll, Fsync, Fsyncs, Step, Rest, Others, TypeOK, WriterSteps
  <1>2. t # 0 /\ (\A d \in past : d["record"] # t)
    BY <1>1 DEF SavePosition
  <1>3. t \in Files
    BY <1>2 DEF TypeOK, Names
  <1>4. writer.version \in 0..MaxOps /\ file[t] \in Contents
    BY <1>3, FileType DEF TypeOK
  <1>5. c \in Contents
    <2>1. TRUE \in BOOLEAN
      BY Zenon
    <2> QED  BY <1>4, <2>1 DEF Contents
  <1>6. /\ c.version = IF writer.step = "write" THEN writer.version ELSE file[t].version
        /\ writer.step # "write" => c.synced
    BY <1>4 DEF Contents
  <1> HIDE DEF c, t
  <1>7. /\ file' \in Seq(Contents) /\ Files' = Files /\ file'[t] = c
        /\ \A g \in Files : g # t => file'[g] = file[g]
    BY <1>1, <1>3, <1>5, FileChanged
  <1>8. TypeOK'
    BY <1>1, <1>7 DEF TypeOK, Others
  <1>9. NamedOnce'
    BY <1>1 DEF NamedOnce
  <1>10. RecordDurable'
    BY <1>1, <1>2, <1>7 DEF RecordDurable, Whole
  <1>11. SavePosition'
    BY <1>1, <1>2, <1>6, <1>7 DEF SavePosition, t
  <1>12. LoadPosition' /\ ReadsWhole' /\ ReadsNoOlder'
    BY <1>1, <1>7 DEF LoadPosition, ReadsWhole, ReadsNoOlder, Others, t
  <1>13. LockPosition' /\ OneHolder'
    BY <1>1 DEF LockPosition, OneHolder, Others
  <1> QED  BY <1>8, <1>9, <1>10, <1>11, <1>12, <1>13

\* The directory is synced and the operation returns.
LEMMA SyncStep ==
    ASSUME StoreInvariant, Bounds, Sync
    PROVE  StoreInvariant'
  <1> USE DEF StoreInvariant
  <1>1. /\ past' = {dir} /\ UNCHANGED <<dir, file>> /\ UNCHANGED Others
        /\ writer.step = "sync" /\ writer'.step = "idle" /\ writer'.version = writer.version
        /\ acked' = writer.version
        /\ writer' \in [step : WriterSteps, version : 0..MaxOps]
    BY DEF Sync, DirSyncs, Syncs, Step, Rest, Others, TypeOK, WriterSteps
  <1>2. writer.version \in Nat
    BY DEF TypeOK, Bounds
  <1>3. TypeOK'
    BY <1>1 DEF TypeOK, Files, Others
  <1>4. NamedOnce'
    BY <1>1 DEF NamedOnce
  <1>5. RecordDurable'
    BY <1>1, <1>2 DEF RecordDurable, NamedOnce, SavePosition, Whole, Files
  <1>6. SavePosition'
    BY <1>1, <1>2 DEF SavePosition
  <1>7. LoadPosition' /\ ReadsWhole' /\ ReadsNoOlder'
    BY <1>1 DEF LoadPosition, ReadsWhole, ReadsNoOlder, Files, Others
  <1>8. LockPosition' /\ OneHolder'
    BY <1>1 DEF LockPosition, OneHolder, Others
  <1> QED  BY <1>3, <1>4, <1>5, <1>6, <1>7, <1>8

-----------------------------------------------------------------------------
(* The reader: load *)

\* A step of the reader changes nothing else.
LEMMA LoadStep ==
    ASSUME StoreInvariant, Bounds, load \/ Open \/ Stat \/ Read
    PROVE  StoreInvariant'
  <1> USE DEF StoreInvariant
  <1>1. UNCHANGED <<dir, past, file, writer, acked, locker, holds, stops>>
    BY DEF load, Open, Stat, Read, ReaderRest
  <1>2. NamedOnce' /\ RecordDurable' /\ SavePosition' /\ LockPosition' /\ OneHolder'
    BY <1>1 DEF NamedOnce, RecordDurable, Whole, Files, SavePosition, LockPosition, OneHolder
  <1>3. SUFFICES reader' \in Lookups /\ LoadPosition' /\ ReadsWhole' /\ ReadsNoOlder'
    BY <1>1, <1>2 DEF TypeOK, Files
  <1> USE DEF TypeOK, Lookups, ReaderSteps, LoadPosition, ReadsWhole, ReadsNoOlder
  <1>4. Idle \in Lookups
    BY DEF Bounds, Idle
  <1>5. CASE load
    BY <1>5 DEF load, Bounds
  <1>6. CASE Open
    <2>1. CASE dir["record"] = 0 \/ reader.tries = 3
      BY <1>4, <1>6, <2>1 DEF Open, Idle
    <2>2. CASE ~(dir["record"] = 0 \/ reader.tries = 3)
      <3>1. reader' = [reader EXCEPT !.step = "stat", !.file = dir["record"], !.tries = @ + 1]
        BY <1>6, <2>2 DEF Open
      <3>2. Whole(dir["record"]) /\ dir["record"] \in Files
        BY <2>2 DEF RecordDurable, NamedOnce, Whole
      <3>3. dir["record"] # dir["temp"] /\ dir["record"] # dir["lock"]
        BY <2>2 DEF NamedOnce, Names
      <3>4. dir["record"] \in Nat
        BY <3>2, FileType
      <3>5. reader.tries + 1 \in 0..3
        BY <2>2
      <3>6. reader' \in Lookups
        BY <3>1, <3>4, <3>5
      <3> QED  BY <1>1, <3>1, <3>2, <3>3, <3>6 DEF Whole, Files
    <2> QED  BY <2>1, <2>2
  <1>7. CASE Stat
    <2>1. CASE Retired(reader.file)
      BY <1>7, <2>1 DEF Stat
    <2>2. CASE ~Retired(reader.file)
      <3>1. reader.step = "stat" /\ reader' = [reader EXCEPT !.step = "read", !.floor = acked]
        BY <1>7, <2>2 DEF Stat
      <3>2. PICK n \in Names : dir[n] = reader.file
        BY <2>2, RetiredHasNoName
      <3>3. dir["record"] = reader.file /\ reader.file \in Files /\ reader.file # 0
        BY <3>1, <3>2, FileType DEF Names
      <3>4. file[reader.file].version >= acked
        BY <3>3 DEF RecordDurable, NamedOnce, Whole
      <3>5. reader' \in Lookups
        BY <3>1
      <3> QED  BY <1>1, <3>1, <3>3, <3>4, <3>5 DEF Files
    <2> QED  BY <2>1, <2>2
  <1>8. CASE Read
    <2>1. reader.step = "read"
          /\ reader' = [reader EXCEPT !.step = "got", !.version = file[reader.file].version]
      BY <1>8 DEF Read
    <2>2. file[reader.file].version \in 0..MaxOps
      BY <2>1, FileType
    <2> QED  BY <2>1, <2>2
  <1> QED  BY <1>5, <1>6, <1>7, <1>8

-----------------------------------------------------------------------------
(* The lockers, and the creation of files *)

\* A file is created under a name that is free.
LEMMA CreateKeeps ==
    ASSUME StoreInvariant, Bounds, NEW n \in {"temp", "lock"}, Creates(n),
           UNCHANGED <<acked, reader, stops>>
    PROVE  /\ file' \in Seq(Contents) /\ Files \subseteq Files'
           /\ dir' \in [Names -> {0} \cup Files'] /\ past' \in SUBSET [Names -> {0} \cup Files']
           /\ dir'[n] # 0 /\ dir'[n] \notin Files
           /\ \A m \in Names \ {n} : dir'[m] = dir[m]
           /\ \A d \in past' : d = dir' \/ d \in past
           /\ \A f \in Files : file'[f] = file[f]
           /\ NamedOnce' /\ RecordDurable' /\ LoadPosition' /\ ReadsWhole' /\ ReadsNoOlder'
  <1> USE DEF StoreInvariant
  <1> DEFINE new == Len(file) + 1
  <1>1. /\ dir[n] = 0 /\ dir' = [dir EXCEPT ![n] = new] /\ past' = past \cup {dir'}
        /\ file' = Append(file, [version |-> 0, synced |-> FALSE])
    BY DEF Creates, Changes
  <1>2. /\ file' \in Seq(Contents) /\ Files \subseteq Files'
        /\ \A f \in Files : file'[f] = file[f] /\ f # new
        /\ new \in Files' /\ new # 0
    BY <1>1, FileMade
  <1> HIDE DEF new
  <1>3. n \in Names /\ dir \in [Names -> {0} \cup Files]
    BY DEF TypeOK, Names
  <1>4. dir'[n] = new /\ \A m \in Names \ {n} : dir'[m] = dir[m]
    BY <1>1, <1>3
  <1>5. dir' \in [Names -> {0} \cup Files'] /\ past' \in SUBSET [Names -> {0} \cup Files']
    <2>1. {0} \cup Files \subseteq {0} \cup Files' /\ new \in {0} \cup Files'
      BY <1>2
    <2>2. dir' \in [Names -> {0} \cup Files']
      BY <1>1, <1>3, <2>1
    <2>3. past \in SUBSET [Names -> {0} \cup Files]
      BY DEF TypeOK
    <2>4. \A d \in [Names -> {0} \cup Files] : d \in [Names -> {0} \cup Files']
      BY <2>1
    <2> QED  BY <1>1, <2>2, <2>3, <2>4
  <1>6. \A k, m \in Names : dir'[k] = dir'[m] /\ dir'[k] # 0 => k = m
    <2>1. \A k \in Names : dir[k] # new
      BY <1>2, <1>3
    <2>2. \A k, m \in Names : dir[k] = dir[m] /\ dir[k] # 0 => k = m
      BY DEF NamedOnce
    <2> QED  BY <1>4, <2>1, <2>2
  <1>7. NamedOnce'
    BY <1>1, <1>6 DEF NamedOnce
  <1>8. \A d \in past' : d["record"] = dir["record"] \/ d \in past
    BY <1>1, <1>4 DEF Names
  <1>9. \A f : Whole(f) => Whole(f)'
    BY <1>2 DEF Whole
  <1>10. RecordDurable'
    BY <1>8, <1>9 DEF RecordDurable, NamedOnce
  <1>11. LoadPosition' /\ ReadsWhole' /\ ReadsNoOlder'
    BY <1>2, <1>4 DEF LoadPosition, ReadsWhole, ReadsNoOlder, Names
  <1> QED  BY <1>1, <1>2, <1>4, <1>5, <1>7, <1>10, <1>11

\* The writer creates its temporary file.
LEMMA CreateStep ==
    ASSUME StoreInvariant, Bounds, Create
    PROVE  StoreInvariant'
  <1> USE DEF StoreInvariant
  <1>1. /\ Creates("temp") /\ UNCHANGED acked /\ UNCHANGED Others
        /\ writer.step = "create" /\ writer'.step = "write" /\ writer'.version = writer.version
        /\ writer' \in [step : WriterSteps, version : 0..MaxOps]
    BY DEF Create, Step, Rest, Others, TypeOK, WriterSteps
  <1>2. UNCHANGED <<acked, reader, stops>>
    BY <1>1 DEF Others
  <1>3. /\ file' \in Seq(Contents) /\ Files \subseteq Files'
        /\ dir' \in [Names -> {0} \cup Files'] /\ past' \in SUBSET [Names -> {0} \cup Files']
        /\ dir'["temp"] # 0 /\ dir'["temp"] \notin Files
        /\ \A m \in Names \ {"temp"} : dir'[m] = dir[m]
        /\ \A d \in past' : d = dir' \/ d \in past
        /\ NamedOnce' /\ RecordDurable' /\ LoadPosition' /\ ReadsWhole' /\ ReadsNoOlder'
    BY <1>1, <1>2, CreateKeeps
  <1>4. TypeOK'
    BY <1>1, <1>3 DEF TypeOK, Others
  <1>5. \A d \in past' : d["record"] # dir'["temp"]
    BY <1>3 DEF TypeOK, Names
  <1>6. SavePosition'
    BY <1>1, <1>3, <1>5 DEF SavePosition
  <1>7. LockPosition' /\ OneHolder'
    BY <1>1, <1>3 DEF LockPosition, OneHolder, Others, Names
  <1> QED  BY <1>3, <1>4, <1>6, <1>7

\* A locker that found no lock file creates it.
LEMMA MakesLockStep ==
    ASSUME StoreInvariant, Bounds, NEW p \in Lockers, MakesLock(p)
    PROVE  StoreInvariant'
  <1> USE DEF StoreInvariant
  <1>1. /\ Creates("lock") /\ UNCHANGED <<writer, acked, reader, stops, holds>>
        /\ locker[p] = "create" /\ locker' = [locker EXCEPT ![p] = "flock"]
    BY DEF MakesLock, CreatesLock, LockerGoes, LockerRest
  <1>2. /\ file' \in Seq(Contents) /\ Files \subseteq Files'
        /\ dir' \in [Names -> {0} \cup Files'] /\ past' \in SUBSET [Names -> {0} \cup Files']
        /\ dir'["lock"] # 0 /\ dir'["lock"] \notin Files
        /\ \A m \in Names \ {"lock"} : dir'[m] = dir[m]
        /\ \A d \in past' : d = dir' \/ d \in past
        /\ \A f \in Files : file'[f] = file[f]
        /\ NamedOnce' /\ RecordDurable' /\ LoadPosition' /\ ReadsWhole' /\ ReadsNoOlder'
    BY <1>1, CreateKeeps
  <1>3. dir["lock"] = 0 /\ locker \in [Lockers -> {"idle", "create", "flock", "held"}]
    BY <1>1 DEF Creates, TypeOK
  <1>4. TypeOK'
    BY <1>1, <1>2, <1>3 DEF TypeOK
  <1>5. /\ dir'["temp"] = dir["temp"] /\ dir'["record"] = dir["record"]
        /\ \A d \in past' : d["record"] = dir["record"] \/ d \in past
    BY <1>2 DEF Names
  <1>6. \A d \in past \cup {dir} : d["record"] # 0 => d["record"] \in Files
    BY DEF TypeOK, Names
  <1>7. SavePosition'
    <2>1. dir["temp"] \in {0} \cup Files
      BY DEF TypeOK, Names
    <2> QED  BY <1>1, <1>2, <1>5, <1>6, <2>1 DEF SavePosition, NamedOnce
  <1>8. LockPosition' /\ OneHolder'
    BY <1>1, <1>2, <1>3 DEF LockPosition, OneHolder
  <1> QED  BY <1>2, <1>4, <1>7, <1>8

\* A locker looks for the file, asks for it or gives it back.
LEMMA LockStep ==
    ASSUME StoreInvariant, Bounds, NEW p \in Lockers,
           lock(p) \/ FindsLock(p) \/ Flock(p) \/ Unlock(p)
    PROVE  StoreInvariant'
  <1> USE DEF StoreInvariant
  <1>1. UNCHANGED <<dir, past, file>> /\ UNCHANGED <<writer, acked, reader, stops>>
    BY DEF lock, FindsLock, Flock, Unlock, LockerRest
  <1>2. /\ NamedOnce' /\ RecordDurable' /\ SavePosition' /\ LoadPosition'
        /\ ReadsWhole' /\ ReadsNoOlder'
    BY <1>1 DEF NamedOnce, RecordDurable, Whole, Files, SavePosition, LoadPosition,
                ReadsWhole, ReadsNoOlder
  <1>3. /\ locker \in [Lockers -> {"idle", "create", "flock", "held"}]
        /\ holds \in [Lockers -> {0} \cup Files] /\ dir["lock"] \in {0} \cup Files
    BY DEF TypeOK, Names
  <1>4. PICK s \in {"idle", "flock", "create", "held"} :
            /\ locker' = [locker EXCEPT ![p] = s]
            /\ holds' = [holds EXCEPT ![p] = IF s = "held" THEN dir["lock"] ELSE 0]
            /\ s \in {"flock", "held"} => dir["lock"] # 0
            /\ s = "held" => \A q \in Lockers : locker[q] # "held"
    <2>1. CASE lock(p) \/ FindsLock(p)
      <3>1. locker[p] # "held" /\ holds' = holds
        BY <2>1 DEF lock, FindsLock
      <3>2. holds' = [holds EXCEPT ![p] = 0]
        BY <1>3, <3>1 DEF LockPosition
      <3> QED  BY <2>1, <3>2 DEF lock, FindsLock, LockerGoes
    <2>2. CASE Unlock(p)
      BY <2>2 DEF Unlock, LockerGoes
    <2>3. CASE Flock(p)
      <3>1. locker[p] = "flock" /\ dir["lock"] # 0
        BY <2>3 DEF Flock, LockPosition
      <3>2. CASE \E q \in Lockers : holds[q] = dir["lock"]
        <4>1. holds' = [holds EXCEPT ![p] = 0]
          BY <1>3, <2>3, <3>1, <3>2 DEF Flock, LockPosition
        <4> QED  BY <2>3, <3>2, <4>1 DEF Flock, LockerGoes
      <3>3. CASE ~\E q \in Lockers : holds[q] = dir["lock"]
        <4>1. \A q \in Lockers : locker[q] # "held"
          BY <3>3 DEF LockPosition
        <4> QED  BY <2>3, <3>1, <3>3, <4>1 DEF Flock, LockerGoes
      <3> QED  BY <3>2, <3>3
    <2> QED  BY <2>1, <2>2, <2>3
  <1>5. TypeOK'
    BY <1>1, <1>3, <1>4 DEF TypeOK, Files
  <1>6. LockPosition' /\ OneHolder'
    BY <1>1, <1>3, <1>4 DEF LockPosition, OneHolder
  <1> QED  BY <1>2, <1>5, <1>6

-----------------------------------------------------------------------------
(* The computer *)

\* A stop leaves the directory at some point since it was last synced, and what was
\* synced of the files.
LEMMA StopKeeps ==
    ASSUME StoreInvariant, Bounds, Stop
    PROVE  /\ file' \in Seq(Contents) /\ Files' = Files
           /\ \A f \in Files : file[f].synced => file'[f] = file[f]
           /\ dir' \in past /\ past' = {dir'}
  <1> USE DEF StoreInvariant
  <1>1. PICK lost \in SUBSET {f \in Files : ~file[f].synced} :
            file' = [f \in Files |-> IF f \in lost THEN [file[f] EXCEPT !.version = 0]
                                                   ELSE file[f]]
    BY DEF Stop
  <1>2. \A f \in Files : file[f] \in Contents
    BY FileType
  <1>3. \A f \in Files : [file[f] EXCEPT !.version = 0] \in Contents
    BY <1>2 DEF Contents, Bounds
  <1>4. Len(file) \in Nat /\ Files = 1..Len(file)
    BY DEF TypeOK, Files
  <1>5. \A f \in 1..Len(file) : file'[f] \in Contents
    BY <1>1, <1>2, <1>3, <1>4
  <1>6. file' = [f \in 1..Len(file) |-> file'[f]]
    BY <1>1, <1>4
  <1>7. file' \in Seq(Contents) /\ Len(file') = Len(file)
    BY <1>4, <1>5, <1>6
  <1>8. \A f \in Files : file[f].synced => file'[f] = file[f]
    BY <1>1
  <1> QED  BY <1>7, <1>8 DEF Stop, Files

LEMMA StopStep ==
    ASSUME StoreInvariant, Bounds, Stop
    PROVE  StoreInvariant'
  <1> USE DEF StoreInvariant
  <1>1. /\ file' \in Seq(Contents) /\ Files' = Files
        /\ \A f \in Files : file[f].synced => file'[f] = file[f]
        /\ dir' \in past /\ past' = {dir'}
    BY StopKeeps
  <1>2. /\ writer' = [writer EXCEPT !.step = "idle"] /\ reader' = Idle
        /\ locker' = [p \in Lockers |-> "idle"] /\ holds' = [p \in Lockers |-> 0]
        /\ acked' = acked /\ stops' \in 0..MaxStops
    BY DEF Stop, TypeOK, Bounds
  <1>3. Idle \in Lookups /\ Idle.step = "idle"
    BY DEF Idle, Lookups, ReaderSteps, Bounds
  <1>4. writer' \in [step : WriterSteps, version : 0..MaxOps] /\ writer'.step = "idle"
        /\ writer'.version = writer.version
    BY <1>2 DEF TypeOK, WriterSteps
  <1>5. TypeOK'
    BY <1>1, <1>2, <1>3, <1>4 DEF TypeOK
  <1>6. NamedOnce'
    BY <1>1 DEF NamedOnce
  <1>7. RecordDurable'
    BY <1>1, <1>2 DEF RecordDurable, Whole
  <1>8. SavePosition'
    BY <1>2, <1>4 DEF SavePosition
  <1>9. LoadPosition' /\ ReadsWhole' /\ ReadsNoOlder'
    BY <1>2, <1>3 DEF LoadPosition, ReadsWhole, ReadsNoOlder
  <1>10. LockPosition' /\ OneHolder'
    BY <1>2 DEF LockPosition, OneHolder
  <1> QED  BY <1>5, <1>6, <1>7, <1>8, <1>9, <1>10

-----------------------------------------------------------------------------
(* The invariant *)

LEMMA StoreInit ==
    ASSUME Init
    PROVE  StoreInvariant
  <1>1. Bounds
    BY HasBounds
  <1>2. file = <<>> /\ <<>> \in Seq(Contents)
    BY DEF Init
  <1>3. Len(file) = 0 /\ Files = {}
    BY <1>2 DEF Files
  <1>4. TypeOK
    BY <1>1, <1>2, <1>3
       DEF Init, TypeOK, Bounds, Names, WriterSteps, ReaderSteps, Lookups
  <1>5. NamedOnce /\ RecordDurable
    BY DEF Init, NamedOnce, RecordDurable, Names
  <1>6. SavePosition /\ LoadPosition /\ LockPosition
    BY DEF Init, SavePosition, LoadPosition, LockPosition
  <1>7. ReadsWhole /\ ReadsNoOlder /\ OneHolder
    BY DEF Init, ReadsWhole, ReadsNoOlder, OneHolder
  <1> QED  BY <1>4, <1>5, <1>6, <1>7 DEF StoreInvariant

LEMMA StoreStep ==
    ASSUME StoreInvariant, [Next]_vars
    PROVE  StoreInvariant'
  <1>1. Bounds
    BY HasBounds
  <1>2. CASE UNCHANGED vars
    BY <1>2 DEF vars, StoreInvariant, TypeOK, NamedOnce, RecordDurable, Whole, SavePosition,
                LoadPosition, LockPosition, ReadsWhole, ReadsNoOlder, OneHolder, Files
  <1>3. CASE save \/ remove \/ Fails
    BY <1>1, <1>3, BeginFailStep
  <1>4. CASE Clear
    BY <1>1, <1>4, ClearStep
  <1>5. CASE Create
    BY <1>1, <1>5, CreateStep
  <1>6. CASE WriteAll \/ Fsync
    BY <1>1, <1>6, FillStep
  <1>7. CASE Rename \/ Unlink
    BY <1>1, <1>7, PublishStep
  <1>8. CASE Sync
    BY <1>1, <1>8, SyncStep
  <1>9. CASE load \/ Open \/ Stat \/ Read
    BY <1>1, <1>9, LoadStep
  <1>10. CASE Stop
    BY <1>1, <1>10, StopStep
  <1>11. ASSUME NEW p \in Lockers, MakesLock(p)
         PROVE  StoreInvariant'
    BY <1>1, <1>11, MakesLockStep
  <1>12. ASSUME NEW p \in Lockers, lock(p) \/ FindsLock(p) \/ Flock(p) \/ Unlock(p)
         PROVE  StoreInvariant'
    BY <1>1, <1>12, LockStep
  <1> QED
    BY <1>2, <1>3, <1>4, <1>5, <1>6, <1>7, <1>8, <1>9, <1>10, <1>11, <1>12 DEF Next

(* Every record a stop may bring back is whole and current, a load has     *)
(* open what was the record, and the lock has one holder, after any number *)
(* of saves, removals, failures and stops (store.rs).                      *)
THEOREM StoreIsSound == Spec => []StoreInvariant
  <1>1. Init => StoreInvariant
    BY StoreInit
  <1>2. StoreInvariant /\ [Next]_vars => StoreInvariant'
    BY StoreStep
  <1> QED  BY <1>1, <1>2, PTL DEF Spec

(* What a load returns was written whole and is no older than the last     *)
(* operation that had returned when it looked (load, save, remove).        *)
THEOREM LoadsAreWhole == Spec => [](ReadsWhole /\ ReadsNoOlder)
  <1>1. StoreInvariant => ReadsWhole /\ ReadsNoOlder
    BY DEF StoreInvariant
  <1> QED  BY <1>1, StoreIsSound, PTL

(* The updater's lock never has two holders (lock).                        *)
THEOREM LockIsExclusive == Spec => []OneHolder
  <1>1. StoreInvariant => OneHolder
    BY DEF StoreInvariant
  <1> QED  BY <1>1, StoreIsSound, PTL

-----------------------------------------------------------------------------
(* The store implements AtomicRecord *)

\* The record is what it was as long as the files it may be are.
LEMMA RecordKept ==
    ASSUME StoreInvariant,
           \A d \in past : d["record"] # 0 => file'[d["record"]].version = file[d["record"]].version
    PROVE  /\ \A d \in past : Version(d)' = Version(d)
           /\ dir' \in past => Value' = Version(dir')
           /\ dir'["record"] = dir["record"] => Value' = Value
           /\ past' = past => Durable' = Durable
           /\ past' = {dir'} /\ dir'["record"] = dir["record"] => Durable' = {Value}
           /\ past' = past \cup {dir'} => Durable' = Durable \cup {Value'}
           /\ Value \in Durable
  <1>1. dir \in past
    BY DEF StoreInvariant, NamedOnce
  <1>2. \A d \in past : Version(d)' = Version(d)
    BY DEF Version
  <1>3. dir' \in past => Value' = Version(dir')
    BY DEF Value, Version
  <1>4. dir'["record"] = dir["record"] => Value' = Value
    BY <1>1 DEF Value, Version
  <1>5. past' = past => Durable' = Durable
    BY <1>2 DEF Durable
  <1>6. past' = {dir'} /\ dir'["record"] = dir["record"] => Durable' = {Value}
    BY <1>4 DEF Durable, Value
  <1>7. past' = past \cup {dir'} => Durable' = Durable \cup {Value'}
    BY <1>2 DEF Durable, Value
  <1> QED  BY <1>1, <1>2, <1>3, <1>4, <1>5, <1>6, <1>7 DEF Durable, Value

\* A load in progress sees what it has open, as long as nobody writes that file.
LEMMA LoadedKept ==
    ASSUME StoreInvariant, reader' = reader,
           reader.step = "read" => file'[reader.file].version = file[reader.file].version
    PROVE  Loaded' = Loaded
  BY DEF Loaded

\* The calls of the writer: a save or a removal begins, has its effect and returns.
LEMMA WriterImplements ==
    ASSUME StoreInvariant,
           \/ save \/ remove \/ Clear \/ WriteAll \/ Fsync
           \/ Rename \/ Unlink \/ Sync \/ Fails
    PROVE  Record!Next \/ UNCHANGED <<Value, Durable, Pending, acked, Loaded, Holders>>
  <1>0. UNCHANGED <<reader, locker, holds, stops>>
    BY DEF save, remove, Begin, Clear, WriteAll, Fsync, Rename, Unlink, Sync, Fails, Rest
  <1>1. Holders' = Holders
    BY <1>0 DEF Holders
  <1>2. writer \in [step : WriterSteps, version : 0..MaxOps]
    BY DEF StoreInvariant, TypeOK
  <1>3. CASE save \/ remove \/ Clear \/ Rename \/ Unlink \/ Sync \/ Fails
    <2>1. file' = file
      BY <1>3 DEF save, remove, Begin, Clear, Rename, Unlink, Sync, Fails
    <2>2. Loaded' = Loaded
      BY <1>0, <2>1, LoadedKept
    <2>3. /\ \A d \in past : Version(d)' = Version(d)
          /\ dir'["record"] = dir["record"] => Value' = Value
          /\ past' = past => Durable' = Durable
          /\ past' = {dir'} /\ dir'["record"] = dir["record"] => Durable' = {Value}
          /\ past' = past \cup {dir'} => Durable' = Durable \cup {Value'}
      BY <2>1, RecordKept
    <2>4. CASE save
      <3>1. /\ writer.step = "idle" /\ writer.version + 1 \in 0..MaxOps
            /\ writer' = [step |-> "clear", version |-> writer.version + 1]
            /\ dir' = dir /\ past' = past /\ acked' = acked
        BY <1>2, <2>4, HasBounds DEF Bounds, save, Begin
      <3>2. Pending = Record!Idle /\ Pending' = [step |-> "begun", target |-> writer.version + 1]
        BY <3>1 DEF Pending, Record!Idle
      <3>3. Record!Begin(writer.version + 1)
        BY <1>1, <2>2, <2>3, <3>1, <3>2 DEF Record!Begin
      <3> QED  BY <3>1, <3>3 DEF Record!Next
    <2>5. CASE remove
      <3>1. /\ writer.step = "idle" /\ 0 \in 0..MaxOps
            /\ writer' = [step |-> "unlink", version |-> writer.version + 1]
            /\ dir' = dir /\ past' = past /\ acked' = acked
        BY <1>2, <2>5, HasBounds DEF Bounds, remove, Begin
      <3>2. Pending = Record!Idle /\ Pending' = [step |-> "begun", target |-> 0]
        BY <3>1 DEF Pending, Record!Idle
      <3>3. Record!Begin(0)
        BY <1>1, <2>2, <2>3, <3>1, <3>2 DEF Record!Begin
      <3> QED  BY <3>1, <3>3 DEF Record!Next
    <2>6. CASE Clear
      <3>1. /\ writer.step = "clear" /\ writer' = [writer EXCEPT !.step = "create"]
            /\ dir' = [dir EXCEPT !["temp"] = 0] /\ past' = {dir'} /\ acked' = acked
        BY <2>6 DEF Clear, Step
      <3>2. Pending' = Pending
        BY <1>2, <3>1 DEF Pending
      <3>3. dir'["record"] = dir["record"]
        BY <3>1 DEF StoreInvariant, TypeOK, Names
      <3>4. Record!Settle
        BY <1>1, <2>2, <2>3, <3>1, <3>2, <3>3 DEF Record!Settle
      <3> QED  BY <3>4 DEF Record!Next
    <2>7. CASE Rename
      <3>1. /\ writer.step = "rename" /\ writer' = [writer EXCEPT !.step = "sync"]
            /\ dir' = Renamed(dir["temp"]) /\ past' = past \cup {dir'} /\ acked' = acked
        BY <2>7 DEF Rename, Step, Changes
      <3>2. dir["temp"] # 0 /\ file[dir["temp"]].version = writer.version
        BY <3>1 DEF StoreInvariant, SavePosition
      <3>3. dir'["record"] = dir["temp"]
        BY <3>1 DEF StoreInvariant, TypeOK, Names, Renamed
      <3>4. Value' = writer.version
        BY <2>1, <3>2, <3>3 DEF Value, Version
      <3>5. Pending = [step |-> "begun", target |-> writer.version]
        BY <3>1 DEF Pending
      <3>6. Pending' = [step |-> "applied", target |-> writer.version]
        BY <1>2, <3>1, <3>4 DEF Pending
      <3>7. Record!Apply
        BY <1>1, <2>2, <2>3, <3>1, <3>4, <3>5, <3>6 DEF Record!Apply
      <3> QED  BY <3>7 DEF Record!Next
    <2>8. CASE Unlink
      <3>1. /\ writer.step = "unlink" /\ writer' = [writer EXCEPT !.step = "sync"]
            /\ dir' = [dir EXCEPT !["record"] = 0] /\ past' = past \cup {dir'} /\ acked' = acked
        BY <2>8 DEF Unlink, Step, Changes
      <3>2. dir'["record"] = 0
        BY <3>1 DEF StoreInvariant, TypeOK, Names
      <3>3. Value' = 0
        BY <3>2 DEF Value, Version
      <3>4. Pending = [step |-> "begun", target |-> 0]
        BY <3>1 DEF Pending
      <3>5. Pending' = [step |-> "applied", target |-> 0]
        BY <1>2, <3>1, <3>3 DEF Pending
      <3>6. Record!Apply
        BY <1>1, <2>2, <2>3, <3>1, <3>3, <3>4, <3>5 DEF Record!Apply
      <3> QED  BY <3>6 DEF Record!Next
    <2>9. CASE Sync
      <3>1. /\ writer.step = "sync" /\ writer' = [writer EXCEPT !.step = "idle"]
            /\ dir' = dir /\ past' = {dir'} /\ acked' = writer.version
        BY <2>9 DEF Sync, DirSyncs, Syncs, Step
      <3>2. Pending = [step |-> "applied", target |-> Value] /\ Pending' = Record!Idle
        BY <1>2, <3>1 DEF Pending, Record!Idle
      <3>3. acked' > acked
        BY <1>2, <3>1 DEF StoreInvariant, TypeOK, SavePosition
      <3>4. Record!Return
        BY <1>1, <2>2, <2>3, <3>1, <3>2, <3>3 DEF Record!Return
      <3> QED  BY <3>4 DEF Record!Next
    <2>10. CASE Fails
      <3>1. /\ writer' = [writer EXCEPT !.step = "idle"]
            /\ dir' = dir /\ past' = past /\ acked' = acked
        BY <2>10 DEF Fails
      <3>2. Pending' = Record!Idle
        BY <1>2, <3>1 DEF Pending, Record!Idle
      <3>3. Record!Fail
        BY <1>1, <2>2, <2>3, <3>1, <3>2 DEF Record!Fail
      <3> QED  BY <3>3 DEF Record!Next
    <2> QED  BY <1>3, <2>4, <2>5, <2>6, <2>7, <2>8, <2>9, <2>10
  <1>4. CASE WriteAll \/ Fsync
    <2>1. /\ dir' = dir /\ past' = past /\ acked' = acked
          /\ \/ writer.step = "write" /\ writer' = [writer EXCEPT !.step = "fsync"]
             \/ writer.step = "fsync" /\ writer' = [writer EXCEPT !.step = "rename"]
          /\ \E c : file' = [file EXCEPT ![dir["temp"]] = c]
      BY <1>4 DEF WriteAll, Fsync, Fsyncs, Step
    <2>2. dir["temp"] # 0 /\ \A d \in past : d["record"] # dir["temp"]
      BY <2>1 DEF StoreInvariant, SavePosition
    <2>3. \A f : f # dir["temp"] => file'[f] = file[f]
      BY <2>1
    <2>4. reader.step = "read" => file'[reader.file] = file[reader.file]
      BY <2>3 DEF StoreInvariant, LoadPosition
    <2>5. Loaded' = Loaded
      BY <1>0, <2>4, LoadedKept
    <2>6. Value' = Value /\ Durable' = Durable
      <3>1. \A d \in past : d["record"] # 0 =>
                file'[d["record"]].version = file[d["record"]].version
        BY <2>2, <2>3
      <3> QED  BY <2>1, <3>1, RecordKept
    <2>7. Pending' = Pending
      BY <1>2, <2>1 DEF Pending
    <2> QED  BY <1>1, <2>1, <2>5, <2>6, <2>7
  <1> QED  BY <1>3, <1>4

\* A load takes the record when it finds the file it opened still has its name.
LEMMA LoadImplements ==
    ASSUME StoreInvariant, load \/ Open \/ Stat \/ Read
    PROVE  Record!Next \/ UNCHANGED <<Value, Durable, Pending, acked, Loaded, Holders>>
  <1>1. UNCHANGED <<dir, past, file, writer, acked, locker, holds, stops>>
    BY DEF load, Open, Stat, Read, ReaderRest
  <1>2. UNCHANGED <<Value, Durable, Pending, acked, Holders>>
    BY <1>1 DEF Value, Durable, Version, Pending, Holders
  <1>3. reader \in Lookups
    BY DEF StoreInvariant, TypeOK
  <1>4. CASE load
    <2>1. reader'.step = "open"
      BY <1>4 DEF load
    <2>2. Loaded' = 0
      BY <2>1 DEF Loaded
    <2>3. Record!Forget
      BY <1>2, <2>2 DEF Record!Forget
    <2> QED  BY <2>3 DEF Record!Next
  <1>5. CASE Open
    <2>1. reader.step = "open" /\ reader'.step \in {"idle", "stat"}
      BY <1>3, <1>5 DEF Open, Idle, Lookups
    <2>2. Loaded = 0 /\ Loaded' = 0
      BY <2>1 DEF Loaded
    <2> QED  BY <1>2, <2>2
  <1>6. CASE Stat
    <2>1. CASE Retired(reader.file)
      <3>1. reader.step = "stat" /\ reader'.step = "open"
        BY <1>3, <1>6, <2>1 DEF Stat, Lookups
      <3>2. Loaded = 0 /\ Loaded' = 0
        BY <3>1 DEF Loaded
      <3> QED  BY <1>2, <3>2
    <2>2. CASE ~Retired(reader.file)
      <3>1. reader.step = "stat" /\ reader'.step = "read" /\ reader'.file = reader.file
        BY <1>3, <1>6, <2>2 DEF Stat, Lookups
      <3>2. PICK n \in Names : dir[n] = reader.file
        BY <2>2, RetiredHasNoName
      <3>3. dir["record"] = reader.file /\ reader.file # 0
        BY <3>1, <3>2, FileType DEF Names, StoreInvariant, LoadPosition
      <3>4. Loaded = 0 /\ Loaded' = Value
        BY <1>1, <3>1, <3>3 DEF Loaded, Value, Version
      <3>5. Record!Load
        BY <1>2, <3>4 DEF Record!Load
      <3> QED  BY <3>5 DEF Record!Next
    <2> QED  BY <2>1, <2>2
  <1>7. CASE Read
    <2>1. /\ reader.step = "read" /\ reader'.step = "got"
          /\ reader'.version = file[reader.file].version
      BY <1>3, <1>7 DEF Read, Lookups
    <2>2. Loaded' = Loaded
      BY <2>1 DEF Loaded
    <2> QED  BY <1>2, <2>2
  <1> QED  BY <1>4, <1>5, <1>6, <1>7

\* A file that is created is neither the record nor what a load has open.
LEMMA CreateImplements ==
    ASSUME StoreInvariant, NEW n \in {"temp", "lock"}, Creates(n), reader' = reader
    PROVE  UNCHANGED <<Value, Durable, Loaded>>
  <1>1. dir' = [dir EXCEPT ![n] = Len(file) + 1] /\ past' = past \cup {dir'}
    BY DEF Creates, Changes
  <1>2. \A f \in Files : file'[f] = file[f]
    BY HasBounds, FileMade DEF Creates, StoreInvariant
  <1>3. \A d \in past : d["record"] # 0 => file'[d["record"]].version = file[d["record"]].version
    BY <1>2 DEF StoreInvariant, RecordDurable, Whole
  <1>4. dir'["record"] = dir["record"]
    BY <1>1 DEF StoreInvariant, TypeOK, Names
  <1>5. Value' = Value /\ Durable' = Durable \cup {Value'} /\ Value \in Durable
    BY <1>1, <1>3, <1>4, RecordKept
  <1>6. Loaded' = Loaded
    BY <1>2, LoadedKept DEF StoreInvariant, LoadPosition
  <1> QED  BY <1>5, <1>6

\* The lockers: whoever gets the lock acquires it, whoever has it releases it.
LEMMA LockImplements ==
    ASSUME StoreInvariant, NEW p \in Lockers,
           lock(p) \/ MakesLock(p) \/ FindsLock(p) \/ Flock(p) \/ Unlock(p)
    PROVE  Record!Next \/ UNCHANGED <<Value, Durable, Pending, acked, Loaded, Holders>>
  <1>1. UNCHANGED <<writer, acked, reader, stops>>
    BY DEF lock, MakesLock, FindsLock, Flock, Unlock, LockerRest
  <1>2. UNCHANGED <<Value, Durable, Loaded>>
    <2>1. CASE MakesLock(p)
      BY <1>1, <2>1, CreateImplements DEF MakesLock, CreatesLock
    <2>2. CASE UNCHANGED <<dir, past, file>>
      BY <1>1, <2>2 DEF Value, Durable, Version, Loaded
    <2> QED  BY <2>1, <2>2 DEF lock, FindsLock, Flock, Unlock
  <1>3. Pending' = Pending
    BY <1>1, <1>2 DEF Pending
  <1>4. locker \in [Lockers -> {"idle", "create", "flock", "held"}]
    BY DEF StoreInvariant, TypeOK
  <1>5. CASE lock(p) \/ MakesLock(p) \/ FindsLock(p)
    <2>1. locker[p] # "held" /\ \E s : s # "held" /\ locker' = [locker EXCEPT ![p] = s]
      BY <1>5 DEF lock, MakesLock, FindsLock, LockerGoes
    <2>2. Holders' = Holders
      BY <1>4, <2>1 DEF Holders
    <2> QED  BY <1>1, <1>2, <1>3, <2>2
  <1>6. CASE Flock(p)
    <2>1. locker[p] = "flock" /\ dir["lock"] # 0
      BY <1>6 DEF Flock, StoreInvariant, LockPosition
    <2>2. CASE \E q \in Lockers : holds[q] = dir["lock"]
      <3>1. locker' = [locker EXCEPT ![p] = "idle"]
        BY <1>6, <2>2 DEF Flock, LockerGoes
      <3>2. Holders' = Holders
        BY <1>4, <2>1, <3>1 DEF Holders
      <3> QED  BY <1>1, <1>2, <1>3, <3>2
    <2>3. CASE ~\E q \in Lockers : holds[q] = dir["lock"]
      <3>1. locker' = [locker EXCEPT ![p] = "held"]
        BY <1>6, <2>3 DEF Flock, LockerGoes
      <3>2. \A q \in Lockers : locker[q] # "held"
        BY <2>3 DEF StoreInvariant, LockPosition
      <3>3. Holders = {} /\ Holders' = {p}
        BY <1>4, <3>1, <3>2 DEF Holders
      <3>4. Record!Acquire(p)
        BY <1>1, <1>2, <1>3, <3>3 DEF Record!Acquire
      <3> QED  BY <3>4 DEF Record!Next
    <2> QED  BY <2>2, <2>3
  <1>7. CASE Unlock(p)
    <2>1. locker[p] = "held" /\ locker' = [locker EXCEPT ![p] = "idle"]
      BY <1>7 DEF Unlock, LockerGoes
    <2>2. Holders' = {}
      BY <1>4, <2>1 DEF Holders, StoreInvariant, OneHolder
    <2>3. Record!Release
      BY <1>1, <1>2, <1>3, <2>2 DEF Record!Release
    <2> QED  BY <2>3 DEF Record!Next
  <1> QED  BY <1>5, <1>6, <1>7

\* A stop leaves a record of those since the last sync.
LEMMA StopImplements ==
    ASSUME StoreInvariant, Stop
    PROVE  Record!Next
  <1>1. /\ \A f \in Files : file[f].synced => file'[f] = file[f]
        /\ dir' \in past /\ past' = {dir'}
    BY HasBounds, StopKeeps
  <1>2. \A d \in past : d["record"] # 0 => file'[d["record"]].version = file[d["record"]].version
    BY <1>1 DEF StoreInvariant, RecordDurable, Whole
  <1>3. Value' = Version(dir')
    BY <1>1, <1>2, RecordKept
  <1>4. Value' \in Durable /\ Durable' = {Value'}
    BY <1>1, <1>3 DEF Durable, Value
  <1>5. Pending' = Record!Idle
    <2>1. writer'.step = "idle"
      BY DEF Stop, StoreInvariant, TypeOK
    <2> QED  BY <2>1 DEF Pending, Record!Idle
  <1>6. Loaded' = 0
    BY DEF Stop, Idle, Loaded
  <1>7. Holders' = {}
    BY DEF Stop, Holders
  <1>8. acked' = acked
    BY DEF Stop
  <1>9. Record!Stop
    BY <1>4, <1>5, <1>6, <1>7, <1>8 DEF Record!Stop
  <1> QED  BY <1>9 DEF Record!Next

(* The calls of save, remove, load and lock, cut anywhere by each other,   *)
(* by failures and by stops of the computer, amount to one step each of    *)
(* AtomicRecord, which is what the other modules take the store for.       *)
THEOREM StoreImplementsRecord == Spec => RecordSpec
  <1>1. Init => Record!Init
    <2>1. SUFFICES ASSUME Init
                   PROVE  Record!Init
      OBVIOUS
    <2>2. dir["record"] = 0 /\ past = {dir}
      BY <2>1 DEF Init, Names
    <2>3. Value = 0 /\ Durable = {0}
      BY <2>2 DEF Value, Durable, Version
    <2>4. Pending = Record!Idle
      BY <2>1 DEF Init, Pending, Record!Idle
    <2>5. Loaded = 0
      BY <2>1 DEF Init, Loaded
    <2>6. Holders = {}
      BY <2>1 DEF Init, Holders
    <2> QED  BY <2>1, <2>3, <2>4, <2>5, <2>6 DEF Init, Record!Init
  <1>2. StoreInvariant /\ [Next]_vars
            => [Record!Next]_<<Value, Durable, Pending, acked, Loaded, Holders>>
    <2>1. SUFFICES ASSUME StoreInvariant, [Next]_vars
                   PROVE  Record!Next \/ UNCHANGED <<Value, Durable, Pending, acked, Loaded, Holders>>
      OBVIOUS
    <2>2. CASE UNCHANGED vars
      BY <2>2 DEF vars, Value, Durable, Version, Pending, Loaded, Holders
    <2>3. CASE \/ save \/ remove \/ Clear \/ WriteAll \/ Fsync
               \/ Rename \/ Unlink \/ Sync \/ Fails
      BY <2>1, <2>3, WriterImplements
    <2>4. CASE Create
      <3>1. UNCHANGED <<Value, Durable, Loaded>> /\ Holders' = Holders
        BY <2>1, <2>4, CreateImplements DEF Create, Rest, Holders
      <3>2. writer.step = "create" /\ writer' = [writer EXCEPT !.step = "write"]
        BY <2>4 DEF Create, Step
      <3>3. Pending' = Pending
        BY <2>1, <3>2 DEF Pending, StoreInvariant, TypeOK
      <3>4. acked' = acked
        BY <2>4 DEF Create
      <3> QED  BY <3>1, <3>3, <3>4
    <2>5. CASE load \/ Open \/ Stat \/ Read
      BY <2>1, <2>5, LoadImplements
    <2>6. CASE Stop
      BY <2>1, <2>6, StopImplements
    <2>7. ASSUME NEW p \in Lockers,
                 lock(p) \/ MakesLock(p) \/ FindsLock(p) \/ Flock(p) \/ Unlock(p)
          PROVE  Record!Next \/ UNCHANGED <<Value, Durable, Pending, acked, Loaded, Holders>>
      BY <2>1, <2>7, LockImplements
    <2> QED  BY <2>1, <2>2, <2>3, <2>4, <2>5, <2>6, <2>7 DEF Next
  <1> QED  BY <1>1, <1>2, StoreIsSound, PTL DEF Spec, RecordSpec, Record!Spec, Record!vars
=============================================================================
