------------------------ MODULE LayoutPackage_proofs ------------------------
(***************************************************************************)
(* Proofs about LayoutPackage, for any sequence of exports that differ and *)
(* any number of deaths of the packer: a package that the launcher would   *)
(* reuse is that of the source as it is now; the tile cache holds what the *)
(* source has; the overview conserves areas; what a viewport load returns  *)
(* and what a click finds is what the source draws.                        *)
(*                                                                         *)
(* The argument of the first: the manifest has the fingerprint of an       *)
(* export that was, so that a new export always makes it stale             *)
(* (KnownExport).  A rebuild that was not asked for begins with a stale    *)
(* manifest, and it stays stale until the packer writes another, when the  *)
(* files are there (Building).  Each later part begins with its own.       *)
(***************************************************************************)
EXTENDS MCLayoutPackage, PackageReader_proofs

PackerSteps == {"hierarchy", "geometry", "clear", "detail", "index", "overview", "rest", "manifest"}
Rewriting == {"detail", "index", "overview", "rest", "manifest"}

Types ==
    /\ version \in Exports
    /\ packer \in [step : PackerSteps \cup {"idle", "spawned"}, forced : BOOLEAN,
                   hier : Exports, geo : Exports, raced : BOOLEAN]

\* The manifest was written for this export or for an earlier one.
KnownExport ==
    HasFile(disk, "manifest") =>
        \E v \in 1..version : disk.manifest.fingerprint = Fingerprint(Sources[v])

\* Unless an export came meanwhile, the packer has read the source as it is now.
ReadsNow ==
    ~packer.raced =>
        /\ packer.step \in PackerSteps \ {"hierarchy"} => packer.hier = version
        /\ packer.step \in Rewriting \cup {"clear"} => packer.geo = version

\* The files the packer has written so far.
Written ==
    CASE packer.step = "detail"   -> {}
      [] packer.step = "index"    -> {"shard", "large"}
      [] packer.step = "overview" -> {"shard", "large", "index"}
      [] packer.step = "rest"     -> {"shard", "large", "index", "overview", "pyramid"}
      [] OTHER                    -> PackageNames

\* Beside the manifest the disk has these files of a package, and no other.
HasOf(names, files) ==
    /\ DOMAIN disk \ {"manifest"} = names \cap DOMAIN files
    /\ \A f \in names \cap DOMAIN files : disk[f] = files[f]

Building ==
    packer.step \in Rewriting => HasOf(Written, Packed[packer.hier][packer.geo])

\* What was begun without being asked for began with a stale manifest.
BegunStale == packer.step \in PackerSteps /\ ~packer.forced => ~Fresh

\* Where nothing has been cleared yet, what the check would reuse is current.
Sound ==
    packer.step \notin Rewriting /\ Fresh /\ ~raced /\ ~torn => Shows(version)

Inv == Types /\ KnownExport /\ ReadsNow /\ Building /\ BegunStale /\ Sound

LEMMA NamesOfPackages ==
    ASSUME NEW h \in Exports, NEW g \in Exports
    PROVE  /\ DOMAIN Packed[h][g] \subseteq PackageNames
           /\ "manifest" \notin DOMAIN Packed[h][g]
  <1>1. Packed[h][g] = PackageFiles(Sources[h], Sources[g])
    BY DEF Packed
  <1>2. DOMAIN PackageFiles(Sources[h], Sources[g]) \subseteq PackageNames
    BY Zenon DEF PackageFiles, FilesOf
  <1> QED  BY <1>1, <1>2 DEF PackageNames

LEMMA InitInv == Init => Inv
  <1> SUFFICES ASSUME Init PROVE Inv  OBVIOUS
  <1>1. Types
    BY ExportAssumption DEF Init, Types
  <1>2. ~HasFile(disk, "manifest")
    BY DEF Init, HasFile
  <1> QED
    BY <1>1, <1>2 DEF Init, Inv, KnownExport, ReadsNow, Building, BegunStale, Sound, Fresh,
       PackerSteps, Rewriting

\* The manifest that is stale stays so under a new export.
LEMMA ExportMakesStale ==
    ASSUME Inv, Export PROVE ~Fresh'
  <1> SUFFICES ASSUME HasFile(disk, "manifest"), disk.manifest.fingerprint = Fingerprint(Sources[version + 1])
               PROVE  FALSE
    BY DEF Export, Fresh, Source, HasFile
  <1>1. PICK v \in 1..version : disk.manifest.fingerprint = Fingerprint(Sources[v])
    BY DEF Inv, KnownExport
  <1>2. v \in Exports /\ version + 1 \in Exports /\ v # version + 1
    BY ExportAssumption DEF Inv, Types, Export
  <1> QED  BY <1>1, <1>2, ExportAssumption

LEMMA ExportInv ==
    ASSUME Inv, Export PROVE Inv'
  <1>1. ~Fresh'  BY ExportMakesStale
  <1>2. version' = version + 1 /\ version \in 1..Len(Sources) /\ version + 1 \in Exports
    BY ExportAssumption DEF Export, Inv, Types
  <1>3. /\ packer'.step = packer.step /\ packer'.forced = packer.forced
        /\ packer'.hier = packer.hier /\ packer'.geo = packer.geo
        /\ packer'.raced = (packer.raced \/ packer.step \notin {"idle", "spawned"})
    BY DEF Export, Inv, Types
  <1>4. Types'
    BY <1>2 DEF Export, Inv, Types
  <1>5. KnownExport'
    BY <1>2 DEF Export, Inv, KnownExport
  <1>6. ReadsNow'
    BY <1>3 DEF ReadsNow, PackerSteps, Rewriting
  <1>7. Building'
    BY <1>3 DEF Export, Inv, Building, Written, HasOf
  <1> QED  BY <1>1, <1>4, <1>5, <1>6, <1>7 DEF Inv, BegunStale, Sound

\* What the packer does before it touches the package, and the end of a launch.
LEMMA PreparingInv ==
    ASSUME Inv, (\E rebuild \in BOOLEAN : Launch(rebuild)) \/ ReadHierarchy \/ ReadGeometry \/ Open
    PROVE  Inv'
  <1>1. UNCHANGED <<version, disk, raced, torn>>
    BY DEF Launch, ReadHierarchy, ReadGeometry, Open
  <1>2. Types'
    <2>1. CASE \E rebuild \in BOOLEAN : Launch(rebuild)
      BY <2>1 DEF Launch, Step, Inv, Types, PackerSteps, Fresh
    <2>2. CASE ReadHierarchy
      BY <2>2 DEF ReadHierarchy, Inv, Types, PackerSteps
    <2>3. CASE ReadGeometry
      BY <2>3 DEF ReadGeometry, Inv, Types, PackerSteps
    <2>4. CASE Open
      BY <2>4 DEF Open, Step, Inv, Types
    <2> QED  BY <2>1, <2>2, <2>3, <2>4
  <1>3. KnownExport'
    BY <1>1 DEF Inv, KnownExport
  <1>4. packer.step \notin Rewriting /\ packer'.step \notin Rewriting
    BY DEF Launch, ReadHierarchy, ReadGeometry, Open, Step, Inv, Types, Rewriting
  <1>5. ReadsNow'
    BY <1>1 DEF Launch, ReadHierarchy, ReadGeometry, Open, Step, Inv, Types, ReadsNow, PackerSteps,
       Rewriting
  <1>6. Fresh' = Fresh
    BY <1>1 DEF Fresh, Source
  <1>7. BegunStale'
    BY <1>6 DEF Launch, ReadHierarchy, ReadGeometry, Open, Step, Inv, Types, BegunStale, PackerSteps
  <1>8. Shows(version)' <=> Shows(version)
    BY <1>1 DEF Shows, HoldsOnly
  <1> QED
    BY <1>1, <1>2, <1>3, <1>4, <1>5, <1>6, <1>7, <1>8 DEF Inv, Building, Sound

\* The packer clears the package; the manifest stays.
LEMMA ClearInv ==
    ASSUME Inv, ClearDirectories PROVE Inv'
  <1>1. /\ packer'.step = "detail" /\ packer'.forced = packer.forced /\ packer'.raced = packer.raced
        /\ packer'.hier = packer.hier /\ packer'.geo = packer.geo /\ packer.step = "clear"
        /\ version' = version /\ DOMAIN disk' \ {"manifest"} = {}
    BY DEF ClearDirectories, Step, Inv, Types
  <1>2. Types'
    BY DEF ClearDirectories, Step, Inv, Types, PackerSteps
  <1>3. HasFile(disk, "manifest")' <=> HasFile(disk, "manifest")
    BY DEF ClearDirectories, HasFile
  <1>4. HasFile(disk, "manifest") => disk'.manifest = disk.manifest
    BY DEF ClearDirectories, HasFile
  <1>5. KnownExport' /\ (Fresh' => Fresh)
    BY <1>1, <1>3, <1>4 DEF Inv, KnownExport, Fresh, Source
  <1>6. ReadsNow'
    BY <1>1 DEF Inv, ReadsNow, PackerSteps, Rewriting
  <1>7. Building'
    BY <1>1 DEF Building, Written, HasOf
  <1>8. BegunStale'
    BY <1>1, <1>5 DEF Inv, BegunStale, PackerSteps
  <1> QED
    BY <1>1, <1>2, <1>5, <1>6, <1>7, <1>8 DEF Inv, Sound, Rewriting

\* What the packer writes comes to what it has written.
LEMMA FilesAdded ==
    ASSUME NEW files, "manifest" \notin DOMAIN files, NEW old, HasOf(old, files), NEW names,
           disk' = [f \in DOMAIN disk \cup (names \cap DOMAIN files) |->
                       IF f \in names \cap DOMAIN files THEN files[f] ELSE disk[f]],
           NEW all, all = old \cup names
    PROVE  /\ DOMAIN disk' \ {"manifest"} = all \cap DOMAIN files
           /\ \A f \in all \cap DOMAIN files : disk'[f] = files[f]
           /\ "manifest" \in DOMAIN disk' <=> "manifest" \in DOMAIN disk
           /\ "manifest" \in DOMAIN disk => disk'["manifest"] = disk["manifest"]
  BY DEF HasOf

LEMMA WriteInv ==
    ASSUME Inv, WriteDetail \/ WriteIndex \/ WriteOverview \/ WriteRest PROVE Inv'
  <1> DEFINE files == Packed[packer.hier][packer.geo]
             names == CASE packer.step = "detail"   -> {"shard", "large"}
                        [] packer.step = "index"    -> {"index"}
                        [] packer.step = "overview" -> {"overview", "pyramid"}
                        [] packer.step = "rest"     -> {"hierarchy"}
             next == CASE packer.step = "detail"   -> "index"
                       [] packer.step = "index"    -> "overview"
                       [] packer.step = "overview" -> "rest"
                       [] packer.step = "rest"     -> "manifest"
  <1>1. packer.step \in {"detail", "index", "overview", "rest"} /\ Step(next) /\ WriteFiles(names)
    BY DEF WriteDetail, WriteIndex, WriteOverview, WriteRest
  <1>2. next \in {"index", "overview", "rest", "manifest"}
    BY <1>1
  <1>3. /\ packer'.step = next /\ packer'.forced = packer.forced /\ packer'.raced = packer.raced
        /\ packer'.hier = packer.hier /\ packer'.geo = packer.geo
        /\ version' = version
    BY <1>1 DEF Step, WriteFiles, Inv, Types
  <1>4. Types'
    BY <1>1, <1>2 DEF Step, WriteFiles, Inv, Types, PackerSteps
  <1>5. Written' = Written \cup names
    <2> HIDE DEF next
    <2>1. /\ packer.step = "detail" => next = "index"
          /\ packer.step = "index" => next = "overview"
          /\ packer.step = "overview" => next = "rest"
          /\ packer.step = "rest" => next = "manifest"
      BY DEF next
    <2> QED  BY <1>1, <1>3, <2>1 DEF Written, PackageNames
  <1>6. "manifest" \notin DOMAIN files
    BY NamesOfPackages DEF Inv, Types
  <1>7. HasOf(Written, files)
    BY <1>1 DEF Inv, Building, Rewriting
  <1>8. /\ DOMAIN disk' \ {"manifest"} = Written' \cap DOMAIN files
        /\ \A f \in Written' \cap DOMAIN files : disk'[f] = files[f]
        /\ "manifest" \in DOMAIN disk' <=> "manifest" \in DOMAIN disk
        /\ "manifest" \in DOMAIN disk => disk'["manifest"] = disk["manifest"]
    <2> HIDE DEF names, files
    <2>1. disk' = [f \in DOMAIN disk \cup (names \cap DOMAIN files) |->
                      IF f \in names \cap DOMAIN files THEN files[f] ELSE disk[f]]
      BY <1>1 DEF WriteFiles, DiskWith, files
    <2>2. PICK all : all = Written \cup names  OBVIOUS
    <2> QED  BY <1>5, <1>6, <1>7, <2>1, <2>2, FilesAdded
  <1>9. Building'
    BY <1>3, <1>8 DEF Building, HasOf
  <1>10. KnownExport' /\ (Fresh' => Fresh)
    BY <1>3, <1>8 DEF Inv, KnownExport, Fresh, Source, HasFile
  <1>11. ReadsNow'
    BY <1>1, <1>2, <1>3 DEF Inv, ReadsNow, PackerSteps, Rewriting
  <1>12. BegunStale'
    BY <1>1, <1>2, <1>3, <1>10 DEF Inv, BegunStale, PackerSteps
  <1> QED
    BY <1>2, <1>3, <1>4, <1>9, <1>10, <1>11, <1>12 DEF Inv, Sound, Rewriting

\* The manifest comes last; if no export came meanwhile the package is that of the source.
LEMMA ManifestInv ==
    ASSUME Inv, WriteManifest PROVE Inv'
  <1> DEFINE files == Packed[packer.hier][packer.geo]
  <1>1. /\ packer'.step = "spawned" /\ packer.step = "manifest" /\ version' = version
        /\ packer'.raced = packer.raced /\ raced' = packer.raced
        /\ "manifest" \in DOMAIN disk' /\ DOMAIN disk' \ {"manifest"} = DOMAIN disk \ {"manifest"}
        /\ \A f \in DOMAIN disk \ {"manifest"} : disk'[f] = disk[f]
    BY DEF WriteManifest, Step, Inv, Types
  <1>2. disk'.manifest.fingerprint = Fingerprint(Sources[version])
    BY DEF WriteManifest, Source
  <1>3. Types'
    BY DEF WriteManifest, Step, Inv, Types
  <1>4. KnownExport'
    BY <1>1, <1>2, ExportAssumption DEF KnownExport, Inv, Types
  <1>5. ReadsNow' /\ Building' /\ BegunStale'
    BY <1>1 DEF ReadsNow, Building, BegunStale, PackerSteps, Rewriting
  <1>6. ASSUME ~raced' PROVE Shows(version)'
    <2>1. packer.hier = version /\ packer.geo = version /\ version \in Exports
      BY <1>1, <1>6 DEF Inv, Types, ReadsNow, PackerSteps, Rewriting
    <2>2. HasOf(PackageNames, Packed[version][version])
      BY <1>1, <2>1 DEF Inv, Building, Written, Rewriting
    <2>3. DOMAIN Packed[version][version] \subseteq PackageNames
      BY <2>1, NamesOfPackages
    <2>4. "manifest" \notin DOMAIN Packed[version][version]
      BY <2>1, NamesOfPackages
    <2> QED  BY <1>1, <2>2, <2>3, <2>4 DEF HasOf, Shows, HoldsOnly
  <1>7. Sound'
    BY <1>6 DEF Sound
  <1> QED  BY <1>3, <1>4, <1>5, <1>7 DEF Inv

\* A packer that dies on a package that was current leaves it torn, and on another a
\* manifest that is stale.
LEMMA CrashInv ==
    ASSUME Inv, Crash PROVE Inv'
  <1>1. /\ packer'.step = "idle" /\ packer.step \notin {"idle", "spawned"}
        /\ UNCHANGED <<version, disk, raced>>
        /\ torn' = (torn \/ (packer.forced /\ packer.step \notin {"hierarchy", "geometry", "clear"}))
    BY DEF Crash, Step, Inv, Types
  <1>2. Types'
    BY DEF Crash, Step, Inv, Types
  <1>3. KnownExport' /\ Fresh' = Fresh /\ (Shows(version)' <=> Shows(version))
    BY <1>1 DEF Inv, KnownExport, Fresh, Source, Shows, HoldsOnly
  <1>4. ReadsNow' /\ Building' /\ BegunStale'
    BY <1>1 DEF ReadsNow, Building, BegunStale, PackerSteps, Rewriting
  <1>5. Sound'
    <2> SUFFICES ASSUME Fresh, ~raced, ~torn' PROVE Shows(version)
      BY <1>1, <1>3 DEF Sound
    <2>1. packer.step \in PackerSteps
      BY <1>1 DEF Inv, Types
    <2>2. packer.forced
      BY <2>1 DEF Inv, BegunStale
    <2>3. ~torn /\ packer.step \in {"hierarchy", "geometry", "clear"}
      BY <1>1, <2>2
    <2> QED  BY <2>3 DEF Inv, Sound, Rewriting
  <1> QED  BY <1>2, <1>3, <1>4, <1>5 DEF Inv

\* The viewer changes nothing on disk.
LEMMA ReadingInv ==
    ASSUME Inv, UNCHANGED <<version, packer, disk, raced, torn>> PROVE Inv'
  BY DEF Inv, Types, KnownExport, ReadsNow, Building, Written, HasOf, BegunStale, Sound, Fresh, Source,
     Shows, HoldsOnly

LEMMA InvHolds == Inv /\ [Next]_vars => Inv'
  <1> SUFFICES ASSUME Inv, [Next]_vars PROVE Inv'  OBVIOUS
  <1>1. CASE \/ \E v \in Viewports, c \in Capacities : Load(v, c)
             \/ \E p \in Points, c \in Capacities : Query(p, c)
             \/ \E z \in Zooms : Overview(z)
             \/ UNCHANGED vars
    BY <1>1, ReadingInv DEF Load, Query, Overview, vars
  <1> QED
    BY <1>1, ExportInv, PreparingInv, ClearInv, WriteInv, ManifestInv, CrashInv DEF Next

\* However exports come and packers die: a package whose manifest matches the source holds
\* the files of that source, all of them and no other.  What the code gets wrong is excluded by
\* name: an export during the pack, and a rebuild that was asked for and is cut off.
THEOREM CacheCheckStaysSound == Spec => []CacheCheckIsSound
  <1>1. Inv => CacheCheckIsSound
    BY DEF Inv, Sound, CacheCheckIsSound, Rewriting
  <1> QED  BY <1>1, InvHolds, InitInv, PTL DEF Spec

-----------------------------------------------------------------------------
(***************************************************************************)
(* The tile cache of the open package.                                     *)
(***************************************************************************)

\* An index on disk is that of some package.
IsIndex(index) == \E h, g \in Exports : index = Packed[h][g]["index"]
IndexKnown == HasFile(disk, "index") => IsIndex(disk["index"])

\* The cache of the open package is in order and, until the files change under the
\* viewer, coherent with them.
Opened ==
    reader # Closed =>
        /\ DOMAIN reader = {"index", "cache", "large", "pyramid", "world"}
        /\ IsIndex(reader.index)
        /\ reader.cache = [entries |-> reader.cache.entries, order |-> reader.cache.order]
        /\ OrderlyCache(reader.cache, Max(Capacities))
        /\ ~rewritten => CoherentCache(reader.cache, disk, reader.index.tiles)

CacheInv == Inv /\ IndexKnown /\ Opened

LEMMA MostCapacity ==
    Max(Capacities) \in Nat /\ \A c \in Capacities : c \in 0..Max(Capacities)
  <1>1. \E m \in Capacities : \A c \in Capacities : m >= c
    BY CapacityAssumption
  <1>2. Max(Capacities) \in Capacities /\ \A c \in Capacities : Max(Capacities) >= c
    BY <1>1 DEF Max
  <1>3. PICK m \in Nat : m = Max(Capacities)
    BY <1>2, CapacityAssumption
  <1>4. ASSUME NEW c \in Capacities PROVE c \in Nat /\ c <= m
    BY <1>2, <1>3, CapacityAssumption
  <1> QED  BY <1>3, <1>4

\* The entries of an index are as many as the tiles of its package.
LEMMA IndexIs ==
    ASSUME NEW h \in Exports, NEW g \in Exports
    PROVE  LET tiles == DetailTiles(WorldBox(Sources[h]), Dataset(Sources[g]))
               index == Packed[h][g]["index"]
           IN  /\ Len(tiles) \in Nat /\ DOMAIN tiles = 1..Len(tiles)
               /\ Len(index.tiles) = Len(tiles) /\ DOMAIN index.tiles = 1..Len(tiles)
               /\ "index" \in DOMAIN Packed[h][g]
  <1> DEFINE world == WorldBox(Sources[h])
             rects == Dataset(Sources[g])
             tiles == DetailTiles(world, rects)
             large == LargeObjects(world, rects)
             files == FilesOf(Sources[h], world, rects, tiles, large)
             n == Len(tiles)
  <1>1. n \in Nat /\ DOMAIN tiles = 1..n
    BY TileIdsDiffer
  <1>2. Packed[h][g] = files
    BY Zenon DEF Packed, PackageFiles
  <1> HIDE DEF tiles, large, world, rects, n
  <1> DEFINE entry(i) == files["index"].tiles[i]
  <1>3. "index" \in DOMAIN files /\ files["index"].tiles = [i \in DOMAIN tiles |-> entry(i)]
    BY DEF FilesOf, PackageNames
  <1>4. PICK S : \A i \in DOMAIN tiles : entry(i) \in S
    <2>1. \A i \in DOMAIN tiles : entry(i) \in {entry(j) : j \in DOMAIN tiles}  OBVIOUS
    <2> QED  BY <2>1
  <1> HIDE DEF entry
  <1>5. files["index"].tiles \in [1..n -> S]
    BY <1>1, <1>3, <1>4
  <1>6. Len(files["index"].tiles) = n /\ DOMAIN files["index"].tiles = 1..n
    <2> HIDE DEF files
    <2> QED  BY <1>1, <1>5, SeqDef
  <1> QED  BY <1>1, <1>2, <1>3, <1>6 DEF tiles, world, rects, n

\* Reading for a viewport keeps the cache in order.
LEMMA LoadingKeeps ==
    ASSUME IndexKnown, Opened, reader # Closed, NEW viewport, NEW capacity \in Capacities,
           UNCHANGED <<disk, rewritten>>,
           reader' = LoadViewport(disk, reader, viewport, capacity).pkg
    PROVE  IndexKnown' /\ Opened'
  <1> DEFINE index == reader.index
             read == LoadTiles(disk, index.tiles, reader.cache, viewport, capacity)
             most == Max(Capacities)
  <1>1. /\ reader'.index = index /\ reader'.cache = read.cache
        /\ DOMAIN reader' = DOMAIN reader
    BY DEF LoadViewport, Opened
  <1>2. PICK h \in Exports, g \in Exports : index = Packed[h][g]["index"]
    BY DEF Opened, IsIndex
  <1>3. Len(index.tiles) \in Nat /\ DOMAIN index.tiles = 1..Len(index.tiles)
    BY <1>2, IndexIs
  <1>4. most \in Nat /\ capacity \in 0..most
    BY MostCapacity
  <1>5. /\ reader.cache = [entries |-> reader.cache.entries, order |-> reader.cache.order]
        /\ OrderlyCache(reader.cache, most)
        /\ ~rewritten => CoherentCache(reader.cache, disk, index.tiles)
    BY DEF Opened
  <1> HIDE DEF most, index
  <1>6. GoodLoad(read, most, disk, index.tiles, ~rewritten)
    BY <1>3, <1>4, <1>5, LoadTilesKeeps
  <1> HIDE DEF read
  <1>7. /\ reader'.cache = [entries |-> reader'.cache.entries, order |-> reader'.cache.order]
        /\ OrderlyCache(reader'.cache, most)
        /\ ~rewritten => CoherentCache(reader'.cache, disk, index.tiles)
    BY <1>1, <1>6 DEF GoodLoad
  <1>8. IndexKnown'
    BY DEF IndexKnown
  <1>9. Opened'
    BY <1>1, <1>2, <1>7 DEF Opened, IsIndex, most
  <1> QED  BY <1>8, <1>9

LEMMA OpenKeeps ==
    ASSUME CacheInv, Open PROVE IndexKnown' /\ Opened'
  <1>1. disk' = disk
    BY DEF Open
  <1>2. IndexKnown'
    BY <1>1 DEF CacheInv, IndexKnown
  <1>3. ASSUME reader' # Closed PROVE Opened'
    <2>1. /\ "index" \in DOMAIN disk
          /\ reader'.index = disk.index /\ reader'.cache = EmptyCache
          /\ DOMAIN reader' = {"index", "cache", "large", "pyramid", "world"}
      BY <1>3 DEF Open
    <2>2. IsIndex(reader'.index)
      BY <2>1 DEF CacheInv, IndexKnown, HasFile
    <2>3. Len(EmptyCache.order) = 0 /\ 0 <= Max(Capacities)
      BY MostCapacity DEF EmptyCache
    <2>4. DOMAIN EmptyCache.entries = {} /\ EmptyCache.order = <<>>
      BY DEF EmptyCache
    <2>5. OrderlyCache(EmptyCache, Max(Capacities))
      BY <2>3, <2>4, OrderEmpty DEF OrderlyCache
    <2>6. CoherentCache(EmptyCache, disk, reader'.index.tiles)
      BY <2>4 DEF CoherentCache
    <2>7. EmptyCache = [entries |-> EmptyCache.entries, order |-> EmptyCache.order]
      BY DEF EmptyCache
    <2> QED  BY <1>1, <2>1, <2>2, <2>5, <2>6, <2>7 DEF Opened
  <1> QED  BY <1>2, <1>3 DEF Opened

\* What the packer does to the files it does under the eyes of whatever viewer is open.
LEMMA PackingKeeps ==
    ASSUME CacheInv,
           ClearDirectories \/ WriteDetail \/ WriteIndex \/ WriteOverview \/ WriteRest \/ WriteManifest
    PROVE  IndexKnown' /\ Opened'
  <1>1. reader' = reader /\ rewritten' = (reader # Closed)
    BY DEF ClearDirectories, WriteDetail, WriteIndex, WriteOverview, WriteRest, WriteManifest,
       WriteFiles, FilesChange
  <1>2. Opened'
    BY <1>1 DEF CacheInv, Opened
  <1>3. CASE ClearDirectories
    <2>1. ~HasFile(disk', "index")  BY <1>3 DEF ClearDirectories, HasFile
    <2> QED  BY <1>2, <2>1 DEF IndexKnown
  <1>4. ASSUME NEW names, WriteFiles(names) PROVE IndexKnown'
    <2> DEFINE files == Packed[packer.hier][packer.geo]
    <2>1. disk' = DiskWith(files, names)
      BY <1>4 DEF WriteFiles
    <2>2. packer.hier \in Exports /\ packer.geo \in Exports
      BY DEF CacheInv, Inv, Types
    <2>3. CASE "index" \in names \cap DOMAIN files
      <3>1. disk'["index"] = files["index"]  BY <2>1, <2>3 DEF DiskWith
      <3> QED  BY <2>2, <3>1 DEF IndexKnown, IsIndex
    <2>4. CASE "index" \notin names \cap DOMAIN files
      <3> HIDE DEF files
      <3>1. HasFile(disk', "index") => HasFile(disk, "index") /\ disk'["index"] = disk["index"]
        BY <2>1, <2>4 DEF DiskWith, HasFile
      <3> QED  BY <3>1 DEF CacheInv, IndexKnown, IsIndex
    <2> QED  BY <2>3, <2>4
  <1>5. CASE WriteManifest
    <2>1. HasFile(disk', "index") => HasFile(disk, "index") /\ disk'["index"] = disk["index"]
      BY <1>5 DEF WriteManifest, HasFile
    <2> QED  BY <1>2, <2>1 DEF CacheInv, IndexKnown, IsIndex
  <1> QED  BY <1>2, <1>3, <1>4, <1>5 DEF WriteDetail, WriteIndex, WriteOverview, WriteRest

LEMMA CacheInvHolds == CacheInv /\ [Next]_vars => CacheInv'
  <1> SUFFICES ASSUME CacheInv, [Next]_vars PROVE IndexKnown' /\ Opened'
    BY InvHolds DEF CacheInv
  <1>0. IndexKnown /\ Opened
    BY DEF CacheInv
  <1>1. CASE Export \/ (\E rebuild \in BOOLEAN : Launch(rebuild)) \/ ReadHierarchy \/ ReadGeometry
             \/ Crash \/ UNCHANGED vars
    <2>1. UNCHANGED <<disk, reader, rewritten>>
      BY <1>1 DEF Export, Launch, ReadHierarchy, ReadGeometry, Crash, vars
    <2> QED  BY <1>0, <2>1 DEF IndexKnown, Opened, IsIndex
  <1>2. ASSUME NEW v \in Viewports, NEW c \in Capacities, Load(v, c) PROVE IndexKnown' /\ Opened'
    BY <1>0, <1>2, LoadingKeeps DEF Load
  <1>3. ASSUME NEW p \in Points, NEW c \in Capacities, Query(p, c) PROVE IndexKnown' /\ Opened'
    BY <1>0, <1>3, LoadingKeeps DEF Query
  <1>4. ASSUME NEW z \in Zooms, Overview(z) PROVE IndexKnown' /\ Opened'
    <2>1. /\ reader # Closed /\ UNCHANGED <<disk, rewritten>>
          /\ reader'.index = reader.index /\ reader'.cache = reader.cache
          /\ DOMAIN reader' = DOMAIN reader
      BY <1>4 DEF Overview
    <2> QED  BY <1>0, <2>1 DEF IndexKnown, Opened, IsIndex
  <1> QED
    BY <1>1, <1>2, <1>3, <1>4, OpenKeeps, PackingKeeps DEF Next

\* What an orderly and coherent cache holds of a tile is what the source has there.
LEMMA CoherentHolds ==
    ASSUME CacheInv, reader # Closed, NEW v \in Exports, Steady(v), ~rewritten,
           NEW i \in DOMAIN Tiles[v], Cached(reader.cache, Tiles[v][i].id)
    PROVE  reader.cache.entries[Tiles[v][i].id] = Tiles[v][i].rects
  <1> DEFINE world == WorldBox(Sources[v])
             rects == Dataset(Sources[v])
             tiles == DetailTiles(world, rects)
             large == LargeObjects(world, rects)
             files == FilesOf(Sources[v], world, rects, tiles, large)
             cache == reader.cache
  <1>1. Tiles[v] = tiles /\ Packed[v][v] = files
    BY Zenon DEF Tiles, World, Rects, Packed, PackageFiles
  <1>2. /\ Len(tiles) \in Nat /\ DOMAIN tiles = 1..Len(tiles)
        /\ \A j, k \in DOMAIN tiles : tiles[j].id = tiles[k].id => j = k
    BY TileIdsDiffer
  <1>3. \A k \in DOMAIN tiles : tiles[k].rects \in Seq(Records)
    BY SourceAssumption, DetailTilesTyped, RecordIsBox
  <1>4. DOMAIN files["index"].tiles = DOMAIN tiles
    BY <1>1, IndexIs
  <1>5. /\ {"shard", "index"} \subseteq DOMAIN files
        /\ \A k \in DOMAIN tiles : files["index"].tiles[k].id = tiles[k].id
    <2>1. i \in DOMAIN tiles  BY <1>1
    <2> HIDE DEF tiles, world, rects, large
    <2>2. {"shard", "index"} \subseteq DOMAIN files
      <3>1. tiles # <<>>  BY <2>1
      <3> QED  BY <3>1 DEF FilesOf, PackageNames
    <2>3. ASSUME NEW k \in DOMAIN tiles PROVE files["index"].tiles[k].id = tiles[k].id
      BY ShardIs
    <2> QED  BY <2>2, <2>3
  <1> HIDE DEF files
  <1>6. HasFile(disk, "shard") /\ disk.shard = files["shard"] /\ reader.index = files["index"]
    BY <1>1, <1>5 DEF Steady, Shows, HoldsOnly, HasFile
  <1>7. PICK k \in DOMAIN files["index"].tiles :
          /\ files["index"].tiles[k].id = Tiles[v][i].id
          /\ ReadTile(disk, files["index"].tiles[k])
               = [ok |-> TRUE, rects |-> cache.entries[Tiles[v][i].id]]
    BY <1>6 DEF CacheInv, Opened, CoherentCache, Cached
  <1>8. k = i
    BY <1>1, <1>2, <1>4, <1>5, <1>7
  <1>9. ReadTile(disk, files["index"].tiles[i]) = [ok |-> TRUE, rects |-> tiles[i].rects]
    <2>1. i \in DOMAIN tiles  BY <1>1
    <2> HIDE DEF tiles, world, rects, large
    <2> QED  BY <1>2, <1>3, <1>6, <2>1, ShardHoldsTiles DEF files
  <1>10. [ok |-> TRUE, rects |-> tiles[i].rects]
           = [ok |-> TRUE, rects |-> cache.entries[Tiles[v][i].id]]
    BY <1>7, <1>8, <1>9
  <1> QED  BY <1>1, <1>10

\* However the viewer reads, at whatever capacity and wherever a read fails: the tile cache
\* and its order of use agree, it never has more tiles than the largest capacity, and what it
\* holds of a tile is what the source has there.
THEOREM CacheAlwaysHoldsItsTiles == Spec => []CacheHoldsItsTiles
  <1>1. Init => CacheInv
    BY InitInv DEF Init, CacheInv, IndexKnown, Opened, HasFile
  <1>2. CacheInv => CacheHoldsItsTiles
    <2> SUFFICES ASSUME CacheInv, reader # Closed PROVE CacheHoldsItsTiles
      BY DEF CacheHoldsItsTiles
    <2> DEFINE cache == reader.cache
    <2>1. Orders(cache.order, DOMAIN cache.entries) /\ Len(cache.order) <= Max(Capacities)
      BY DEF CacheInv, Opened, OrderlyCache
    <2>2. Range(cache.order) = DOMAIN cache.entries
      BY <2>1 DEF Orders
    <2>3. Len(cache.order) = Cardinality(DOMAIN cache.entries)
      BY <2>1, OrderCounts
    <2> QED  BY <2>1, <2>2, <2>3, CoherentHolds DEF CacheHoldsItsTiles
  <1> QED  BY <1>1, <1>2, CacheInvHolds, PTL DEF Spec

-----------------------------------------------------------------------------
(***************************************************************************)
(* Sums over finite sets of integers.                                      *)
(***************************************************************************)

LEMMA SmallestSet ==
    ASSUME NEW T, T # {}, \A s \in T : IsFiniteSet(s)
    PROVE  \E s \in T : \A t \in T : Cardinality(s) <= Cardinality(t)
  <1> DEFINE C == {Cardinality(s) : s \in T}
  <1>1. C \subseteq Nat /\ C # {}
    BY FS_CardinalityType
  <1> HIDE DEF C
  <1>2. PICK m \in C : \A k \in C : m <= k
    BY <1>1, Smallest
  <1> QED  BY <1>2 DEF C

\* Without one of its elements a set is smaller.
LEMMA LessOne ==
    ASSUME NEW S, IsFiniteSet(S), NEW x \in S
    PROVE  /\ IsFiniteSet(S \ {x}) /\ Cardinality(S \ {x}) \in Nat
           /\ Cardinality(S \ {x}) < Cardinality(S)
  <1>1. /\ IsFiniteSet(S \ {x})
        /\ Cardinality(S \ {x}) = IF x \in S THEN Cardinality(S) - 1 ELSE Cardinality(S)
    BY FS_RemoveElement, Zenon
  <1>2. Cardinality(S) \in Nat /\ Cardinality(S \ {x}) \in Nat
    BY <1>1, FS_CardinalityType
  <1> QED  BY <1>1, <1>2

First(s) == CHOOSE x \in s : TRUE

LEMMA FirstIs == ASSUME NEW s, s # {} PROVE First(s) \in s
  BY Zenon DEF First

\* F[s] is the sum of f over s.
IsSum(F, f, S) ==
    F = [s \in SUBSET S |-> IF s = {} THEN 0 ELSE f[First(s)] + F[s \ {First(s)}]]

LEMMA SumAgree ==
    ASSUME NEW f, NEW S, NEW T, NEW F, NEW G, IsSum(F, f, S), IsSum(G, f, T),
           NEW v, v \in SUBSET S, v \in SUBSET T, IsFiniteSet(v)
    PROVE  F[v] = G[v]
  <1> DEFINE Bad == {u \in SUBSET v : F[u] # G[u]}
  <1> SUFFICES ASSUME Bad # {} PROVE FALSE  OBVIOUS
  <1>1. PICK u \in Bad : \A w \in Bad : Cardinality(u) <= Cardinality(w)
    <2>1. \A w \in Bad : IsFiniteSet(w)  BY FS_Subset
    <2> HIDE DEF Bad
    <2> QED  BY <2>1, SmallestSet
  <1>2. u \in SUBSET S /\ u \in SUBSET T /\ u \in SUBSET v /\ F[u] # G[u]
    OBVIOUS
  <1>3. /\ F[u] = IF u = {} THEN 0 ELSE f[First(u)] + F[u \ {First(u)}]
        /\ G[u] = IF u = {} THEN 0 ELSE f[First(u)] + G[u \ {First(u)}]
    BY <1>2 DEF IsSum
  <1>4. u # {}
    BY <1>2, <1>3
  <1>5. First(u) \in u /\ IsFiniteSet(u)
    BY <1>2, <1>4, FirstIs, FS_Subset
  <1>6. u \ {First(u)} \notin Bad
    <2>1. Cardinality(u \ {First(u)}) < Cardinality(u) /\ Cardinality(u \ {First(u)}) \in Nat
          /\ Cardinality(u) \in Nat
      BY <1>5, LessOne, FS_CardinalityType
    <2> HIDE DEF Bad
    <2> QED  BY <1>1, <2>1
  <1>7. F[u \ {First(u)}] = G[u \ {First(u)}]
    BY <1>2, <1>6
  <1> QED  BY <1>2, <1>3, <1>7

LEMMA SumExists ==
    ASSUME NEW f, NEW S, IsFiniteSet(S) PROVE \E F : IsSum(F, f, S)
  <1> DEFINE Bad == {u \in SUBSET S : ~ \E F : IsSum(F, f, u)}
  <1> SUFFICES ASSUME Bad # {} PROVE FALSE
    <2>1. S \in SUBSET S  OBVIOUS
    <2> QED  BY <2>1
  <1>1. PICK s \in Bad : \A w \in Bad : Cardinality(s) <= Cardinality(w)
    <2>1. \A w \in Bad : IsFiniteSet(w)  BY FS_Subset
    <2> HIDE DEF Bad
    <2> QED  BY <2>1, SmallestSet
  <1>0. s \in SUBSET S /\ IsFiniteSet(s) /\ ~ \E F : IsSum(F, f, s)
    BY FS_Subset
  <1> DEFINE Of(u) == CHOOSE F : IsSum(F, f, u)
             less(u) == u \ {First(u)}
  <1>2. ASSUME NEW u \in SUBSET s, u # {}
        PROVE  less(u) \in SUBSET s /\ IsFiniteSet(less(u)) /\ IsSum(Of(less(u)), f, less(u))
    <2>1. First(u) \in u /\ IsFiniteSet(u)  BY <1>0, <1>2, FirstIs, FS_Subset
    <2>2. Cardinality(u) <= Cardinality(s) /\ Cardinality(s) \in Nat /\ Cardinality(u) \in Nat
      BY <1>0, <2>1, FS_Subset, FS_CardinalityType
    <2>3. Cardinality(less(u)) < Cardinality(u) /\ Cardinality(less(u)) \in Nat /\ IsFiniteSet(less(u))
      BY <2>1, LessOne
    <2>4. less(u) \notin Bad /\ less(u) \in SUBSET S
      <3>1. ~(Cardinality(s) <= Cardinality(less(u)))  BY <2>2, <2>3
      <3> HIDE DEF less, Bad
      <3>2. less(u) \notin Bad  BY <1>1, <3>1
      <3> QED  BY <1>0, <3>2 DEF less
    <2>5. \E F : IsSum(F, f, less(u))  BY <2>4
    <2> HIDE DEF less
    <2>6. IsSum(Of(less(u)), f, less(u))  BY <2>5, Zenon
    <2> QED  BY <2>3, <2>6 DEF less
  <1> DEFINE G == [u \in SUBSET s |-> IF u = {} THEN 0 ELSE f[First(u)] + Of(less(u))[less(u)]]
  <1>3. ASSUME NEW w \in SUBSET s, IsFiniteSet(w), IsSum(Of(w), f, w) PROVE G[w] = Of(w)[w]
    <2>1. Of(w)[w] = IF w = {} THEN 0 ELSE f[First(w)] + Of(w)[less(w)]
      <3>1. w \in SUBSET w  OBVIOUS
      <3> HIDE DEF Of
      <3> QED  BY <1>3, <3>1 DEF IsSum
    <2>2. w # {} => Of(w)[less(w)] = Of(less(w))[less(w)]
      <3> SUFFICES ASSUME w # {} PROVE Of(w)[less(w)] = Of(less(w))[less(w)]  OBVIOUS
      <3>1. IsFiniteSet(less(w)) /\ IsSum(Of(less(w)), f, less(w))  BY <1>2
      <3>2. less(w) \in SUBSET w /\ less(w) \in SUBSET less(w)  OBVIOUS
      <3> HIDE DEF Of, less
      <3> QED  BY <1>3, <3>1, <3>2, SumAgree
    <2>3. G[w] = IF w = {} THEN 0 ELSE f[First(w)] + Of(less(w))[less(w)]
      OBVIOUS
    <2> HIDE DEF G, Of, less
    <2> QED  BY <2>1, <2>2, <2>3
  <1>4. ASSUME NEW u \in SUBSET s
        PROVE  G[u] = IF u = {} THEN 0 ELSE f[First(u)] + G[less(u)]
    <2>1. u # {} => G[less(u)] = Of(less(u))[less(u)]
      <3> HIDE DEF G, Of, less
      <3> QED  BY <1>2, <1>3
    <2>2. G[u] = IF u = {} THEN 0 ELSE f[First(u)] + Of(less(u))[less(u)]
      OBVIOUS
    <2> HIDE DEF G, Of, less
    <2> QED  BY <2>1, <2>2
  <1>5. IsSum(G, f, s)
    <2>1. G = [u \in SUBSET s |-> IF u = {} THEN 0 ELSE f[First(u)] + G[less(u)]]
      <3>1. G = [u \in SUBSET s |-> G[u]]  OBVIOUS
      <3> HIDE DEF G, less
      <3> QED  BY <1>4, <3>1, Zenon
    <2> HIDE DEF G
    <2> QED  BY <2>1, Zenon DEF IsSum
  <1> QED  BY <1>0, <1>5

LEMMA SumIs ==
    ASSUME NEW f, NEW S, IsFiniteSet(S)
    PROVE  \E F : IsSum(F, f, S) /\ SumFunctionOnSet(f, S) = F[S]
  <1> DEFINE F == CHOOSE g : g = [s \in SUBSET S |-> IF s = {} THEN 0
                    ELSE f[CHOOSE x \in s : TRUE] + g[s \ {CHOOSE x \in s : TRUE}]]
  <1>1. F = [s \in SUBSET S |-> IF s = {} THEN 0
                    ELSE f[CHOOSE x \in s : TRUE] + F[s \ {CHOOSE x \in s : TRUE}]]
    <2>1. \E g : IsSum(g, f, S)
      BY SumExists
    <2> QED  BY <2>1, Zenon DEF IsSum, First
  <1>2. SumFunctionOnSet(f, S) = F[S]
    BY Zenon DEF SumFunctionOnSet, FoldFunctionOnSet, MapThenFoldSet
  <1> HIDE DEF F
  <1>3. IsSum(F, f, S)
    BY <1>1, Zenon DEF IsSum, First
  <1> QED  BY <1>2, <1>3

LEMMA SumNone == ASSUME NEW f PROVE SumFunctionOnSet(f, {}) = 0
  <1>1. IsFiniteSet({})  BY FS_EmptySet
  <1>2. PICK F : IsSum(F, f, {}) /\ SumFunctionOnSet(f, {}) = F[{}]
    BY <1>1, SumIs
  <1>3. {} \in SUBSET {}  OBVIOUS
  <1> QED  BY <1>2, <1>3 DEF IsSum

LEMMA SumFirst ==
    ASSUME NEW f, NEW S, IsFiniteSet(S), S # {}
    PROVE  SumFunctionOnSet(f, S) = f[First(S)] + SumFunctionOnSet(f, S \ {First(S)})
  <1> DEFINE T == S \ {First(S)}
  <1>1. IsFiniteSet(T)  BY FS_Subset
  <1>2. PICK F : IsSum(F, f, S) /\ SumFunctionOnSet(f, S) = F[S]
    BY SumIs
  <1>3. PICK G : IsSum(G, f, T) /\ SumFunctionOnSet(f, T) = G[T]
    BY <1>1, SumIs
  <1>4. S \in SUBSET S /\ T \in SUBSET S /\ T \in SUBSET T  OBVIOUS
  <1>5. F[S] = f[First(S)] + F[T]
    BY <1>2, <1>4 DEF IsSum
  <1> HIDE DEF T
  <1>6. F[T] = G[T]
    BY <1>1, <1>2, <1>3, <1>4, SumAgree
  <1> QED  BY <1>2, <1>3, <1>5, <1>6 DEF T

\* A property of the empty set that each finite set has when it has it without its first
\* element: the argument of the next lemmas, on a least counterexample.
LEMMA SumTyped ==
    ASSUME NEW f, NEW S, IsFiniteSet(S), \A x \in S : f[x] \in Int
    PROVE  SumFunctionOnSet(f, S) \in Int
  <1> DEFINE Bad == {u \in SUBSET S : SumFunctionOnSet(f, u) \notin Int}
  <1> SUFFICES ASSUME Bad # {} PROVE FALSE
    <2>1. S \in SUBSET S  OBVIOUS
    <2> QED  BY <2>1
  <1>1. PICK u \in Bad : \A w \in Bad : Cardinality(u) <= Cardinality(w)
    <2>1. \A w \in Bad : IsFiniteSet(w)  BY FS_Subset
    <2> HIDE DEF Bad
    <2> QED  BY <2>1, SmallestSet
  <1>2. u \in SUBSET S /\ IsFiniteSet(u) /\ SumFunctionOnSet(f, u) \notin Int
    BY FS_Subset
  <1>3. u # {}
    BY <1>2, SumNone
  <1>4. First(u) \in u /\ Cardinality(u \ {First(u)}) < Cardinality(u)
        /\ Cardinality(u \ {First(u)}) \in Nat /\ Cardinality(u) \in Nat
    BY <1>2, <1>3, FirstIs, LessOne, FS_CardinalityType
  <1>5. u \ {First(u)} \notin Bad
    <2> HIDE DEF Bad
    <2> QED  BY <1>1, <1>4
  <1>6. SumFunctionOnSet(f, u \ {First(u)}) \in Int
    BY <1>2, <1>5
  <1>7. f[First(u)] \in Int
    BY <1>2, <1>4
  <1> QED  BY <1>2, <1>3, <1>6, <1>7, SumFirst

IntOn(f, S) == \A x \in S : f[x] \in Int

\* Any element may be taken first.
LEMMA SumOut ==
    ASSUME NEW f, NEW S, IsFiniteSet(S), IntOn(f, S), NEW x \in S
    PROVE  SumFunctionOnSet(f, S) = f[x] + SumFunctionOnSet(f, S \ {x})
  <1>0. \A y \in S : f[y] \in Int
    BY Zenon DEF IntOn
  <1> DEFINE sum(u) == SumFunctionOnSet(f, u)
             Bad == {u \in SUBSET S : \E y \in u : sum(u) # f[y] + sum(u \ {y})}
  <1> SUFFICES ASSUME Bad # {} PROVE FALSE
    <2>1. S \in SUBSET S  OBVIOUS
    <2> QED  BY <2>1
  <1>1. PICK u \in Bad : \A w \in Bad : Cardinality(u) <= Cardinality(w)
    <2>1. \A w \in Bad : IsFiniteSet(w)  BY FS_Subset
    <2> HIDE DEF Bad
    <2> QED  BY <2>1, SmallestSet
  <1>2. u \in SUBSET S /\ IsFiniteSet(u) /\ Cardinality(u) \in Nat
    BY FS_Subset, FS_CardinalityType
  <1>3. PICK y \in u : sum(u) # f[y] + sum(u \ {y})
    OBVIOUS
  <1> DEFINE z == First(u)
  <1>4. z \in u
    BY <1>3, FirstIs
  <1>5. sum(u) = f[z] + sum(u \ {z})
    BY <1>2, <1>3, SumFirst
  <1>6. y # z
    BY <1>3, <1>5
  <1>7. ASSUME NEW a \in u PROVE u \ {a} \notin Bad /\ u \ {a} \in SUBSET S /\ IsFiniteSet(u \ {a})
    <2>1. Cardinality(u \ {a}) < Cardinality(u) /\ Cardinality(u \ {a}) \in Nat /\ IsFiniteSet(u \ {a})
      BY <1>2, LessOne
    <2> HIDE DEF Bad
    <2> QED  BY <1>1, <1>2, <2>1
  <1> HIDE DEF z
  <1>8. sum(u \ {z}) = f[y] + sum((u \ {z}) \ {y})
    BY <1>3, <1>4, <1>6, <1>7
  <1>9. sum(u \ {y}) = f[z] + sum((u \ {y}) \ {z})
    BY <1>3, <1>4, <1>6, <1>7
  <1>10. (u \ {z}) \ {y} = (u \ {y}) \ {z}  OBVIOUS
  <1>11. PICK a \in Int, b \in Int, c \in Int :
           a = f[y] /\ b = f[z] /\ c = sum((u \ {y}) \ {z})
    <2> DEFINE w == (u \ {y}) \ {z}
    <2>1. f[y] \in Int /\ f[z] \in Int  BY <1>0, <1>2, <1>3, <1>4
    <2>2. IsFiniteSet(w) /\ \A d \in w : f[d] \in Int  BY <1>0, <1>2, FS_Subset
    <2> HIDE DEF w
    <2>3. sum(w) \in Int  BY <2>2, SumTyped
    <2> QED  BY <2>1, <2>3 DEF w
  <1>12. sum(u \ {z}) = a + c /\ sum(u \ {y}) = b + c
    BY <1>8, <1>9, <1>10, <1>11
  <1> QED  BY <1>3, <1>5, <1>11, <1>12

LEMMA SumSame ==
    ASSUME NEW f, NEW g, NEW S, IsFiniteSet(S), \A x \in S : f[x] = g[x]
    PROVE  SumFunctionOnSet(f, S) = SumFunctionOnSet(g, S)
  <1> DEFINE Bad == {u \in SUBSET S : SumFunctionOnSet(f, u) # SumFunctionOnSet(g, u)}
  <1> SUFFICES ASSUME Bad # {} PROVE FALSE
    <2>1. S \in SUBSET S  OBVIOUS
    <2> QED  BY <2>1
  <1>1. PICK u \in Bad : \A w \in Bad : Cardinality(u) <= Cardinality(w)
    <2>1. \A w \in Bad : IsFiniteSet(w)  BY FS_Subset
    <2> HIDE DEF Bad
    <2> QED  BY <2>1, SmallestSet
  <1>2. u \in SUBSET S /\ IsFiniteSet(u) /\ SumFunctionOnSet(f, u) # SumFunctionOnSet(g, u)
    BY FS_Subset
  <1>3. u # {}
    BY <1>2, SumNone
  <1>4. First(u) \in u /\ Cardinality(u \ {First(u)}) < Cardinality(u)
        /\ Cardinality(u \ {First(u)}) \in Nat /\ Cardinality(u) \in Nat
    BY <1>2, <1>3, FirstIs, LessOne, FS_CardinalityType
  <1>5. u \ {First(u)} \notin Bad
    <2> HIDE DEF Bad
    <2> QED  BY <1>1, <1>4
  <1>6. SumFunctionOnSet(f, u \ {First(u)}) = SumFunctionOnSet(g, u \ {First(u)})
    BY <1>2, <1>5
  <1>7. f[First(u)] = g[First(u)]
    BY <1>2, <1>4
  <1> QED  BY <1>2, <1>3, <1>6, <1>7, SumFirst

LEMMA SumUnion ==
    ASSUME NEW f, NEW S, IsFiniteSet(S), \A x \in S : f[x] \in Int,
           NEW A \in SUBSET S, NEW B \in SUBSET S, A \cap B = {}
    PROVE  SumFunctionOnSet(f, A \cup B) = SumFunctionOnSet(f, A) + SumFunctionOnSet(f, B)
  <1> DEFINE sum(u) == SumFunctionOnSet(f, u)
             Bad == {u \in SUBSET A : sum(u \cup B) # sum(u) + sum(B)}
  <1> SUFFICES ASSUME Bad # {} PROVE FALSE
    <2>1. A \in SUBSET A  OBVIOUS
    <2> QED  BY <2>1
  <1>0. ASSUME NEW u \in SUBSET S PROVE IsFiniteSet(u) /\ sum(u) \in Int
    <2>1. IsFiniteSet(u)  BY FS_Subset
    <2> QED  BY <2>1, SumTyped
  <1>1. PICK u \in Bad : \A w \in Bad : Cardinality(u) <= Cardinality(w)
    <2>1. \A w \in Bad : IsFiniteSet(w)  BY <1>0
    <2> HIDE DEF Bad
    <2> QED  BY <2>1, SmallestSet
  <1>2. u \in SUBSET A /\ u \in SUBSET S /\ IsFiniteSet(u) /\ Cardinality(u) \in Nat
    BY <1>0, FS_CardinalityType
  <1>3. u # {}
    <2>1. ASSUME u = {} PROVE FALSE
      <3>1. u \cup B = B  BY <2>1
      <3>2. sum(u \cup B) = sum(B) /\ sum(u) = 0  BY <2>1, <3>1, SumNone
      <3>3. sum(B) \in Int  BY <1>0
      <3> QED  BY <3>2, <3>3
    <2> QED  BY <2>1
  <1>4. PICK y : y \in u
    BY <1>3
  <1> DEFINE v == u \ {y}
  <1>5. v \notin Bad /\ v \in SUBSET A /\ v \in SUBSET S
    <2>1. Cardinality(v) < Cardinality(u) /\ Cardinality(v) \in Nat
      BY <1>2, <1>4, LessOne
    <2> HIDE DEF Bad
    <2>2. v \notin Bad  BY <1>1, <1>2, <2>1
    <2> QED  BY <1>2, <2>2
  <1>6. sum(v \cup B) = sum(v) + sum(B)
    BY <1>5
  <1>7. y \in u \cup B /\ (u \cup B) \ {y} = v \cup B /\ u \cup B \in SUBSET S
    BY <1>2, <1>4
  <1>8. sum(u \cup B) = f[y] + sum(v \cup B)
    <2>1. IsFiniteSet(u \cup B) /\ IntOn(f, u \cup B)  BY <1>0, <1>7 DEF IntOn
    <2> HIDE DEF v
    <2> QED  BY <1>7, <2>1, SumOut
  <1>9. sum(u) = f[y] + sum(v)
    <2>1. IntOn(f, u)  BY <1>2 DEF IntOn
    <2> HIDE DEF v
    <2>2. sum(u) = f[y] + sum(u \ {y})  BY <1>2, <1>4, <2>1, SumOut
    <2> QED  BY <2>2 DEF v
  <1>10. sum(v) \in Int /\ sum(B) \in Int /\ f[y] \in Int
    BY <1>0, <1>2, <1>4, <1>5
  <1>11. sum(u \cup B) # sum(u) + sum(B)
    OBVIOUS
  <1> HIDE DEF v, sum, Bad
  <1> QED  BY <1>6, <1>8, <1>9, <1>10, <1>11

\* What the parts with these names make together, and what each of them sums up to.
Joined(P, L) == UNION {P[k] : k \in L}
PartSums(f, P) == [k \in DOMAIN P |-> SumFunctionOnSet(f, P[k])]

Parts(P, K, S) ==
    /\ P \in [K -> SUBSET S]
    /\ \A k, l \in K : k # l => P[k] \cap P[l] = {}
    /\ Joined(P, K) = S

LEMMA SumParts ==
    ASSUME NEW f, NEW S, IsFiniteSet(S), IntOn(f, S), NEW K, IsFiniteSet(K),
           NEW P, Parts(P, K, S)
    PROVE  /\ SumFunctionOnSet(PartSums(f, P), K) = SumFunctionOnSet(f, S)
           /\ \A k \in K : PartSums(f, P)[k] = SumFunctionOnSet(f, P[k])
  <1>0. /\ \A x \in S : f[x] \in Int
        /\ P \in [K -> SUBSET S]
        /\ \A k, l \in K : k # l => P[k] \cap P[l] = {}
        /\ Joined(P, K) = S
    BY Zenon DEF IntOn, Parts
  <1> DEFINE g == PartSums(f, P)
             Bad == {L \in SUBSET K : SumFunctionOnSet(g, L) # SumFunctionOnSet(f, Joined(P, L))}
  <1>3. \A k \in K : g[k] = SumFunctionOnSet(f, P[k])
    BY <1>0 DEF PartSums
  <1> SUFFICES ASSUME Bad # {} PROVE FALSE
    <2>1. K \in SUBSET K /\ Joined(P, K) = S  BY <1>0
    <2> HIDE DEF g
    <2>2. SumFunctionOnSet(g, K) = SumFunctionOnSet(f, S)  BY <2>1
    <2> QED  BY <1>3, <2>2 DEF g
  <1>1. PICK L \in Bad : \A M \in Bad : Cardinality(L) <= Cardinality(M)
    <2>1. \A M \in Bad : IsFiniteSet(M)  BY FS_Subset
    <2> HIDE DEF Bad
    <2> QED  BY <2>1, SmallestSet
  <1>2. /\ L \in SUBSET K /\ IsFiniteSet(L) /\ Cardinality(L) \in Nat
        /\ SumFunctionOnSet(g, L) # SumFunctionOnSet(f, Joined(P, L))
    BY FS_Subset, FS_CardinalityType
  <1>4. ASSUME NEW k \in K PROVE g[k] \in Int
    <2>1. P[k] \in SUBSET S  BY <1>0
    <2>2. IsFiniteSet(P[k]) /\ \A x \in P[k] : f[x] \in Int  BY <1>0, <2>1, FS_Subset
    <2> HIDE DEF g
    <2> QED  BY <1>3, <2>2, SumTyped
  <1> HIDE DEF g
  <1>5. L # {}
    <2>1. ASSUME L = {} PROVE FALSE
      <3>1. Joined(P, L) = {}  BY <2>1 DEF Joined
      <3> QED  BY <1>2, <2>1, <3>1, SumNone
    <2> QED  BY <2>1
  <1>6. PICK k : k \in L
    BY <1>5
  <1> DEFINE M == L \ {k}
  <1>7. M \in SUBSET K /\ IsFiniteSet(M) /\ M \notin Bad
    <2>1. Cardinality(M) < Cardinality(L) /\ Cardinality(M) \in Nat /\ IsFiniteSet(M)
      BY <1>2, <1>6, LessOne
    <2> HIDE DEF Bad
    <2>2. M \notin Bad  BY <1>1, <1>2, <2>1
    <2> QED  BY <1>2, <2>1, <2>2
  <1>8. SumFunctionOnSet(g, M) = SumFunctionOnSet(f, Joined(P, M))
    BY <1>7
  <1>9. SumFunctionOnSet(g, L) = g[k] + SumFunctionOnSet(g, M)
    <2>1. IntOn(g, L)  BY <1>2, <1>4 DEF IntOn
    <2> HIDE DEF M
    <2>2. SumFunctionOnSet(g, L) = g[k] + SumFunctionOnSet(g, L \ {k})
      BY <1>2, <1>6, <2>1, SumOut
    <2> QED  BY <2>2 DEF M
  <1>10. /\ Joined(P, L) = P[k] \cup Joined(P, M) /\ P[k] \cap Joined(P, M) = {}
         /\ P[k] \in SUBSET S /\ Joined(P, M) \in SUBSET S
    <2>1. Joined(P, L) = P[k] \cup Joined(P, M)
      BY <1>6 DEF Joined
    <2>2. ASSUME NEW x \in P[k], x \in Joined(P, M) PROVE FALSE
      <3>1. PICK l \in M : x \in P[l]  BY <2>2 DEF Joined
      <3> QED  BY <1>0, <1>2, <1>6, <2>2, <3>1
    <2>3. P[k] \in SUBSET S  BY <1>0, <1>2, <1>6
    <2>4. Joined(P, M) \in SUBSET S  BY <1>0, <1>7 DEF Joined
    <2> QED  BY <2>1, <2>2, <2>3, <2>4
  <1>11. SumFunctionOnSet(f, Joined(P, L)) = SumFunctionOnSet(f, P[k]) + SumFunctionOnSet(f, Joined(P, M))
    <2> DEFINE A == P[k]
               B == Joined(P, M)
    <2>1. A \in SUBSET S /\ B \in SUBSET S /\ A \cap B = {}
      BY <1>10
    <2> HIDE DEF A, B
    <2>2. SumFunctionOnSet(f, A \cup B) = SumFunctionOnSet(f, A) + SumFunctionOnSet(f, B)
      BY <1>0, <2>1, SumUnion
    <2> QED  BY <1>10, <2>2 DEF A, B
  <1>12. g[k] = SumFunctionOnSet(f, P[k])
    BY <1>2, <1>3, <1>6
  <1> QED  BY <1>2, <1>8, <1>9, <1>11, <1>12

LEMMA SumLast ==
    ASSUME NEW f, NEW a \in Int, NEW b \in Int, a <= b, \A x \in a..b : f[x] \in Int
    PROVE  SumFunctionOnSet(f, a..b) = f[b] + SumFunctionOnSet(f, a..(b - 1))
  <1> DEFINE S == a..b
  <1>1. IsFiniteSet(S) /\ b \in S /\ IntOn(f, S)
    BY FS_Interval DEF IntOn
  <1>2. S \ {b} = a..(b - 1)
    OBVIOUS
  <1> HIDE DEF S
  <1>3. SumFunctionOnSet(f, S) = f[b] + SumFunctionOnSet(f, S \ {b})
    BY <1>1, SumOut
  <1> QED  BY <1>2, <1>3 DEF S

\* p[k] is the sum of the first k values of f after a.
RunsTo(p, f, a, n) ==
    /\ p \in [0..n -> Int] /\ p[0] = 0
    /\ \A i \in 1..n : f[a + i] \in Int /\ p[i] = p[i - 1] + f[a + i]

LEMMA SumRun ==
    ASSUME NEW f, NEW a \in Int, NEW n \in Nat, NEW p, RunsTo(p, f, a, n)
    PROVE  SumFunctionOnSet(f, (a + 1)..(a + n)) = p[n]
  <1>0. /\ p \in [0..n -> Int] /\ p[0] = 0
        /\ \A i \in 1..n : f[a + i] \in Int /\ p[i] = p[i - 1] + f[a + i]
    BY Zenon DEF RunsTo
  <1> DEFINE Bad == {k \in 0..n : SumFunctionOnSet(f, (a + 1)..(a + k)) # p[k]}
  <1> SUFFICES ASSUME Bad # {} PROVE FALSE  OBVIOUS
  <1>1. PICK k \in Bad : \A j \in Bad : k <= j
    <2>1. Bad \subseteq Nat  OBVIOUS
    <2> HIDE DEF Bad
    <2> QED  BY <2>1, Smallest
  <1>2. k \in 0..n /\ SumFunctionOnSet(f, (a + 1)..(a + k)) # p[k]
    OBVIOUS
  <1>3. k # 0
    <2>1. ASSUME k = 0 PROVE FALSE
      <3>1. (a + 1)..(a + k) = {}  BY <2>1
      <3> QED  BY <1>0, <1>2, <2>1, <3>1, SumNone
    <2> QED  BY <2>1
  <1>4. k - 1 \in 0..n /\ k - 1 \notin Bad /\ k \in 1..n
    BY <1>1, <1>3
  <1>5. SumFunctionOnSet(f, (a + 1)..(a + (k - 1))) = p[k - 1]
    BY <1>4
  <1>6. SumFunctionOnSet(f, (a + 1)..(a + k))
          = f[a + k] + SumFunctionOnSet(f, (a + 1)..(a + (k - 1)))
    <2>1. ASSUME NEW x \in (a + 1)..(a + k) PROVE f[x] \in Int
      <3>1. x - a \in 1..n /\ a + (x - a) = x  BY <1>4
      <3> QED  BY <1>0, <3>1
    <2> DEFINE low == a + 1
               high == a + k
    <2>2. low \in Int /\ high \in Int /\ low <= high /\ high - 1 = a + (k - 1)  BY <1>4
    <2>3. \A x \in low..high : f[x] \in Int  BY <2>1
    <2> HIDE DEF low, high
    <2>4. SumFunctionOnSet(f, low..high) = f[high] + SumFunctionOnSet(f, low..(high - 1))
      BY <2>2, <2>3, SumLast
    <2> QED  BY <2>2, <2>4 DEF low, high
  <1>8. SumFunctionOnSet(f, (a + 1)..(a + k)) = f[a + k] + p[k - 1]
    BY <1>5, <1>6
  <1>9. p[k] = p[k - 1] + f[a + k] /\ p[k - 1] \in Int /\ f[a + k] \in Int
    BY <1>0, <1>4
  <1> QED  BY <1>2, <1>8, <1>9

LEMMA SumZeros ==
    ASSUME NEW f, NEW S, IsFiniteSet(S), \A x \in S : f[x] = 0
    PROVE  SumFunctionOnSet(f, S) = 0
  <1> DEFINE Bad == {u \in SUBSET S : SumFunctionOnSet(f, u) # 0}
  <1> SUFFICES ASSUME Bad # {} PROVE FALSE
    <2>1. S \in SUBSET S  OBVIOUS
    <2> QED  BY <2>1
  <1>1. PICK u \in Bad : \A w \in Bad : Cardinality(u) <= Cardinality(w)
    <2>1. \A w \in Bad : IsFiniteSet(w)  BY FS_Subset
    <2> HIDE DEF Bad
    <2> QED  BY <2>1, SmallestSet
  <1>2. u \in SUBSET S /\ IsFiniteSet(u) /\ SumFunctionOnSet(f, u) # 0
    BY FS_Subset
  <1>3. u # {}
    BY <1>2, SumNone
  <1>4. First(u) \in u /\ Cardinality(u \ {First(u)}) < Cardinality(u)
        /\ Cardinality(u \ {First(u)}) \in Nat /\ Cardinality(u) \in Nat
    BY <1>2, <1>3, FirstIs, LessOne, FS_CardinalityType
  <1>5. u \ {First(u)} \notin Bad
    <2> HIDE DEF Bad
    <2> QED  BY <1>1, <1>4
  <1>6. SumFunctionOnSet(f, u \ {First(u)}) = 0 /\ f[First(u)] = 0
    BY <1>2, <1>4, <1>5
  <1> QED  BY <1>2, <1>3, <1>6, SumFirst

\* Only the terms of T matter when the others are 0.
AgreeWhere(f, g, S, T) == \A x \in S : f[x] = IF x \in T THEN g[x] ELSE 0

LEMMA SumWhere ==
    ASSUME NEW f, NEW g, NEW S, IsFiniteSet(S), IntOn(f, S), NEW T \in SUBSET S,
           AgreeWhere(f, g, S, T)
    PROVE  SumFunctionOnSet(f, S) = SumFunctionOnSet(g, T)
  <1>1. T \in SUBSET S /\ S \ T \in SUBSET S /\ T \cap (S \ T) = {} /\ T \cup (S \ T) = S
    OBVIOUS
  <1>0. /\ \A x \in T : f[x] = g[x] /\ x \in S
        /\ \A x \in S \ T : f[x] = 0
    BY DEF AgreeWhere
  <1> DEFINE R == S \ T
  <1>2. \A x \in S : f[x] \in Int  BY DEF IntOn
  <1>3. IsFiniteSet(T) /\ IsFiniteSet(R)  BY <1>1, FS_Subset
  <1>4. SumFunctionOnSet(f, R) = 0  BY <1>0, <1>3, SumZeros
  <1>5. SumFunctionOnSet(f, T) = SumFunctionOnSet(g, T)  BY <1>0, <1>3, SumSame
  <1>6. SumFunctionOnSet(f, T) \in Int  BY <1>2, <1>3, SumTyped
  <1>7. SumFunctionOnSet(f, T \cup R) = SumFunctionOnSet(f, T) + SumFunctionOnSet(f, R)
    <2>1. R \in SUBSET S /\ T \cap R = {}  OBVIOUS
    <2> HIDE DEF R
    <2> QED  BY <1>2, <2>1, SumUnion
  <1>8. T \cup R = S  OBVIOUS
  <1> HIDE DEF R
  <1>9. SumFunctionOnSet(f, S) = SumFunctionOnSet(f, T) + 0  BY <1>4, <1>7, <1>8
  <1> QED  BY <1>5, <1>6, <1>9

\* The same values elsewhere make the same sum.
Shifted(f, g, o, n) == \A x \in 1..n : f[o + x] = g[x]

LEMMA SumShift ==
    ASSUME NEW f, NEW g, NEW o \in Int, NEW n \in Nat, IntOn(g, 1..n), Shifted(f, g, o, n)
    PROVE  SumFunctionOnSet(f, (o + 1)..(o + n)) = SumFunctionOnSet(g, 1..n)
  <1> DEFINE p == [k \in 0..n |-> SumFunctionOnSet(g, 1..k)]
  <1>0. ASSUME NEW k \in 0..n PROVE p[k] = SumFunctionOnSet(g, 1..k) /\ p[k] \in Int
    <2>1. IsFiniteSet(1..k)  BY FS_Interval
    <2>2. \A x \in 1..k : g[x] \in Int  BY DEF IntOn
    <2>3. SumFunctionOnSet(g, 1..k) \in Int  BY <2>1, <2>2, SumTyped
    <2> QED  BY <2>3
  <1>1. p \in [0..n -> Int]
    <2>1. p = [k \in 0..n |-> p[k]]  OBVIOUS
    <2> HIDE DEF p
    <2> QED  BY <1>0, <2>1
  <1> HIDE DEF p
  <1>2. p[0] = 0
    <2>1. 0 \in 0..n /\ 1..0 = {}  OBVIOUS
    <2> QED  BY <1>0, <2>1, SumNone
  <1>3. ASSUME NEW i \in 1..n PROVE f[o + i] \in Int /\ p[i] = p[i - 1] + f[o + i]
    <2>1. i \in 0..n /\ i - 1 \in 0..n /\ g[i] \in Int /\ f[o + i] = g[i] /\ 1 <= i /\ i \in Int
      BY DEF IntOn, Shifted
    <2>2. \A x \in 1..i : g[x] \in Int  BY DEF IntOn
    <2> DEFINE one == 1
    <2>3. one \in Int /\ one <= i /\ one = 1  BY <2>1
    <2> HIDE DEF one
    <2>4. SumFunctionOnSet(g, one..i) = g[i] + SumFunctionOnSet(g, one..(i - 1))
      BY <2>1, <2>2, <2>3, SumLast
    <2>5. p[i] = SumFunctionOnSet(g, 1..i) /\ p[i - 1] = SumFunctionOnSet(g, 1..(i - 1))
          /\ p[i - 1] \in Int
      BY <1>0, <2>1
    <2> QED  BY <2>1, <2>3, <2>4, <2>5
  <1>4. RunsTo(p, f, o, n)
    BY <1>1, <1>2, <1>3, Zenon DEF RunsTo
  <1>5. SumFunctionOnSet(f, (o + 1)..(o + n)) = p[n]
    BY <1>4, SumRun
  <1>6. n \in 0..n  OBVIOUS
  <1> QED  BY <1>0, <1>5, <1>6

-----------------------------------------------------------------------------
(***************************************************************************)
(* The bins of a level of the overview pyramid share out what is drawn.    *)
(***************************************************************************)

LEMMA DivIs ==
    ASSUME NEW a \in Int, NEW u \in Nat \ {0}
    PROVE  /\ a \div u \in Int /\ u * (a \div u) <= a /\ a < u * (a \div u) + u
           /\ a % u \in 0..(u - 1) /\ a = u * (a \div u) + (a % u)
  OBVIOUS

LEMMA MulMono ==
    ASSUME NEW a \in Int, NEW b \in Int, NEW u \in Nat, a <= b PROVE u * a <= u * b
  OBVIOUS

LEMMA DivUnique ==
    ASSUME NEW a \in Int, NEW u \in Nat \ {0}, NEW q \in Int, NEW r \in 0..(u - 1), a = u * q + r
    PROVE  a \div u = q /\ a % u = r
  OBVIOUS

LEMMA DivMono ==
    ASSUME NEW a \in Int, NEW b \in Int, NEW u \in Nat \ {0}, a <= b
    PROVE  a \div u <= b \div u
  OBVIOUS

-----------------------------------------------------------------------------
(***************************************************************************)
(* The pyramid: what a rectangle adds to the bins it touches.              *)
(***************************************************************************)

\* Where a bin ends, in one direction.
BinEnd(origin, units, limit, end, x) ==
    IF x + 1 = limit THEN end ELSE origin + units * (x + 1)

\* The marks that the bins x0..x1 leave on the range from lo to hi.
Mark(lo, hi, origin, units, x0, x1, x) ==
    IF x = x0 THEN lo ELSE IF x = x1 + 1 THEN hi ELSE origin + units * x

LEMMA IndexIsQuotient ==
    ASSUME NEW origin \in Int, NEW end \in Int, origin < end, NEW units \in Nat \ {0},
           NEW limit, limit = Most(CeilDiv(end - origin, units), 1),
           NEW v \in Int, origin <= v, v < end
    PROVE  /\ limit \in Nat \ {0} /\ BinIndex(v, origin, units, limit) \in 0..(limit - 1)
           /\ BinIndex(v, origin, units, limit) = (v - origin) \div units
           /\ origin + units * BinIndex(v, origin, units, limit) <= v
           /\ v < origin + units * BinIndex(v, origin, units, limit) + units
  <1> DEFINE q == (v - origin) \div units
             last == (end - 1 - origin) \div units
  <1>1. q \in Int /\ units * q <= v - origin /\ v - origin < units * q + units
    <2>1. v - origin \in Int  OBVIOUS
    <2> QED  BY <2>1, DivIs
  <1>2. last \in Int /\ units * last <= end - 1 - origin /\ end - 1 - origin < units * last + units
    <2>1. end - 1 - origin \in Int  OBVIOUS
    <2> QED  BY <2>1, DivIs
  <1>3. q <= last
    <2>1. v - origin \in Int /\ end - 1 - origin \in Int /\ v - origin <= end - 1 - origin  OBVIOUS
    <2> QED  BY <2>1, DivMono
  <1>4. 0 <= q
    <2>1. 0 \in Int /\ v - origin \in Int /\ 0 <= v - origin  OBVIOUS
    <2>2. 0 \div units <= (v - origin) \div units  BY <2>1, DivMono
    <2>3. 0 \div units = 0  OBVIOUS
    <2> QED  BY <2>2, <2>3
  <1>5. CeilDiv(end - origin, units) = last + 1
    <2>1. ~(end - origin <= 0) /\ end - origin - 1 = end - 1 - origin  OBVIOUS
    <2> QED  BY <2>1 DEF CeilDiv
  <1> HIDE DEF q, last
  <1>6. limit = last + 1
    BY <1>1, <1>2, <1>3, <1>4, <1>5 DEF Most
  <1>7. BinIndex(v, origin, units, limit) = q
    BY <1>1, <1>2, <1>3, <1>4, <1>6 DEF BinIndex, Clamp, Most, Least, q
  <1> QED  BY <1>1, <1>2, <1>3, <1>4, <1>6, <1>7 DEF q

\* The marks lead from lo to hi, and where a bin meets the range they are its ends.
MarksFit(lo, hi, origin, units, limit, end, x0, x1) ==
    LET mark(x) == Mark(lo, hi, origin, units, x0, x1, x)
    IN  /\ x0 \in Nat /\ x1 \in Nat /\ x0 <= x1
        /\ mark(x0) = lo /\ mark(x1 + 1) = hi
        /\ \A x \in x0..(x1 + 2) : mark(x) \in Int
        /\ \A x \in x0..x1 :
             /\ Most(lo, origin + units * x) = mark(x)
             /\ Least(hi, BinEnd(origin, units, limit, end, x)) = mark(x + 1)
             /\ mark(x) < mark(x + 1)

LEMMA MarksOfBins ==
    ASSUME NEW origin \in Int, NEW end \in Int, NEW units \in Nat \ {0},
           NEW lo \in Int, NEW hi \in Int, origin <= lo, lo < hi, hi <= end,
           NEW limit, limit = Most(CeilDiv(end - origin, units), 1),
           NEW x0, x0 = BinIndex(lo, origin, units, limit),
           NEW x1, x1 = BinIndex(hi - 1, origin, units, limit)
    PROVE  MarksFit(lo, hi, origin, units, limit, end, x0, x1)
  <1> DEFINE mark(x) == Mark(lo, hi, origin, units, x0, x1, x)
  <1>1. /\ limit \in Nat \ {0} /\ x0 \in 0..(limit - 1) /\ x0 = (lo - origin) \div units
        /\ origin + units * x0 <= lo /\ lo < origin + units * x0 + units
    <2>1. origin < end /\ origin <= lo /\ lo < end  OBVIOUS
    <2>2. /\ limit \in Nat \ {0} /\ BinIndex(lo, origin, units, limit) \in 0..(limit - 1)
          /\ BinIndex(lo, origin, units, limit) = (lo - origin) \div units
          /\ origin + units * BinIndex(lo, origin, units, limit) <= lo
          /\ lo < origin + units * BinIndex(lo, origin, units, limit) + units
      BY <2>1, IndexIsQuotient
    <2> QED  BY <2>2
  <1>2. /\ x1 \in 0..(limit - 1) /\ x1 = (hi - 1 - origin) \div units
        /\ origin + units * x1 <= hi - 1 /\ hi - 1 < origin + units * x1 + units
    <2>1. hi - 1 \in Int /\ origin < end /\ origin <= hi - 1 /\ hi - 1 < end  OBVIOUS
    <2>2. /\ limit \in Nat \ {0} /\ BinIndex(hi - 1, origin, units, limit) \in 0..(limit - 1)
          /\ BinIndex(hi - 1, origin, units, limit) = (hi - 1 - origin) \div units
          /\ origin + units * BinIndex(hi - 1, origin, units, limit) <= hi - 1
          /\ hi - 1 < origin + units * BinIndex(hi - 1, origin, units, limit) + units
      BY <2>1, IndexIsQuotient
    <2> QED  BY <2>2
  <1>3. x0 <= x1
    <2>1. lo - origin \in Int /\ hi - 1 - origin \in Int /\ lo - origin <= hi - 1 - origin  OBVIOUS
    <2>2. (lo - origin) \div units <= (hi - 1 - origin) \div units
      BY <2>1, DivMono
    <2> QED  BY <1>1, <1>2, <2>2
  <1>4. PICK a \in Nat, b \in Nat, m \in Nat : a = x0 /\ b = x1 /\ m = limit /\ b <= m - 1
    BY <1>1, <1>2
  <1>5. mark(x0) = lo /\ mark(x1 + 1) = hi
    BY <1>3, <1>4 DEF Mark
  <1>6. ASSUME NEW x \in x0..(x1 + 2) PROVE mark(x) \in Int
    <2>1. x \in Int  BY <1>4
    <2>2. origin + units * x \in Int  BY <2>1
    <2> QED  BY <2>2 DEF Mark
  <1>7. ASSUME NEW x \in x0..x1
        PROVE  /\ Most(lo, origin + units * x) = mark(x)
               /\ Least(hi, BinEnd(origin, units, limit, end, x)) = mark(x + 1)
               /\ mark(x) < mark(x + 1)
    <2>0. x \in Int /\ x \in a..b
      BY <1>4
    <2>1. /\ origin + units * x \in Int /\ origin + units * (x + 1) \in Int
          /\ units * (x + 1) = units * x + units
      BY <2>0
    <2>2. origin + units * x <= hi - 1
      <3>1. units * x <= units * b  BY <2>0, MulMono
      <3>2. units * b \in Int  OBVIOUS
      <3> QED  BY <1>2, <1>4, <2>1, <3>1, <3>2
    <2>3. x # a => lo < origin + units * x
      <3>1. ASSUME x # a PROVE lo < origin + units * x
        <4>1. a + 1 <= x /\ a + 1 \in Int  BY <2>0, <3>1
        <4>2. units * (a + 1) <= units * x  BY <2>0, <4>1, MulMono
        <4>3. units * (a + 1) = units * a + units /\ units * a \in Int  OBVIOUS
        <4> QED  BY <1>1, <1>4, <2>1, <4>2, <4>3
      <3> QED  BY <3>1
    <2>4. Most(lo, origin + units * x) = mark(x)
      <3>1. x # b + 1  BY <2>0
      <3>2. mark(x) = IF x = a THEN lo ELSE origin + units * x  BY <1>4, <3>1 DEF Mark
      <3>3. x = a => origin + units * x <= lo  BY <1>1, <1>4
      <3> QED  BY <2>1, <2>3, <3>2, <3>3 DEF Most
    <2>5. Least(hi, BinEnd(origin, units, limit, end, x)) = mark(x + 1)
      <3>1. x + 1 # a  BY <2>0
      <3>2. mark(x + 1) = IF x = b THEN hi ELSE origin + units * (x + 1)
        BY <1>4, <2>0, <3>1 DEF Mark
      <3>3. CASE x = b
        <4>1. hi <= origin + units * (x + 1)  BY <1>2, <1>4, <2>1, <3>3
        <4> QED  BY <2>1, <3>2, <3>3, <4>1 DEF BinEnd, Least
      <3>4. CASE x # b
        <4>1. x + 1 <= b /\ x + 1 \in Int /\ x + 1 # m  BY <1>4, <2>0, <3>4
        <4>2. units * (x + 1) <= units * b  BY <4>1, MulMono
        <4>3. units * b \in Int  OBVIOUS
        <4>4. origin + units * (x + 1) <= hi - 1  BY <1>2, <1>4, <2>1, <4>2, <4>3
        <4>5. BinEnd(origin, units, limit, end, x) = origin + units * (x + 1)
          BY <1>4, <4>1 DEF BinEnd
        <4> QED  BY <2>1, <3>2, <3>4, <4>4, <4>5 DEF Least
      <3> QED  BY <3>3, <3>4
    <2>6. mark(x) < mark(x + 1)
      <3>1. mark(x) = IF x = a THEN lo ELSE origin + units * x
        BY <1>4, <2>0 DEF Mark
      <3>2. mark(x + 1) = IF x = b THEN hi ELSE origin + units * (x + 1)
        BY <1>4, <2>0 DEF Mark
      <3>3. mark(x) < hi  BY <2>1, <2>2, <3>1
      <3>4. x = a => lo < origin + units * (x + 1)  BY <1>1, <1>4, <2>1
      <3> QED  BY <2>1, <3>1, <3>2, <3>3, <3>4
    <2> QED  BY <2>4, <2>5, <2>6
  <1>8. x0 \in Nat /\ x1 \in Nat
    BY <1>1, <1>2
  <1> QED  BY <1>3, <1>5, <1>6, <1>7, <1>8 DEF MarksFit

-----------------------------------------------------------------------------
LEMMA Apart ==
    ASSUME NEW a \in Int, NEW b \in Int, NEW c \in Int
    PROVE  (a + b) * c = a * c + b * c /\ c * (a + b) = c * a + c * b
  OBVIOUS

LEMMA ProductIsInt == ASSUME NEW a \in Int, NEW b \in Int PROVE a * b \in Int
  OBVIOUS

LEMMA OneMore ==
    ASSUME NEW c \in Int, NEW q \in Int PROVE c * q \in Int /\ c * (q + 1) = c * q + c
  OBVIOUS

LEMMA RowColumn ==
    ASSUME NEW c \in Nat \ {0}, NEW r \in Nat \ {0}, NEW n \in Nat, n = c * r, NEW i \in 0..n
    PROVE  /\ i \div c \in 0..r /\ i % c \in 0..(c - 1) /\ i = c * (i \div c) + (i % c)
           /\ i < n => i \div c < r
  <1> DEFINE q == i \div c
  <1>1. q \in Int /\ i % c \in 0..(c - 1) /\ i = c * q + (i % c)
    <2>1. i \in Int  OBVIOUS
    <2> QED  BY <2>1, DivIs
  <1> HIDE DEF q
  <1>2. 0 <= q
    <2>1. ASSUME q <= -1 PROVE FALSE
      <3>1. c * q <= c * (-1)  BY <1>1, <2>1, MulMono
      <3>2. c * q \in Int /\ c * (-1) = -c  BY <1>1
      <3> QED  BY <1>1, <3>1, <3>2
    <2> QED  BY <1>1, <2>1
  <1>3. ASSUME r + 1 <= q PROVE FALSE
    <2>1. c * (r + 1) <= c * q  BY <1>1, <1>3, MulMono
    <2>2. c * (r + 1) = n + c /\ c * q \in Int  BY <1>1
    <2> QED  BY <1>1, <2>1, <2>2
  <1>4. ASSUME i < n, r <= q PROVE FALSE
    <2>1. c * r <= c * q  BY <1>1, <1>4, MulMono
    <2>2. c * q \in Int  BY <1>1
    <2> QED  BY <1>1, <1>4, <2>1, <2>2
  <1>5. q \in 0..r /\ (i < n => q < r)
    BY <1>1, <1>2, <1>3, <1>4
  <1> QED  BY <1>1, <1>5 DEF q

\* The rows and columns of a grid's cells, counted from 0, row by row.
RowByRow(row, col, c, r, n) ==
    /\ row \in [0..n -> 0..r] /\ col \in [0..n -> 0..(c - 1)]
    /\ row[0] = 0 /\ col[0] = 0 /\ row[n] = r /\ col[n] = 0
    /\ \A i \in 1..n :
         /\ row[i - 1] < r
         /\ col[i - 1] + 1 < c => row[i] = row[i - 1] /\ col[i] = col[i - 1] + 1
         /\ col[i - 1] + 1 = c => row[i] = row[i - 1] + 1 /\ col[i] = 0

LEMMA RowByRowIs ==
    ASSUME NEW c \in Nat \ {0}, NEW r \in Nat \ {0}, NEW n \in Nat, n = c * r
    PROVE  RowByRow([i \in 0..n |-> i \div c], [i \in 0..n |-> i % c], c, r, n)
  <1> DEFINE row == [i \in 0..n |-> i \div c]
             col == [i \in 0..n |-> i % c]
  <1>1. ASSUME NEW i \in 0..n
        PROVE  /\ row[i] \in 0..r /\ col[i] \in 0..(c - 1) /\ i = c * row[i] + col[i]
               /\ i < n => row[i] < r
    <2>1. /\ i \div c \in 0..r /\ i % c \in 0..(c - 1) /\ i = c * (i \div c) + (i % c)
          /\ i < n => i \div c < r
      BY RowColumn
    <2>2. row[i] = i \div c /\ col[i] = i % c  OBVIOUS
    <2> QED  BY <2>1, <2>2
  <1>2. ASSUME NEW a \in 0..n, NEW q \in Int, NEW k \in 0..(c - 1), a = c * q + k
        PROVE  row[a] = q /\ col[a] = k
    <2>1. a \div c = q /\ a % c = k  BY <1>2, DivUnique
    <2>2. row[a] = a \div c /\ col[a] = a % c  OBVIOUS
    <2> QED  BY <2>1, <2>2
  <1>3. row \in [0..n -> 0..r] /\ col \in [0..n -> 0..(c - 1)]
    <2>1. row = [i \in 0..n |-> row[i]] /\ col = [i \in 0..n |-> col[i]]  OBVIOUS
    <2> HIDE DEF row, col
    <2> QED  BY <1>1, <2>1
  <1> HIDE DEF row, col
  <1>4. row[0] = 0 /\ col[0] = 0
    <2>1. 0 \in 0..n /\ 0 \in Int /\ 0 \in 0..(c - 1) /\ 0 = c * 0 + 0  OBVIOUS
    <2> QED  BY <1>2, <2>1
  <1>5. row[n] = r /\ col[n] = 0
    <2>1. n \in 0..n /\ r \in Int /\ 0 \in 0..(c - 1) /\ n = c * r + 0  OBVIOUS
    <2> QED  BY <1>2, <2>1
  <1>6. ASSUME NEW i \in 1..n
        PROVE  /\ row[i - 1] < r
               /\ col[i - 1] + 1 < c => row[i] = row[i - 1] /\ col[i] = col[i - 1] + 1
               /\ col[i - 1] + 1 = c => row[i] = row[i - 1] + 1 /\ col[i] = 0
    <2>1. i \in 0..n /\ i - 1 \in 0..n /\ i - 1 < n  OBVIOUS
    <2>2. PICK q \in 0..r, k \in 0..(c - 1) :
            q = row[i - 1] /\ k = col[i - 1] /\ i - 1 = c * q + k /\ q < r
      BY <1>1, <2>1
    <2>3. c * q \in Int /\ c * (q + 1) = c * q + c
      <3>1. q \in Int /\ c \in Int  BY <2>2
      <3> QED  BY <3>1, OneMore
    <2>4. k + 1 < c => row[i] = q /\ col[i] = k + 1
      <3>1. ASSUME k + 1 < c PROVE row[i] = q /\ col[i] = k + 1
        <4>1. q \in Int /\ k + 1 \in 0..(c - 1) /\ i = c * q + (k + 1)  BY <2>2, <2>3, <3>1
        <4> QED  BY <1>2, <2>1, <4>1
      <3> QED  BY <3>1
    <2>5. k + 1 = c => row[i] = q + 1 /\ col[i] = 0
      <3>1. ASSUME k + 1 = c PROVE row[i] = q + 1 /\ col[i] = 0
        <4>1. q + 1 \in Int /\ 0 \in 0..(c - 1) /\ i = c * q + c
          <5>1. PICK z \in Int : z = c * q  BY <2>3
          <5>2. i - 1 = z + k /\ i \in Int /\ k \in Int /\ c \in Int  BY <2>2, <5>1
          <5>3. i = z + c  BY <3>1, <5>2
          <5> QED  BY <5>1, <5>3
        <4>2. i = c * (q + 1) + 0 /\ q + 1 \in Int
          <5>1. i = c * (q + 1) /\ i \in Int /\ q + 1 \in Int  BY <2>3, <4>1
          <5> QED  BY <5>1
        <4> QED  BY <1>2, <2>1, <4>1, <4>2
      <3> QED  BY <3>1
    <2> QED  BY <2>2, <2>4, <2>5
  <1>7. RowByRow(row, col, c, r, n)
    BY <1>3, <1>4, <1>5, <1>6 DEF RowByRow
  <1> QED  BY <1>7 DEF row, col

LEMMA WithinMarks ==
    ASSUME NEW c \in Nat \ {0}, NEW r \in Nat \ {0},
           NEW mX \in [0..c -> Int], NEW mY \in [0..(r + 1) -> Int],
           NEW a \in 0..r, NEW b \in 0..(c - 1)
    PROVE  /\ mX[b] \in Int /\ mX[b + 1] \in Int /\ mX[0] \in Int /\ mX[c] \in Int
           /\ mY[a] \in Int /\ mY[a + 1] \in Int /\ mY[0] \in Int /\ mY[r] \in Int
  OBVIOUS

\* f gives the size of each cell between these marks.
CellSizes(f, mX, mY, row, col, n) ==
    \A i \in 1..n : f[i] = (mX[col[i - 1] + 1] - mX[col[i - 1]])
                           * (mY[row[i - 1] + 1] - mY[row[i - 1]])

LEMMA ProductIsNat == ASSUME NEW a \in Nat, NEW b \in Nat PROVE a * b \in Nat
  OBVIOUS

AreMarks(mX, mY, c, r) == mX \in [0..c -> Int] /\ mY \in [0..(r + 1) -> Int]
Whole(mX, mY, c, r) == (mX[c] - mX[0]) * (mY[r] - mY[0])

\* The cells of a grid, row by row, make up the whole.
LEMMA GridSum ==
    ASSUME NEW c \in Nat \ {0}, NEW r \in Nat \ {0}, NEW n \in Nat,
           NEW row, NEW col, RowByRow(row, col, c, r, n),
           NEW mX, NEW mY, AreMarks(mX, mY, c, r), NEW f,
           CellSizes(f, mX, mY, row, col, n)
    PROVE  SumFunctionOnSet(f, 1..n) = Whole(mX, mY, c, r)
  <1> DEFINE w == mX[c] - mX[0]
             dx(i) == mX[col[i]] - mX[0]
             dy(i) == mY[row[i] + 1] - mY[row[i]]
             below(i) == mY[row[i]] - mY[0]
             p == [i \in 0..n |-> dx(i) * dy(i) + w * below(i)]
  <1>0. mX \in [0..c -> Int] /\ mY \in [0..(r + 1) -> Int]
    BY Zenon DEF AreMarks
  <1>1. ASSUME NEW i \in 0..n PROVE row[i] \in 0..r /\ col[i] \in 0..(c - 1)
    BY DEF RowByRow
  <1>2. w \in Int /\ mX[0] \in Int /\ mY[0] \in Int
    BY <1>0
  <1>3. ASSUME NEW i \in 0..n
        PROVE  dx(i) \in Int /\ dy(i) \in Int /\ below(i) \in Int
    <2>1. PICK a \in 0..r, b \in 0..(c - 1) : a = row[i] /\ b = col[i]
      BY <1>1
    <2>2. mX[b] \in Int /\ mY[a + 1] \in Int /\ mY[a] \in Int
      BY <1>0, WithinMarks
    <2>3. mX[b] - mX[0] \in Int /\ mY[a + 1] - mY[a] \in Int /\ mY[a] - mY[0] \in Int
      BY <1>2, <2>2
    <2> QED  BY <2>1, <2>3
  <1> HIDE DEF w
  <1>4. ASSUME NEW i \in 0..n PROVE p[i] \in Int /\ p[i] = dx(i) * dy(i) + w * below(i)
    <2>1. p[i] = dx(i) * dy(i) + w * below(i)
      OBVIOUS
    <2>2. dx(i) \in Int /\ dy(i) \in Int /\ below(i) \in Int
      BY <1>3
    <2> HIDE DEF dx, dy, below, p
    <2>3. dx(i) * dy(i) \in Int /\ w * below(i) \in Int
      BY <1>2, <2>2, ProductIsInt
    <2> QED  BY <2>1, <2>3
  <1>5. p[0] = 0
    <2>1. dx(0) = 0 /\ below(0) = 0
      <3>1. row[0] = 0 /\ col[0] = 0  BY DEF RowByRow
      <3> QED  BY <1>2, <3>1
    <2>2. 0 \in 0..n  OBVIOUS
    <2>3. dy(0) \in Int  BY <1>3, <2>2
    <2>4. p[0] = dx(0) * dy(0) + w * below(0)  BY <1>4, <2>2
    <2> HIDE DEF dx, dy, below, p
    <2>5. p[0] = 0 * dy(0) + w * 0  BY <2>1, <2>4
    <2> QED  BY <1>2, <2>3, <2>5
  <1>6. p[n] = w * (mY[r] - mY[0])
    <2>1. dx(n) = 0 /\ below(n) = mY[r] - mY[0]
      <3>1. row[n] = r /\ col[n] = 0  BY DEF RowByRow
      <3> QED  BY <1>2, <3>1
    <2>2. n \in 0..n  OBVIOUS
    <2>3. dy(n) \in Int /\ below(n) \in Int  BY <1>3, <2>2
    <2>4. p[n] = dx(n) * dy(n) + w * below(n)  BY <1>4, <2>2
    <2> HIDE DEF dx, dy, below, p
    <2>5. p[n] = 0 * dy(n) + w * below(n)  BY <2>1, <2>4
    <2>6. w * below(n) \in Int  BY <1>2, <2>3, ProductIsInt
    <2>7. p[n] = w * below(n)  BY <2>3, <2>5, <2>6
    <2> QED  BY <2>1, <2>7
  <1>7. ASSUME NEW i \in 1..n PROVE f[i] \in Int /\ p[i] = p[i - 1] + f[i]
    <2>1. i - 1 \in 0..n /\ i \in 0..n
      OBVIOUS
    <2>2. PICK k \in 0..r, q \in 0..(c - 1) :
          /\ k = row[i - 1] /\ q = col[i - 1] /\ k < r
          /\ q + 1 < c => row[i] = k /\ col[i] = q + 1
          /\ q + 1 = c => row[i] = k + 1 /\ col[i] = 0
      BY <1>1, <2>1 DEF RowByRow
    <2> DEFINE d == dy(i - 1)
               step == mX[q + 1] - mX[q]
    <2>3. f[i] = step * d
      BY <2>2, Zenon DEF CellSizes
    <2>4. p[i - 1] = dx(i - 1) * d + w * below(i - 1) /\ p[i] = dx(i) * dy(i) + w * below(i)
      BY <1>4, <2>1
    <2>5. step \in Int /\ mX[q + 1] \in Int /\ mX[q] \in Int
      <3>1. mX[q + 1] \in Int /\ mX[q] \in Int  BY <1>0, WithinMarks
      <3> QED  BY <3>1
    <2>6. /\ d \in Int /\ dx(i - 1) \in Int /\ dx(i) \in Int /\ dy(i) \in Int
          /\ below(i - 1) \in Int /\ below(i) \in Int
      BY <1>3, <2>1
    <2>7. dx(i - 1) + step = mX[q + 1] - mX[0]
      <3>1. dx(i - 1) = mX[q] - mX[0]  BY <2>2
      <3>2. (mX[q] - mX[0]) + (mX[q + 1] - mX[q]) = mX[q + 1] - mX[0]  BY <1>2, <2>5
      <3> QED  BY <3>1, <3>2
    <2>8. q + 1 < c => dx(i) = dx(i - 1) + step /\ dy(i) = d /\ below(i) = below(i - 1)
      BY <2>2, <2>7
    <2>9. q + 1 = c => dx(i) = 0 /\ dx(i - 1) + step = w /\ below(i) = below(i - 1) + d
      <3>1. ASSUME q + 1 = c PROVE dx(i) = 0 /\ dx(i - 1) + step = w /\ below(i) = below(i - 1) + d
        <4>1. dx(i) = mX[0] - mX[0] /\ below(i) = mY[k + 1] - mY[0]
          BY <2>2, <3>1
        <4>2. below(i - 1) = mY[k] - mY[0] /\ d = mY[k + 1] - mY[k]
          BY <2>2
        <4>3. mY[k + 1] \in Int /\ mY[k] \in Int
          BY <1>0, WithinMarks
        <4>4. dx(i - 1) + step = w  BY <2>7, <3>1 DEF w
        <4> HIDE DEF dx, below, d, step
        <4> QED  BY <1>2, <4>1, <4>2, <4>3, <4>4
      <3> QED  BY <3>1
    <2>10. q + 1 < c \/ q + 1 = c
      OBVIOUS
    <2> HIDE DEF dx, dy, below, p, d, step
    <2>11. (dx(i - 1) + step) * d = dx(i - 1) * d + step * d
      BY <2>5, <2>6, Apart
    <2>12. w * (below(i - 1) + d) = w * below(i - 1) + w * d
      BY <1>2, <2>6, Apart
    <2>13. /\ dx(i - 1) * d \in Int /\ step * d \in Int /\ w * below(i - 1) \in Int
           /\ w * d \in Int
      BY <1>2, <2>5, <2>6, ProductIsInt
    <2>14. CASE q + 1 < c
      <3>1. p[i] = (dx(i - 1) + step) * d + w * below(i - 1)
        BY <2>4, <2>8, <2>14
      <3> QED  BY <2>3, <2>4, <2>11, <2>13, <3>1
    <2>15. CASE q + 1 = c
      <3>1. p[i] = 0 * dy(i) + w * (below(i - 1) + d)
        BY <2>4, <2>9, <2>15
      <3>2. w * d = dx(i - 1) * d + step * d
        BY <2>9, <2>11, <2>15
      <3>3. 0 * dy(i) = 0
        BY <2>6
      <3> QED  BY <2>3, <2>4, <2>12, <2>13, <3>1, <3>2, <3>3
    <2> QED  BY <2>10, <2>14, <2>15
  <1>8. p \in [0..n -> Int]
    <2>1. p = [i \in 0..n |-> p[i]]  OBVIOUS
    <2> HIDE DEF p
    <2> QED  BY <1>4, <2>1
  <1> HIDE DEF p
  <1>9. SumFunctionOnSet(f, 1..n) = p[n]
    <2> DEFINE a == 0
    <2>1. \A i \in 1..n : f[a + i] \in Int /\ p[i] = p[i - 1] + f[a + i]
      BY <1>7
    <2>2. a \in Int /\ (a + 1)..(a + n) = 1..n  OBVIOUS
    <2> HIDE DEF a
    <2>3. RunsTo(p, f, a, n)
      BY <1>5, <1>8, <2>1, Zenon DEF RunsTo
    <2>4. SumFunctionOnSet(f, (a + 1)..(a + n)) = p[n]
      BY <2>2, <2>3, SumRun
    <2> QED  BY <2>2, <2>4
  <1> QED  BY <1>6, <1>9, Zenon DEF w, Whole

-----------------------------------------------------------------------------
(* What one rectangle adds to the bins.                                    *)

\* A box that is somewhere and lies inside the world.
Inside(b, world) ==
    /\ IsBox(b) /\ IsBox(world)
    /\ world[1] <= b[1] /\ b[1] < b[3] /\ b[3] <= world[3]
    /\ world[2] <= b[2] /\ b[2] < b[4] /\ b[4] <= world[4]

\* The first and the last bin of a box in each direction.
FirstBins(b, world, units, grid) ==
    <<BinIndex(b[1], world[1], units, grid[1]), BinIndex(b[2], world[2], units, grid[2])>>
LastBins(b, world, units, grid) ==
    <<BinIndex(b[3] - 1, world[1], units, grid[1]),
      BinIndex(b[4] - 1, world[2], units, grid[2])>>

\* The marks the bins leave on the box, in the direction d.
MarkOf(b, world, units, first, last, d, x) ==
    Mark(b[d], b[d + 2], world[d], units, first[d], last[d], x)

LEMMA MarksIn ==
    ASSUME NEW b, NEW world, Inside(b, world), NEW units \in Nat \ {0},
           NEW grid, grid = LevelGrid(world, units),
           NEW first, first = FirstBins(b, world, units, grid),
           NEW last, last = LastBins(b, world, units, grid), NEW d \in {1, 2}
    PROVE  LET mark(x) == MarkOf(b, world, units, first, last, d, x)
           IN  /\ first[d] \in Nat /\ last[d] \in Nat /\ first[d] <= last[d]
               /\ mark(first[d]) = b[d] /\ mark(last[d] + 1) = b[d + 2]
               /\ \A x \in first[d]..(last[d] + 2) : mark(x) \in Int
               /\ \A x \in first[d]..last[d] :
                    /\ Most(b[d], world[d] + units * x) = mark(x)
                    /\ Least(b[d + 2], BinEnd(world[d], units, grid[d], world[d + 2], x))
                         = mark(x + 1)
                    /\ mark(x) < mark(x + 1)
  <1> DEFINE origin == world[d]
             end == world[d + 2]
             lo == b[d]
             hi == b[d + 2]
             limit == grid[d]
             x0 == first[d]
             x1 == last[d]
  <1>1. /\ origin \in Int /\ end \in Int /\ lo \in Int /\ hi \in Int
        /\ origin <= lo /\ lo < hi /\ hi <= end
    BY DEF Inside, IsBox
  <1>2. /\ limit = Most(CeilDiv(end - origin, units), 1)
        /\ x0 = BinIndex(lo, origin, units, limit)
        /\ x1 = BinIndex(hi - 1, origin, units, limit)
    <2>1. CASE d = 1
      <3>1. Width(world) = end - origin
        BY <1>1, <2>1 DEF Width, Most
      <3>2. limit = Most(CeilDiv(Width(world), units), 1)
        BY <2>1 DEF LevelGrid
      <3> QED  BY <2>1, <3>1, <3>2 DEF FirstBins, LastBins
    <2>2. CASE d = 2
      <3>1. Height(world) = end - origin
        BY <1>1, <2>2 DEF Height, Most
      <3>2. limit = Most(CeilDiv(Height(world), units), 1)
        BY <2>2 DEF LevelGrid
      <3> QED  BY <2>2, <3>1, <3>2 DEF FirstBins, LastBins
    <2> QED  BY <2>1, <2>2
  <1> HIDE DEF origin, end, lo, hi, limit, x0, x1
  <1>3. MarksFit(lo, hi, origin, units, limit, end, x0, x1)
    BY <1>1, <1>2, MarksOfBins
  <1> QED  BY <1>3, Zenon DEF origin, end, lo, hi, limit, x0, x1, MarkOf, MarksFit

LEMMA AreaIs ==
    ASSUME NEW a \in Int, NEW b \in Int, NEW c \in Int, NEW d \in Int, a < c, b < d
    PROVE  Area(<<a, b, c, d>>) = (c - a) * (d - b)
  <1>1. Most(c - a, 0) = c - a /\ Most(d - b, 0) = d - b
    BY DEF Most
  <1>2. Area(<<a, b, c, d>>) = Most(c - a, 0) * Most(d - b, 0)
    BY DEF Area
  <1> QED  BY <1>1, <1>2

LEMMA PieceIs ==
    ASSUME NEW b, NEW world, Inside(b, world), NEW units \in Nat \ {0},
           NEW grid, grid = LevelGrid(world, units),
           NEW first, first = FirstBins(b, world, units, grid),
           NEW last, last = LastBins(b, world, units, grid),
           NEW x \in first[1]..last[1], NEW y \in first[2]..last[2]
    PROVE  LET mX(i) == MarkOf(b, world, units, first, last, 1, i)
               mY(i) == MarkOf(b, world, units, first, last, 2, i)
           IN  Area(Common(b, PyramidBinBox(world, units, grid, x, y)))
                 = (mX(x + 1) - mX(x)) * (mY(y + 1) - mY(y))
  <1> DEFINE mX(i) == MarkOf(b, world, units, first, last, 1, i)
             mY(i) == MarkOf(b, world, units, first, last, 2, i)
             box == PyramidBinBox(world, units, grid, x, y)
  <1>1. /\ Most(b[1], world[1] + units * x) = mX(x)
        /\ Least(b[3], BinEnd(world[1], units, grid[1], world[3], x)) = mX(x + 1)
        /\ mX(x) < mX(x + 1) /\ mX(x) \in Int /\ mX(x + 1) \in Int
    <2> DEFINE d == 1
    <2>1. d \in {1, 2} /\ d + 2 = 3  OBVIOUS
    <2> HIDE DEF d
    <2>2. LET mark(i) == MarkOf(b, world, units, first, last, d, i)
          IN  /\ first[d] \in Nat /\ last[d] \in Nat /\ first[d] <= last[d]
              /\ \A i \in first[d]..(last[d] + 2) : mark(i) \in Int
              /\ \A i \in first[d]..last[d] :
                   /\ Most(b[d], world[d] + units * i) = mark(i)
                   /\ Least(b[d + 2], BinEnd(world[d], units, grid[d], world[d + 2], i))
                        = mark(i + 1)
                   /\ mark(i) < mark(i + 1)
      BY <2>1, MarksIn
    <2>3. d = 1  BY DEF d
    <2>4. /\ x \in first[d]..(last[d] + 2) /\ x + 1 \in first[d]..(last[d] + 2)
          /\ x \in first[d]..last[d]
      BY <2>2, <2>3
    <2> QED  BY <2>1, <2>2, <2>3, <2>4, Zenon
  <1>2. /\ Most(b[2], world[2] + units * y) = mY(y)
        /\ Least(b[4], BinEnd(world[2], units, grid[2], world[4], y)) = mY(y + 1)
        /\ mY(y) < mY(y + 1) /\ mY(y) \in Int /\ mY(y + 1) \in Int
    <2> DEFINE d == 2
    <2>1. d \in {1, 2} /\ d + 2 = 4  OBVIOUS
    <2> HIDE DEF d
    <2>2. LET mark(i) == MarkOf(b, world, units, first, last, d, i)
          IN  /\ first[d] \in Nat /\ last[d] \in Nat /\ first[d] <= last[d]
              /\ \A i \in first[d]..(last[d] + 2) : mark(i) \in Int
              /\ \A i \in first[d]..last[d] :
                   /\ Most(b[d], world[d] + units * i) = mark(i)
                   /\ Least(b[d + 2], BinEnd(world[d], units, grid[d], world[d + 2], i))
                        = mark(i + 1)
                   /\ mark(i) < mark(i + 1)
      BY <2>1, MarksIn
    <2>3. d = 2  BY DEF d
    <2>4. /\ y \in first[d]..(last[d] + 2) /\ y + 1 \in first[d]..(last[d] + 2)
          /\ y \in first[d]..last[d]
      BY <2>2, <2>3
    <2> QED  BY <2>1, <2>2, <2>3, <2>4, Zenon
  <1>3. Common(b, box) = <<mX(x), mY(y), mX(x + 1), mY(y + 1)>>
    <2>1. /\ box[1] = world[1] + units * x /\ box[2] = world[2] + units * y
          /\ box[3] = BinEnd(world[1], units, grid[1], world[3], x)
          /\ box[4] = BinEnd(world[2], units, grid[2], world[4], y)
      BY DEF PyramidBinBox, BinEnd
    <2> HIDE DEF box, mX, mY
    <2> QED  BY <1>1, <1>2, <2>1, Zenon DEF Common
  <1> HIDE DEF mX, mY
  <1>4. Area(<<mX(x), mY(y), mX(x + 1), mY(y + 1)>>) = (mX(x + 1) - mX(x)) * (mY(y + 1) - mY(y))
    BY <1>1, <1>2, AreaIs
  <1>5. Area(Common(b, box)) = (mX(x + 1) - mX(x)) * (mY(y + 1) - mY(y))
    BY <1>3, <1>4
  <1> QED  BY <1>5 DEF mX, mY

ShareRecords == [x : Int, y : Int, layer : Int, kind : Kinds, area : Int, box : RecordBoxes]
AreasOf(shares) == [j \in DOMAIN shares |-> shares[j].area]

LEMMA ShareTyped ==
    ASSUME NEW world, IsBox(world), NEW units \in Nat \ {0}, NEW grid, NEW rec \in Records,
           NEW x \in Int, NEW y \in Int, NEW area \in Int
    PROVE  LET share == Share(world, units, grid, rec, x, y, area)
           IN  share \in ShareRecords /\ share.layer = rec.layer /\ share.area = area
  <1>1. /\ world[1] + units * x \in Int /\ world[2] + units * y \in Int
        /\ (IF x + 1 = grid[1] THEN world[3] ELSE world[1] + units * (x + 1)) \in Int
        /\ (IF y + 1 = grid[2] THEN world[4] ELSE world[2] + units * (y + 1)) \in Int
    <2>1. x + 1 \in Int /\ y + 1 \in Int  OBVIOUS
    <2>2. /\ units * x \in Int /\ units * y \in Int
          /\ units * (x + 1) \in Int /\ units * (y + 1) \in Int
      BY <2>1, ProductIsInt
    <2> QED  BY <2>2 DEF IsBox
  <1>2. PyramidBinBox(world, units, grid, x, y) \in RecordBoxes
    BY <1>1, FourIsBox DEF PyramidBinBox
  <1>3. rec.layer \in Int /\ rec.kind \in Kinds
    BY DEF Records
  <1> QED  BY <1>2, <1>3 DEF Share, ShareRecords

LEMMA NothingInside ==
    ASSUME NEW c, IsBox(c), ~(c[1] < c[3] /\ c[2] < c[4]) PROVE Area(c) = 0
  <1>1. Most(c[3] - c[1], 0) \in Int /\ Most(c[4] - c[2], 0) \in Int
    BY DEF IsBox, Most
  <1>2. Most(c[3] - c[1], 0) = 0 \/ Most(c[4] - c[2], 0) = 0
    BY DEF IsBox, Most
  <1> DEFINE w == Most(c[3] - c[1], 0)
             h == Most(c[4] - c[2], 0)
  <1>3. Area(c) = w * h  BY DEF Area
  <1>4. w \in Int /\ h \in Int /\ (w = 0 \/ h = 0)  BY <1>1, <1>2
  <1> HIDE DEF w, h
  <1> QED  BY <1>3, <1>4

LEMMA CommonIs ==
    ASSUME NEW a, IsBox(a), NEW b, IsBox(b)
    PROVE  LET c == Common(a, b)
           IN  /\ IsBox(c) /\ c # NoBox /\ b[1] <= c[1] /\ b[2] <= c[2] /\ c[3] <= b[3] /\ c[4] <= b[4]
               /\ Area(c) \in Int
  <1> DEFINE c == Common(a, b)
  <1>1. /\ c[1] = Most(a[1], b[1]) /\ c[2] = Most(a[2], b[2])
        /\ c[3] = Least(a[3], b[3]) /\ c[4] = Least(a[4], b[4])
    BY DEF Common
  <1>2. c # NoBox
    BY DEF Common, NoBox
  <1> HIDE DEF c
  <1>3. IsBox(c) /\ b[1] <= c[1] /\ b[2] <= c[2] /\ c[3] <= b[3] /\ c[4] <= b[4]
    BY <1>1 DEF IsBox, Most, Least
  <1>4. Area(c) \in Int
    <2>1. Most(c[3] - c[1], 0) \in Int /\ Most(c[4] - c[2], 0) \in Int
      BY <1>3 DEF IsBox, Most
    <2> QED  BY <2>1, ProductIsInt DEF Area
  <1> QED  BY <1>2, <1>3, <1>4 DEF c

\* The i-th bin of a box, row by row, and what falls to it.
CellShare(world, units, grid, rec, b, first, columns, i) ==
    LET x == first[1] + ((i - 1) % columns)
        y == first[2] + ((i - 1) \div columns)
    IN  Share(world, units, grid, rec, x, y,
              Area(Common(b, PyramidBinBox(world, units, grid, x, y))))

\* So many columns, rows and bins are there from the first to the last.
Counts(first, last, c, r, n) ==
    c = last[1] - first[1] + 1 /\ r = last[2] - first[2] + 1 /\ n = c * r

\* Spread over the bins it touches, a box keeps its area.
LEMMA SpreadKeepsArea ==
    ASSUME NEW b, NEW world, Inside(b, world), NEW units \in Nat \ {0},
           NEW grid, grid = LevelGrid(world, units),
           NEW first, first = FirstBins(b, world, units, grid),
           NEW last, last = LastBins(b, world, units, grid),
           NEW c, NEW r, NEW n, Counts(first, last, c, r, n), NEW rec \in Records,
           NEW shares, shares = [i \in 1..n |->
                                   CellShare(world, units, grid, rec, b, first, c, i)]
    PROVE  /\ n \in Nat /\ shares \in [1..n -> ShareRecords]
           /\ \A i \in 1..n : shares[i].layer = rec.layer
           /\ SumFunctionOnSet(AreasOf(shares), 1..n) = (b[3] - b[1]) * (b[4] - b[2])
  <1> DEFINE x0 == first[1]
             y0 == first[2]
             row == [i \in 0..n |-> i \div c]
             col == [i \in 0..n |-> i % c]
             mX == [i \in 0..c |-> MarkOf(b, world, units, first, last, 1, x0 + i)]
             mY == [i \in 0..(r + 1) |-> MarkOf(b, world, units, first, last, 2, y0 + i)]
             areas == AreasOf(shares)
  <1>1. /\ x0 \in Nat /\ c \in Nat \ {0} /\ mX \in [0..c -> Int]
        /\ mX[0] = b[1] /\ mX[c] = b[3] /\ last[1] = x0 + c - 1
    <2> DEFINE d == 1
    <2>1. d \in {1, 2} /\ d + 2 = 3  OBVIOUS
    <2> HIDE DEF d
    <2>2. LET mark(i) == MarkOf(b, world, units, first, last, d, i)
          IN  /\ first[d] \in Nat /\ last[d] \in Nat /\ first[d] <= last[d]
              /\ mark(first[d]) = b[d] /\ mark(last[d] + 1) = b[d + 2]
              /\ \A i \in first[d]..(last[d] + 2) : mark(i) \in Int
      BY <2>1, MarksIn
    <2>3. d = 1  BY DEF d
    <2> DEFINE mark(i) == MarkOf(b, world, units, first, last, 1, i)
    <2>4. /\ x0 \in Nat /\ last[1] \in Nat /\ x0 <= last[1]
          /\ mark(x0) = b[1] /\ mark(last[1] + 1) = b[3]
          /\ \A i \in x0..(last[1] + 2) : mark(i) \in Int
      BY <2>1, <2>2, <2>3, Zenon
    <2> HIDE DEF mark, x0
    <2>5. c \in Nat \ {0} /\ last[1] = x0 + c - 1 /\ last[1] + 1 = x0 + c /\ x0 + 0 = x0
      <3>1. c = last[1] - x0 + 1  BY Zenon DEF Counts, x0
      <3> QED  BY <2>4, <3>1
    <2>6. ASSUME NEW i \in 0..c PROVE mX[i] = mark(x0 + i) /\ mX[i] \in Int
      <3>1. x0 + i \in x0..(last[1] + 2)  BY <2>4, <2>5
      <3>2. mX[i] = mark(x0 + i)  BY DEF mark
      <3> QED  BY <2>4, <3>1, <3>2
    <2>7. mX \in [0..c -> Int]
      <3>1. mX = [i \in 0..c |-> mX[i]]  OBVIOUS
      <3> HIDE DEF mX
      <3> QED  BY <2>6, <3>1
    <2>8. 0 \in 0..c /\ c \in 0..c  BY <2>5
    <2> HIDE DEF mX
    <2>9. mX[0] = mark(x0) /\ mX[c] = mark(last[1] + 1)
      BY <2>5, <2>6, <2>8
    <2> QED  BY <2>4, <2>5, <2>7, <2>9
  <1>2. /\ y0 \in Nat /\ r \in Nat \ {0} /\ mY \in [0..(r + 1) -> Int]
        /\ mY[0] = b[2] /\ mY[r] = b[4] /\ last[2] = y0 + r - 1
    <2> DEFINE d == 2
    <2>1. d \in {1, 2} /\ d + 2 = 4  OBVIOUS
    <2> HIDE DEF d
    <2>2. LET mark(i) == MarkOf(b, world, units, first, last, d, i)
          IN  /\ first[d] \in Nat /\ last[d] \in Nat /\ first[d] <= last[d]
              /\ mark(first[d]) = b[d] /\ mark(last[d] + 1) = b[d + 2]
              /\ \A i \in first[d]..(last[d] + 2) : mark(i) \in Int
      BY <2>1, MarksIn
    <2>3. d = 2  BY DEF d
    <2> DEFINE mark(i) == MarkOf(b, world, units, first, last, 2, i)
    <2>4. /\ y0 \in Nat /\ last[2] \in Nat /\ y0 <= last[2]
          /\ mark(y0) = b[2] /\ mark(last[2] + 1) = b[4]
          /\ \A i \in y0..(last[2] + 2) : mark(i) \in Int
      BY <2>1, <2>2, <2>3, Zenon
    <2> HIDE DEF mark, y0
    <2>5. r \in Nat \ {0} /\ last[2] = y0 + r - 1 /\ last[2] + 1 = y0 + r /\ y0 + 0 = y0
      <3>1. r = last[2] - y0 + 1  BY Zenon DEF Counts, y0
      <3> QED  BY <2>4, <3>1
    <2>6. ASSUME NEW i \in 0..(r + 1) PROVE mY[i] = mark(y0 + i) /\ mY[i] \in Int
      <3>1. y0 + i \in y0..(last[2] + 2)  BY <2>4, <2>5
      <3>2. mY[i] = mark(y0 + i)  BY DEF mark
      <3> QED  BY <2>4, <3>1, <3>2
    <2>7. mY \in [0..(r + 1) -> Int]
      <3>1. mY = [i \in 0..(r + 1) |-> mY[i]]  OBVIOUS
      <3> HIDE DEF mY
      <3> QED  BY <2>6, <3>1
    <2>8. 0 \in 0..(r + 1) /\ r \in 0..(r + 1)  BY <2>5
    <2> HIDE DEF mY
    <2>9. mY[0] = mark(y0) /\ mY[r] = mark(last[2] + 1)
      BY <2>5, <2>6, <2>8
    <2> QED  BY <2>4, <2>5, <2>7, <2>9
  <1>3. n \in Nat /\ n = c * r
    <2>1. c \in Nat /\ r \in Nat  BY <1>1, <1>2
    <2>2. n = c * r  BY Zenon DEF Counts
    <2>3. c * r \in Nat  BY <2>1, ProductIsNat
    <2> QED  BY <2>2, <2>3
  <1>4. RowByRow(row, col, c, r, n)
    BY <1>1, <1>2, <1>3, RowByRowIs
  <1>5. ASSUME NEW i \in 1..n
        PROVE  /\ row[i - 1] \in 0..(r - 1) /\ col[i - 1] \in 0..(c - 1)
               /\ row[i - 1] = (i - 1) \div c /\ col[i - 1] = (i - 1) % c
    <2>1. i - 1 \in 0..n  BY <1>3
    <2>2. row[i - 1] = (i - 1) \div c /\ col[i - 1] = (i - 1) % c
      BY <2>1
    <2> HIDE DEF row, col
    <2>3. row[i - 1] \in 0..r /\ row[i - 1] < r /\ col[i - 1] \in 0..(c - 1)
      BY <1>4, <2>1 DEF RowByRow
    <2>4. row[i - 1] \in 0..(r - 1)
      <3>1. PICK k \in 0..r : k = row[i - 1] /\ k < r  BY <2>3
      <3>2. r \in Nat \ {0}  BY <1>2
      <3>3. k \in 0..(r - 1)  BY <3>1, <3>2
      <3> QED  BY <3>1, <3>3
    <2> QED  BY <2>2, <2>3, <2>4
  <1> HIDE DEF row, col, mX, mY, x0, y0
  <1>6. ASSUME NEW i \in 1..n
        PROVE  /\ shares[i] \in ShareRecords /\ shares[i].layer = rec.layer
               /\ shares[i].area = (mX[col[i - 1] + 1] - mX[col[i - 1]])
                                   * (mY[row[i - 1] + 1] - mY[row[i - 1]])
    <2>1. PICK k \in 0..(r - 1), q \in 0..(c - 1) :
            /\ k = row[i - 1] /\ q = col[i - 1] /\ k = (i - 1) \div c /\ q = (i - 1) % c
      BY <1>5
    <2> DEFINE x == x0 + q
               y == y0 + k
               area == Area(Common(b, PyramidBinBox(world, units, grid, x, y)))
    <2>2. shares[i] = Share(world, units, grid, rec, x, y, area)
      BY <2>1, Zenon DEF CellShare, x0, y0
    <2>3. /\ x \in Int /\ y \in Int /\ x \in x0..last[1] /\ y \in y0..last[2]
          /\ x + 1 = x0 + (q + 1) /\ y + 1 = y0 + (k + 1)
      BY <1>1, <1>2
    <2>4. /\ mX[q] = MarkOf(b, world, units, first, last, 1, x)
          /\ mX[q + 1] = MarkOf(b, world, units, first, last, 1, x + 1)
          /\ mY[k] = MarkOf(b, world, units, first, last, 2, y)
          /\ mY[k + 1] = MarkOf(b, world, units, first, last, 2, y + 1)
      <3>1. q \in 0..c /\ q + 1 \in 0..c /\ k \in 0..(r + 1) /\ k + 1 \in 0..(r + 1)
        BY <1>1, <1>2
      <3> HIDE DEF x, y
      <3>2. x = x0 + q /\ x + 1 = x0 + (q + 1) /\ y = y0 + k /\ y + 1 = y0 + (k + 1)
        BY <2>3 DEF x, y
      <3> QED  BY <3>1, <3>2, Zenon DEF mX, mY
    <2> HIDE DEF x, y
    <2>5. area = (mX[q + 1] - mX[q]) * (mY[k + 1] - mY[k])
      <3>1. x \in first[1]..last[1] /\ y \in first[2]..last[2]  BY <2>3 DEF x0, y0
      <3>2. area = (MarkOf(b, world, units, first, last, 1, x + 1)
                     - MarkOf(b, world, units, first, last, 1, x))
                   * (MarkOf(b, world, units, first, last, 2, y + 1)
                       - MarkOf(b, world, units, first, last, 2, y))
        BY <3>1, PieceIs
      <3> QED  BY <2>4, <3>2
    <2> HIDE DEF area
    <2>6. area \in Int
      <3>1. mX[q] \in Int /\ mX[q + 1] \in Int /\ mY[k] \in Int /\ mY[k + 1] \in Int
        <4>1. k \in 0..r  BY <1>2
        <4> QED  BY <1>1, <1>2, <4>1, WithinMarks
      <3>2. mX[q + 1] - mX[q] \in Int /\ mY[k + 1] - mY[k] \in Int  BY <3>1
      <3> QED  BY <2>5, <3>2, ProductIsInt
    <2>7. IsBox(world)  BY DEF Inside
    <2>8. /\ Share(world, units, grid, rec, x, y, area) \in ShareRecords
          /\ Share(world, units, grid, rec, x, y, area).layer = rec.layer
          /\ Share(world, units, grid, rec, x, y, area).area = area
      BY <2>3, <2>6, <2>7, ShareTyped
    <2> QED  BY <2>1, <2>2, <2>5, <2>8
  <1>7. DOMAIN shares = 1..n /\ shares = [i \in 1..n |-> shares[i]]
    OBVIOUS
  <1>8. shares \in [1..n -> ShareRecords]
    BY <1>6, <1>7
  <1>9. CellSizes(areas, mX, mY, row, col, n)
    <2>1. \A i \in 1..n : areas[i] = shares[i].area
      BY <1>7, Zenon DEF AreasOf
    <2> HIDE DEF areas
    <2> QED  BY <1>6, <2>1, Zenon DEF CellSizes
  <1>10. SumFunctionOnSet(areas, 1..n) = (mX[c] - mX[0]) * (mY[r] - mY[0])
    <2> HIDE DEF areas
    <2>1. c \in Nat \ {0} /\ r \in Nat \ {0} /\ n \in Nat /\ AreMarks(mX, mY, c, r)
      BY <1>1, <1>2, <1>3, Zenon DEF AreMarks
    <2>2. SumFunctionOnSet(areas, 1..n) = Whole(mX, mY, c, r)
      BY <1>4, <1>9, <2>1, GridSum
    <2> QED  BY <2>2, Zenon DEF Whole
  <1> QED  BY <1>1, <1>2, <1>3, <1>6, <1>8, <1>10

\* What falls to the bins of a rectangle of density: its piece of the world.
DrawnArea(rec, world) == Area(Common(rec.box, world))

\* A box of the plane that something can be inside of.
IsWorld(world) == IsBox(world) /\ world[1] < world[3] /\ world[2] < world[4]

RightShares(shares, rec, world) ==
    /\ shares \in Seq(ShareRecords)
    /\ \A j \in DOMAIN shares : shares[j].layer = rec.layer
    /\ SumFunctionOnSet(AreasOf(shares), DOMAIN shares)
         = IF IsDensityKind(rec.kind) THEN DrawnArea(rec, world) ELSE 0

LEMMA SharesOfRect ==
    ASSUME NEW world, IsWorld(world), NEW units \in Nat \ {0},
           NEW grid, grid = LevelGrid(world, units), NEW rec \in Records,
           NEW shares, shares = BinShares(world, units, grid, rec)
    PROVE  RightShares(shares, rec, world)
  <1> DEFINE c == Common(rec.box, world)
             b == ValidBox(c)
             first == FirstBins(b, world, units, grid)
             last == LastBins(b, world, units, grid)
             columns == last[1] - first[1] + 1
             rows == last[2] - first[2] + 1
             bins == columns * rows
             x == (first[1] + last[1]) \div 2
             y == (first[2] + last[2]) \div 2
             all == [i \in 1..bins |-> CellShare(world, units, grid, rec, b, first, columns, i)]
  <1>1. shares = IF b = NoBox \/ ~IsDensityKind(rec.kind) THEN <<>>
                 ELSE IF bins > MaxBinsPerRect
                 THEN <<Share(world, units, grid, rec, x, y, Area(b))>>
                 ELSE all
    BY DEF BinShares, FirstBins, LastBins, CellShare
  <1>2. IsBox(rec.box) /\ IsBox(world)
    BY RecordIsBox DEF Records, IsWorld
  <1>3. /\ IsBox(c) /\ c # NoBox /\ Area(c) \in Int
        /\ world[1] <= c[1] /\ world[2] <= c[2] /\ c[3] <= world[3] /\ c[4] <= world[4]
    BY <1>2, CommonIs
  <1>4. /\ b = NoBox => Area(c) = 0
        /\ b # NoBox => b = c /\ c[1] < c[3] /\ c[2] < c[4]
    <2> HIDE DEF c
    <2>1. c[1] < c[3] /\ c[2] < c[4] => b = c /\ b # NoBox
      BY <1>3 DEF ValidBox
    <2>2. ~(c[1] < c[3] /\ c[2] < c[4]) => b = NoBox /\ Area(c) = 0
      BY <1>3, NothingInside DEF ValidBox
    <2> QED  BY <2>1, <2>2
  <1> HIDE DEF b, c
  <1>5. CASE b = NoBox \/ ~IsDensityKind(rec.kind)
    <2>1. shares = <<>>  BY <1>1, <1>5
    <2>2. DOMAIN shares = {} /\ shares \in Seq(ShareRecords)  BY <2>1
    <2>3. SumFunctionOnSet(AreasOf(shares), DOMAIN shares) = 0  BY <2>2, SumNone
    <2>4. IsDensityKind(rec.kind) => DrawnArea(rec, world) = 0
      BY <1>4, <1>5 DEF DrawnArea, c
    <2> QED  BY <2>2, <2>3, <2>4 DEF RightShares
  <1>6. CASE b # NoBox /\ IsDensityKind(rec.kind)
    <2>1. Inside(b, world)
      BY <1>2, <1>3, <1>4, <1>6 DEF Inside
    <2>2. DrawnArea(rec, world) = Area(b) /\ Area(b) \in Int
      BY <1>3, <1>4, <1>6 DEF DrawnArea, c
    <2>3. IsDensityKind(rec.kind)  BY <1>6
    <2> HIDE DEF all, bins, first, last, x, y
    <2>4. CASE bins > MaxBinsPerRect
      <3> DEFINE one == Share(world, units, grid, rec, x, y, Area(b))
      <3>1. shares = <<one>>  BY <1>1, <1>6, <2>4
      <3>2. x \in Int /\ y \in Int
        <4>1. ASSUME NEW d \in {1, 2} PROVE first[d] \in Nat /\ last[d] \in Nat
          BY <2>1, MarksIn DEF first, last
        <4>2. 1 \in {1, 2} /\ 2 \in {1, 2}  OBVIOUS
        <4>3. first[1] + last[1] \in Int /\ first[2] + last[2] \in Int  BY <4>1, <4>2
        <4> QED  BY <4>3 DEF x, y
      <3>3. one \in ShareRecords /\ one.layer = rec.layer /\ one.area = Area(b)
        BY <1>2, <2>2, <3>2, ShareTyped
      <3> HIDE DEF one
      <3>4. /\ shares \in Seq(ShareRecords) /\ DOMAIN shares = 1..1 /\ shares[1] = one
        BY <3>1, <3>3
      <3> DEFINE areas == AreasOf(shares)
      <3>5. areas[1] = Area(b)
        BY <3>3, <3>4 DEF AreasOf
      <3>6. SumFunctionOnSet(areas, 1..1) = areas[1]
        <4> HIDE DEF areas
        <4>0. IsFiniteSet({1})  BY FS_Singleton
        <4>1. IsFiniteSet({1}) /\ {1} \ {1} = {} /\ 1..1 = {1}  BY <4>0
        <4>2. IntOn(areas, {1})  BY <2>2, <3>5 DEF IntOn
        <4>3. 1 \in {1}  OBVIOUS
        <4>4. SumFunctionOnSet(areas, {1}) = areas[1] + SumFunctionOnSet(areas, {1} \ {1})
          BY <4>1, <4>2, <4>3, SumOut
        <4>5. SumFunctionOnSet(areas, {}) = 0  BY SumNone
        <4> QED  BY <2>2, <3>5, <4>1, <4>4, <4>5
      <3> QED  BY <2>2, <2>3, <3>3, <3>4, <3>5, <3>6 DEF RightShares
    <2>5. CASE ~(bins > MaxBinsPerRect)
      <3>1. shares = [i \in 1..bins |-> CellShare(world, units, grid, rec, b, first, columns, i)]
        BY <1>1, <1>6, <2>5 DEF all
      <3>2. Counts(first, last, columns, rows, bins)
        BY Zenon DEF Counts, bins
      <3> HIDE DEF columns, rows
      <3>3. /\ bins \in Nat /\ shares \in [1..bins -> ShareRecords]
            /\ \A i \in 1..bins : shares[i].layer = rec.layer
            /\ SumFunctionOnSet(AreasOf(shares), 1..bins) = (b[3] - b[1]) * (b[4] - b[2])
        <4>1. first = FirstBins(b, world, units, grid) /\ last = LastBins(b, world, units, grid)
          BY DEF first, last
        <4> QED  BY <2>1, <3>1, <3>2, <4>1, SpreadKeepsArea
      <3>4. Area(b) = (b[3] - b[1]) * (b[4] - b[2])
        <4>1. Most(b[3] - b[1], 0) = b[3] - b[1] /\ Most(b[4] - b[2], 0) = b[4] - b[2]
          BY <2>1 DEF Inside, IsBox, Most
        <4> QED  BY <4>1, Zenon DEF Area
      <3>5. shares \in Seq(ShareRecords) /\ DOMAIN shares = 1..bins
        BY <3>3, SeqDef
      <3>6. \A j \in DOMAIN shares : shares[j].layer = rec.layer
        BY <3>3, <3>5, Zenon
      <3>7. SumFunctionOnSet(AreasOf(shares), DOMAIN shares) = DrawnArea(rec, world)
        BY <2>2, <3>3, <3>4, <3>5, Zenon
      <3> QED  BY <2>3, <3>5, <3>6, <3>7, Zenon DEF RightShares
    <2> QED  BY <2>4, <2>5
  <1> QED  BY <1>5, <1>6

-----------------------------------------------------------------------------
(* A flattened sequence: where the elements of each part are.              *)

PlaceOf(seqs, i) == (Len(Upto(seqs, i - 1)) + 1)..Len(Upto(seqs, i))

LEMMA PlaceIs ==
    ASSUME NEW S, NEW seqs \in Seq(Seq(S)), NEW i \in 1..Len(seqs),
           NEW o, o = Len(Upto(seqs, i - 1))
    PROVE  /\ o \in Nat /\ Len(seqs[i]) \in Nat /\ DOMAIN seqs[i] = 1..Len(seqs[i])
           /\ PlaceOf(seqs, i) = (o + 1)..(o + Len(seqs[i]))
           /\ PlaceOf(seqs, i) \subseteq 1..Len(FlattenSeq(seqs))
           /\ \A x \in 1..Len(seqs[i]) : FlattenSeq(seqs)[o + x] = seqs[i][x]
  <1>1. LET flat == FlattenSeq(seqs)
            offset == Len(Upto(seqs, i - 1))
        IN  /\ flat \in Seq(S) /\ offset \in Nat /\ Len(seqs[i]) \in Nat /\ Len(flat) \in Nat
            /\ offset + Len(seqs[i]) <= Len(flat)
            /\ \A x \in 1..Len(seqs[i]) : flat[offset + x] = seqs[i][x]
    BY SlicesAt
  <1>2. Upto(seqs, i) = Upto(seqs, i - 1) \o seqs[i]
    BY UptoNext
  <1>3. Upto(seqs, i - 1) \in Seq(S) /\ seqs[i] \in Seq(S)
    <2>1. i - 1 \in 0..Len(seqs) /\ Len(seqs) \in Nat  BY LenProperties
    <2>2. seqs[i] \in Seq(S)  BY ElementOfSeq
    <2> QED  BY <2>1, <2>2, UptoTyped
  <1>4. Len(Upto(seqs, i)) = o + Len(seqs[i])
    BY <1>2, <1>3, ConcatProperties
  <1>5. DOMAIN seqs[i] = 1..Len(seqs[i])
    BY <1>3, LenProperties
  <1>6. PlaceOf(seqs, i) = (o + 1)..(o + Len(seqs[i]))
    BY <1>4, Zenon DEF PlaceOf
  <1>7. PlaceOf(seqs, i) \subseteq 1..Len(FlattenSeq(seqs))
    <2> DEFINE m == Len(seqs[i])
               n == Len(FlattenSeq(seqs))
    <2>1. o \in Nat /\ m \in Nat /\ n \in Nat /\ o + m <= n  BY <1>1
    <2> HIDE DEF m, n
    <2>2. (o + 1)..(o + m) \subseteq 1..n  BY <2>1
    <2> QED  BY <1>6, <2>2 DEF m, n
  <1> QED  BY <1>1, <1>5, <1>6, <1>7, Zenon

LEMMA PlacesCover ==
    ASSUME NEW S, NEW seqs \in Seq(Seq(S)), NEW j \in 1..Len(FlattenSeq(seqs))
    PROVE  \E i \in 1..Len(seqs) : j \in PlaceOf(seqs, i)
  <1> DEFINE n == Len(seqs)
             end(i) == Len(Upto(seqs, i))
             T == {i \in 0..n : j <= end(i)}
  <1>1. n \in Nat /\ end(n) = Len(FlattenSeq(seqs)) /\ end(0) = 0
    <2>1. Seq(S) = Seq(S)  OBVIOUS
    <2>2. Upto(seqs, Len(seqs)) = FlattenSeq(seqs)  BY UptoAll
    <2>3. Upto(seqs, 0) = <<>>  BY UptoNone
    <2> QED  BY <2>2, <2>3, LenProperties, EmptySeq
  <1>2. \A i \in 0..n : end(i) \in Nat
    <2>1. ASSUME NEW i \in 0..n PROVE end(i) \in Nat
      <3>1. Upto(seqs, i) \in Seq(S)  BY UptoTyped
      <3> QED  BY <3>1, LenProperties
    <2> QED  BY <2>1
  <1>3. j \in Nat /\ 1 <= j /\ j <= end(n)
    <2>1. end(n) \in Nat /\ j \in 1..end(n)  BY <1>1, <1>2
    <2> HIDE DEF end, n
    <2> QED  BY <2>1
  <1> HIDE DEF end
  <1> HIDE DEF n
  <1>4. T \subseteq Nat /\ T # {}
    <2>1. n \in 0..n  BY <1>1
    <2>2. n \in T  BY <1>3, <2>1
    <2>3. T \subseteq Nat  OBVIOUS
    <2> QED  BY <2>2, <2>3
  <1>5. PICK i \in T : \A k \in T : i <= k
    <2> HIDE DEF T
    <2> QED  BY <1>4, Smallest
  <1>6. i \in 1..n /\ i - 1 \in 0..n /\ i - 1 \notin T
    <2>1. i # 0  BY <1>1, <1>3
    <2>2. i \in 0..n  OBVIOUS
    <2> HIDE DEF T
    <2>3. i \in Nat /\ \A k \in T : i <= k  BY <1>1, <1>5, <2>2
    <2>4. i - 1 \notin T  BY <2>3
    <2>5. i \in 1..n /\ i - 1 \in 0..n  BY <1>1, <2>1, <2>2
    <2> QED  BY <2>4, <2>5
  <1>7. end(i - 1) < j /\ j <= end(i) /\ end(i - 1) \in Nat /\ end(i) \in Nat
    BY <1>2, <1>3, <1>6
  <1>8. j \in (end(i - 1) + 1)..end(i)
    BY <1>3, <1>7
  <1> QED  BY <1>6, <1>8 DEF PlaceOf, end, n

LEMMA PlacesApart ==
    ASSUME NEW S, NEW seqs \in Seq(Seq(S)), NEW i \in 1..Len(seqs), NEW k \in 1..Len(seqs),
           i < k
    PROVE  PlaceOf(seqs, i) \cap PlaceOf(seqs, k) = {}
  <1>1. i \in 0..Len(seqs) /\ k - 1 \in i..Len(seqs) /\ k - 1 \in 0..Len(seqs) /\ k \in 0..Len(seqs)
    BY LenProperties
  <1>2. Len(Upto(seqs, i)) <= Len(Upto(seqs, k - 1))
    BY <1>1, UptoIsPrefix
  <1> DEFINE e == Len(Upto(seqs, i))
             a == Len(Upto(seqs, k - 1))
  <1>3. e \in Nat /\ a \in Nat /\ Len(Upto(seqs, k)) \in Nat /\ Len(Upto(seqs, i - 1)) \in Nat
    <2>1. i - 1 \in 0..Len(seqs)  BY LenProperties
    <2>2. /\ Upto(seqs, i) \in Seq(S) /\ Upto(seqs, k - 1) \in Seq(S)
          /\ Upto(seqs, k) \in Seq(S) /\ Upto(seqs, i - 1) \in Seq(S)
      BY <1>1, <2>1, UptoTyped
    <2> QED  BY <2>2, LenProperties
  <1> HIDE DEF e, a
  <1>4. PlaceOf(seqs, i) \subseteq 1..e
    BY <1>3 DEF PlaceOf, e
  <1>5. \A j \in PlaceOf(seqs, k) : a < j
    BY <1>3 DEF PlaceOf, a
  <1>6. e <= a
    BY <1>2 DEF e, a
  <1> QED  BY <1>3, <1>4, <1>5, <1>6

\* Every part is of one layer, and h says what its areas sum up to.
OneLayerEach(parts, lay, h) ==
    \A i \in 1..Len(parts) :
      /\ \A j \in DOMAIN parts[i] : parts[i][j].layer = lay[i]
      /\ h[i] = SumFunctionOnSet(AreasOf(parts[i]), DOMAIN parts[i])
OfLayer(shares, l) == {j \in DOMAIN shares : shares[j].layer = l}

LEMMA LayerSum ==
    ASSUME NEW parts \in Seq(Seq(ShareRecords)), NEW shares, shares = FlattenSeq(parts),
           NEW lay, NEW h, OneLayerEach(parts, lay, h), NEW l,
           NEW K, K = {i \in 1..Len(parts) : lay[i] = l}
    PROVE  /\ shares \in Seq(ShareRecords)
           /\ SumFunctionOnSet(AreasOf(shares), OfLayer(shares, l)) = SumFunctionOnSet(h, K)
  <1> DEFINE m == Len(parts)
             n == Len(shares)
             T == OfLayer(shares, l)
             P == [i \in K |-> PlaceOf(parts, i)]
             areas == AreasOf(shares)
  <1>1. shares \in Seq(ShareRecords) /\ m \in Nat /\ n \in Nat /\ DOMAIN shares = 1..n
    <2>1. Upto(parts, Len(parts)) = FlattenSeq(parts)  BY UptoAll
    <2>2. Len(parts) \in Nat /\ Len(parts) \in 0..Len(parts)  BY LenProperties
    <2>3. shares \in Seq(ShareRecords)  BY <2>1, <2>2, UptoTyped
    <2> QED  BY <2>2, <2>3, LenProperties
  <1>2. ASSUME NEW j \in 1..n PROVE areas[j] = shares[j].area /\ areas[j] \in Int
    <2>1. shares[j] \in ShareRecords  BY <1>1, ElementOfSeq
    <2> QED  BY <1>1, <2>1 DEF AreasOf, ShareRecords
  <1>3. ASSUME NEW i \in 1..m
        PROVE  /\ PlaceOf(parts, i) \subseteq 1..n
               /\ \A j \in PlaceOf(parts, i) : shares[j].layer = lay[i]
               /\ SumFunctionOnSet(areas, PlaceOf(parts, i)) = h[i]
    <2> DEFINE o == Len(Upto(parts, i - 1))
               k == Len(parts[i])
               own == AreasOf(parts[i])
    <2>1. /\ o \in Nat /\ k \in Nat /\ DOMAIN parts[i] = 1..k
          /\ PlaceOf(parts, i) = (o + 1)..(o + k)
          /\ PlaceOf(parts, i) \subseteq 1..n
          /\ \A x \in 1..k : shares[o + x] = parts[i][x]
      BY PlaceIs
    <2>2. /\ \A x \in 1..k : parts[i][x].layer = lay[i]
          /\ h[i] = SumFunctionOnSet(own, 1..k)
      BY <2>1 DEF OneLayerEach
    <2>3. ASSUME NEW x \in 1..k PROVE own[x] = parts[i][x].area
      BY <2>1 DEF AreasOf
    <2> HIDE DEF o, k, own, n, areas
    <2>4. ASSUME NEW j \in PlaceOf(parts, i) PROVE shares[j].layer = lay[i]
      <3>1. j - o \in 1..k /\ o + (j - o) = j  BY <2>1
      <3> QED  BY <2>1, <2>2, <3>1
    <2>5. ASSUME NEW x \in 1..k PROVE areas[o + x] = own[x] /\ own[x] \in Int
      <3>1. o + x \in 1..n
        <4>1. o + x \in (o + 1)..(o + k)  BY <2>1
        <4> QED  BY <2>1, <4>1
      <3> QED  BY <1>2, <2>1, <2>3, <3>1
    <2>6. SumFunctionOnSet(areas, (o + 1)..(o + k)) = SumFunctionOnSet(own, 1..k)
      <3>1. IntOn(own, 1..k)  BY <2>5 DEF IntOn
      <3>2. Shifted(areas, own, o, k)  BY <2>5 DEF Shifted
      <3>3. o \in Int /\ k \in Nat  BY <2>1
      <3> QED  BY <3>1, <3>2, <3>3, SumShift
    <2> QED  BY <2>1, <2>2, <2>4, <2>6
  <1>4. Parts(P, K, T)
    <2>1. ASSUME NEW i \in K PROVE P[i] = PlaceOf(parts, i) /\ P[i] \in SUBSET T
      <3>1. i \in 1..m /\ lay[i] = l  OBVIOUS
      <3>2. P[i] = PlaceOf(parts, i)  OBVIOUS
      <3> HIDE DEF P, m
      <3>3. ASSUME NEW j \in PlaceOf(parts, i) PROVE j \in T
        BY <1>1, <1>3, <3>1 DEF OfLayer
      <3> QED  BY <3>2, <3>3
    <2>2. P \in [K -> SUBSET T]
      <3>1. P = [i \in K |-> P[i]]  OBVIOUS
      <3> HIDE DEF P
      <3> QED  BY <2>1, <3>1
    <2>3. ASSUME NEW i \in K, NEW k \in K, i # k PROVE P[i] \cap P[k] = {}
      <3>1. i \in 1..m /\ k \in 1..m /\ i \in Int /\ k \in Int  OBVIOUS
      <3>2. CASE i < k
        BY <2>1, <3>1, <3>2, PlacesApart
      <3>3. CASE k < i
        <4>1. PlaceOf(parts, k) \cap PlaceOf(parts, i) = {}  BY <3>1, <3>3, PlacesApart
        <4> HIDE DEF P
        <4> QED  BY <2>1, <4>1
      <3>4. i < k \/ k < i  BY <2>3, <3>1
      <3> QED  BY <3>2, <3>3, <3>4
    <2>4. Joined(P, K) = T
      <3>1. Joined(P, K) \subseteq T
        <4> HIDE DEF P, T
        <4> QED  BY <2>1 DEF Joined
      <3>2. ASSUME NEW j \in T PROVE j \in Joined(P, K)
        <4>1. j \in 1..n /\ shares[j].layer = l  BY <1>1 DEF OfLayer
        <4>2. PICK i \in 1..m : j \in PlaceOf(parts, i)
          <5>1. j \in 1..Len(FlattenSeq(parts))  BY <4>1
          <5> QED  BY <5>1, PlacesCover
        <4>3. lay[i] = l  BY <1>3, <4>1, <4>2
        <4>4. i \in K  BY <4>3
        <4> HIDE DEF P
        <4> QED  BY <2>1, <4>2, <4>4 DEF Joined
      <3> QED  BY <3>1, <3>2
    <2> HIDE DEF P, T
    <2> QED  BY <2>2, <2>3, <2>4 DEF Parts
  <1> HIDE DEF P, T
  <1>5. IsFiniteSet(T) /\ IntOn(areas, T) /\ IsFiniteSet(K)
    <2>1. IsFiniteSet(1..n) /\ IsFiniteSet(1..m)  BY <1>1, FS_Interval
    <2>2. T \subseteq 1..n  BY <1>1 DEF T, OfLayer
    <2>3. K \subseteq 1..m  OBVIOUS
    <2> HIDE DEF n, m, areas
    <2>4. IsFiniteSet(T) /\ IsFiniteSet(K)  BY <2>1, <2>2, <2>3, FS_Subset
    <2>5. IntOn(areas, T)  BY <1>2, <2>2 DEF IntOn
    <2> QED  BY <2>4, <2>5
  <1>6. /\ SumFunctionOnSet(PartSums(areas, P), K) = SumFunctionOnSet(areas, T)
        /\ \A i \in K : PartSums(areas, P)[i] = SumFunctionOnSet(areas, P[i])
    <2> HIDE DEF areas
    <2> QED  BY <1>4, <1>5, SumParts
  <1>7. \A i \in K : PartSums(areas, P)[i] = h[i]
    <2>1. ASSUME NEW i \in K PROVE PartSums(areas, P)[i] = h[i]
      <3>1. i \in 1..m  OBVIOUS
      <3>2. P[i] = PlaceOf(parts, i)  BY DEF P
      <3> HIDE DEF areas, m
      <3> QED  BY <1>3, <1>6, <3>1, <3>2
    <2> QED  BY <2>1
  <1>8. SumFunctionOnSet(PartSums(areas, P), K) = SumFunctionOnSet(h, K)
    <2> DEFINE sums == PartSums(areas, P)
    <2>1. \A i \in K : sums[i] = h[i]  BY <1>7
    <2> HIDE DEF sums
    <2>2. SumFunctionOnSet(sums, K) = SumFunctionOnSet(h, K)  BY <1>5, <2>1, SumSame
    <2> QED  BY <2>2 DEF sums
  <1> QED  BY <1>1, <1>6, <1>8 DEF T

KeyTuples == Int \X Int \X Int \X Int

LEMMA LexicalIs ==
    ASSUME NEW s \in KeyTuples, NEW t \in KeyTuples
    PROVE  /\ Lexical(s, t) <=> \/ s[1] < t[1]
                                \/ s[1] = t[1] /\ s[2] < t[2]
                                \/ s[1] = t[1] /\ s[2] = t[2] /\ s[3] < t[3]
                                \/ s[1] = t[1] /\ s[2] = t[2] /\ s[3] = t[3] /\ s[4] < t[4]
           /\ s[1] = t[1] /\ s[2] = t[2] /\ s[3] = t[3] /\ s[4] = t[4] => s = t
  <1>1. DOMAIN s = 1..4 /\ DOMAIN t = 1..4
    BY DEF KeyTuples
  <1>2. /\ 1..(1 - 1) = {} /\ 1..(2 - 1) = {1} /\ 1..(3 - 1) = {1, 2}
        /\ 1..(4 - 1) = {1, 2, 3} /\ 1..4 = {1, 2, 3, 4}
    OBVIOUS
  <1>3. Lexical(s, t) <=> \E i \in DOMAIN s : s[i] < t[i] /\ \A j \in 1..(i - 1) : s[j] = t[j]
    BY Zenon DEF Lexical
  <1>4. Lexical(s, t) <=> \/ s[1] < t[1]
                          \/ s[2] < t[2] /\ s[1] = t[1]
                          \/ s[3] < t[3] /\ s[1] = t[1] /\ s[2] = t[2]
                          \/ s[4] < t[4] /\ s[1] = t[1] /\ s[2] = t[2] /\ s[3] = t[3]
    BY <1>1, <1>2, <1>3
  <1>5. s[1] = t[1] /\ s[2] = t[2] /\ s[3] = t[3] /\ s[4] = t[4] => s = t
    BY DEF KeyTuples
  <1> QED  BY <1>4, <1>5

LEMMA KeysInOrder ==
    ASSUME NEW T, IsFiniteSet(T), T \subseteq KeyTuples, NEW all, all = InOrder(T, Lexical)
    PROVE  /\ Cardinality(T) \in Nat /\ DOMAIN all = 1..Cardinality(T)
           /\ Len(all) = Cardinality(T)
           /\ \A i \in DOMAIN all : all[i] \in T
           /\ \A i, j \in DOMAIN all : all[i] = all[j] => i = j
           /\ \A s \in T : \E i \in DOMAIN all : all[i] = s
  <1> DEFINE below == [s \in T |-> {t \in T : Lexical(t, s)}]
  <1>1. ASSUME NEW s \in T, NEW t \in T
        PROVE  /\ Lexical(s, t) <=> \/ s[1] < t[1]
                                    \/ s[1] = t[1] /\ s[2] < t[2]
                                    \/ s[1] = t[1] /\ s[2] = t[2] /\ s[3] < t[3]
                                    \/ s[1] = t[1] /\ s[2] = t[2] /\ s[3] = t[3] /\ s[4] < t[4]
               /\ s[1] = t[1] /\ s[2] = t[2] /\ s[3] = t[3] /\ s[4] = t[4] => s = t
    <2>1. s \in KeyTuples /\ t \in KeyTuples  OBVIOUS
    <2> QED  BY <2>1, LexicalIs
  <1>2. ASSUME NEW s \in T
        PROVE  s[1] \in Int /\ s[2] \in Int /\ s[3] \in Int /\ s[4] \in Int
    <2>1. s \in KeyTuples  OBVIOUS
    <2> QED  BY <2>1 DEF KeyTuples
  <1>3. ASSUME NEW s \in T PROVE ~Lexical(s, s)
    BY <1>1, <1>2
  <1>4. ASSUME NEW s \in T, NEW t \in T, s # t PROVE Lexical(s, t) \/ Lexical(t, s)
    <2>1. s[1] # t[1] \/ s[2] # t[2] \/ s[3] # t[3] \/ s[4] # t[4]  BY <1>1, <1>4
    <2>2. /\ s[1] \in Int /\ s[2] \in Int /\ s[3] \in Int /\ s[4] \in Int
          /\ t[1] \in Int /\ t[2] \in Int /\ t[3] \in Int /\ t[4] \in Int
      BY <1>2
    <2> DEFINE lower  == \/ s[1] < t[1]
                         \/ s[1] = t[1] /\ s[2] < t[2]
                         \/ s[1] = t[1] /\ s[2] = t[2] /\ s[3] < t[3]
                         \/ s[1] = t[1] /\ s[2] = t[2] /\ s[3] = t[3] /\ s[4] < t[4]
               higher == \/ t[1] < s[1]
                         \/ t[1] = s[1] /\ t[2] < s[2]
                         \/ t[1] = s[1] /\ t[2] = s[2] /\ t[3] < s[3]
                         \/ t[1] = s[1] /\ t[2] = s[2] /\ t[3] = s[3] /\ t[4] < s[4]
    <2>3. lower \/ higher
      <3>1. CASE s[1] # t[1]  BY <2>2, <3>1
      <3>2. CASE s[1] = t[1] /\ s[2] # t[2]  BY <2>2, <3>2
      <3>3. CASE s[1] = t[1] /\ s[2] = t[2] /\ s[3] # t[3]  BY <2>2, <3>3
      <3>4. CASE s[1] = t[1] /\ s[2] = t[2] /\ s[3] = t[3] /\ s[4] # t[4]  BY <2>2, <3>4
      <3> QED  BY <2>1, <3>1, <3>2, <3>3, <3>4
    <2>4. (lower => Lexical(s, t)) /\ (higher => Lexical(t, s))  BY <1>1
    <2> HIDE DEF lower, higher
    <2> QED  BY <2>3, <2>4
  <1>5. ASSUME NEW r \in T, NEW s \in T, NEW t \in T, Lexical(r, s), Lexical(s, t)
        PROVE  Lexical(r, t)
    BY <1>1, <1>2, <1>5
  <1>6. OrdersAll(below, T)
    BY <1>3, <1>4, <1>5 DEF OrdersAll
  <1>7. all = Ranked(below, T)
    <2>1. all = [i \in 1..Cardinality(T) |->
                   CHOOSE s \in T : Cardinality({t \in T : Lexical(t, s)}) = i - 1]
      BY Zenon DEF InOrder
    <2>2. \A s \in T : below[s] = {t \in T : Lexical(t, s)}
      BY Zenon
    <2>3. ASSUME NEW i
          PROVE (CHOOSE s \in T : Cardinality(below[s]) = i - 1)
                  = (CHOOSE s \in T : Cardinality({t \in T : Lexical(t, s)}) = i - 1)
      BY <2>2
    <2> HIDE DEF below
    <2> QED  BY <2>1, <2>3, Zenon DEF Ranked
  <1> HIDE DEF below
  <1> QED  BY <1>6, <1>7, AllInOrder

-----------------------------------------------------------------------------
(* The shares of a level gathered in its bins.                             *)

LEMMA ShareKeyIs ==
    ASSUME NEW s \in ShareRecords PROVE ShareKey(s) \in KeyTuples /\ ShareKey(s)[3] = s.layer
  <1>1. s.x \in Int /\ s.y \in Int /\ s.layer \in Int /\ s.kind \in Kinds
    BY DEF ShareRecords
  <1>2. Code(s.kind) \in Int
    BY <1>1, CodeIs
  <1> QED  BY <1>1, <1>2 DEF ShareKey, KeyTuples

LEMMA BinIs ==
    ASSUME NEW shares \in Seq(ShareRecords), NEW key \in ShareKeys(shares),
           NEW own, own = SharesOf(shares, key), NEW bin, bin = LevelBin(shares, key)
    PROVE  /\ own \subseteq DOMAIN shares /\ own # {}
           /\ \A j \in own : ShareKey(shares[j]) = key /\ shares[j].layer = key[3]
           /\ bin \in BinRecords /\ bin.layer = key[3]
           /\ bin.area = SumFunctionOnSet(AreasOf(shares), own)
  <1>1. own \subseteq DOMAIN shares /\ own # {} /\ \A j \in own : ShareKey(shares[j]) = key
    BY DEF SharesOf, ShareKeys
  <1>2. \A j \in DOMAIN shares : shares[j] \in ShareRecords
    BY ElementOfSeq, LenProperties
  <1>3. \A j \in own : shares[j].layer = key[3]
    <2>1. ASSUME NEW j \in own PROVE shares[j].layer = key[3]
      <3>1. shares[j] \in ShareRecords /\ ShareKey(shares[j]) = key  BY <1>1, <1>2
      <3> QED  BY <3>1, ShareKeyIs
    <2> QED  BY <2>1
  <1>4. IsFiniteSet(own) /\ Cardinality(own) \in Nat
    <2>1. Len(shares) \in Nat /\ DOMAIN shares = 1..Len(shares)  BY LenProperties
    <2>2. IsFiniteSet(DOMAIN shares)  BY <2>1, FS_Interval
    <2>3. IsFiniteSet(own)  BY <1>1, <2>2, FS_Subset
    <2> QED  BY <2>3, FS_CardinalityType
  <1> DEFINE f == CHOOSE j \in own : TRUE
             first == shares[f]
             areas == [j \in own |-> shares[j].area]
  <1>5. f \in own
    BY <1>1, Zenon
  <1>6. first \in ShareRecords /\ first.layer = key[3]
    <2> HIDE DEF f
    <2> QED  BY <1>1, <1>2, <1>3, <1>5
  <1>7. bin = [box |-> first.box, layer |-> first.layer, kind |-> first.kind,
               count |-> Cardinality(own), area |-> SumFunctionOnSet(areas, own)]
    BY Zenon DEF LevelBin
  <1> HIDE DEF f, first
  <1>8. \A j \in own : areas[j] = AreasOf(shares)[j] /\ areas[j] \in Int
    BY <1>1, <1>2 DEF AreasOf, ShareRecords
  <1> HIDE DEF areas
  <1>9. SumFunctionOnSet(areas, own) = SumFunctionOnSet(AreasOf(shares), own)
    <2> DEFINE g == AreasOf(shares)
    <2>1. \A j \in own : areas[j] = g[j]  BY <1>8
    <2> HIDE DEF g
    <2>2. SumFunctionOnSet(areas, own) = SumFunctionOnSet(g, own)  BY <1>4, <2>1, SumSame
    <2> QED  BY <2>2 DEF g
  <1>10. SumFunctionOnSet(areas, own) \in Int
    BY <1>4, <1>8, SumTyped
  <1> DEFINE total == SumFunctionOnSet(areas, own)
             count == Cardinality(own)
  <1>11. total \in Int /\ count \in Int
    BY <1>4, <1>10
  <1>12. bin = [box |-> first.box, layer |-> first.layer, kind |-> first.kind,
                count |-> count, area |-> total]
    BY <1>7
  <1> HIDE DEF total, count
  <1>13. bin \in BinRecords /\ bin.layer = key[3] /\ bin.area = total
    BY <1>6, <1>11, <1>12 DEF BinRecords, ShareRecords
  <1> QED  BY <1>1, <1>3, <1>9, <1>13 DEF total

LEMMA BinsKeepAreas ==
    ASSUME NEW shares \in Seq(ShareRecords),
           NEW keys, keys = InOrder(ShareKeys(shares), Lexical),
           NEW bins, bins = [i \in DOMAIN keys |-> LevelBin(shares, keys[i])], NEW l
    PROVE  /\ bins \in Seq(BinRecords)
           /\ SumFunctionOnSet(AreasOf(bins), OfLayer(bins, l))
                = SumFunctionOnSet(AreasOf(shares), OfLayer(shares, l))
  <1> DEFINE all == ShareKeys(shares)
             n == Cardinality(all)
             K == OfLayer(bins, l)
             T == OfLayer(shares, l)
             P == [i \in K |-> SharesOf(shares, keys[i])]
             areas == AreasOf(shares)
  <1>1. /\ \A j \in DOMAIN shares : shares[j] \in ShareRecords
        /\ IsFiniteSet(DOMAIN shares)
    <2>1. Len(shares) \in Nat /\ DOMAIN shares = 1..Len(shares)  BY LenProperties
    <2>2. IsFiniteSet(DOMAIN shares)  BY <2>1, FS_Interval
    <2> QED  BY <2>2, ElementOfSeq, LenProperties
  <1>2. IsFiniteSet(all) /\ all \subseteq KeyTuples
    <2> DEFINE f == [j \in DOMAIN shares |-> ShareKey(shares[j])]
    <2>1. all = {f[j] : j \in DOMAIN f}  BY DEF ShareKeys
    <2>2. IsFiniteSet(DOMAIN f) /\ f = [j \in DOMAIN f |-> f[j]]  BY <1>1
    <2> HIDE DEF f
    <2>3. IsFiniteSet({f[j] : j \in DOMAIN f})  BY <2>2, ImageFinite
    <2>4. all \subseteq KeyTuples  BY <1>1, ShareKeyIs DEF ShareKeys
    <2> HIDE DEF all
    <2> QED  BY <2>1, <2>3, <2>4
  <1> HIDE DEF all
  <1>3. /\ n \in Nat /\ DOMAIN keys = 1..n
        /\ \A i \in 1..n : keys[i] \in all
        /\ \A i, j \in 1..n : keys[i] = keys[j] => i = j
        /\ \A s \in all : \E i \in 1..n : keys[i] = s
    <2>1. keys = InOrder(all, Lexical)  BY DEF all
    <2>2. /\ Cardinality(all) \in Nat /\ DOMAIN keys = 1..Cardinality(all)
          /\ \A i \in DOMAIN keys : keys[i] \in all
          /\ \A i, j \in DOMAIN keys : keys[i] = keys[j] => i = j
          /\ \A s \in all : \E i \in DOMAIN keys : keys[i] = s
      BY <1>2, <2>1, KeysInOrder
    <2> QED  BY <2>2
  <1> HIDE DEF n
  <1>4. ASSUME NEW i \in 1..n
        PROVE  /\ SharesOf(shares, keys[i]) \subseteq DOMAIN shares
               /\ \A j \in SharesOf(shares, keys[i]) :
                    ShareKey(shares[j]) = keys[i] /\ shares[j].layer = bins[i].layer
               /\ bins[i] \in BinRecords
               /\ bins[i].area = SumFunctionOnSet(areas, SharesOf(shares, keys[i]))
    <2> DEFINE key == keys[i]
               own == SharesOf(shares, key)
               bin == LevelBin(shares, key)
    <2>1. bins[i] = bin /\ key \in ShareKeys(shares)
      BY <1>3 DEF all
    <2> HIDE DEF key, bin, areas, own
    <2>2. own = SharesOf(shares, key) /\ bin = LevelBin(shares, key)  BY DEF own, bin
    <2>3. /\ own \subseteq DOMAIN shares /\ own # {}
          /\ \A j \in own : ShareKey(shares[j]) = key /\ shares[j].layer = key[3]
          /\ bin \in BinRecords /\ bin.layer = key[3]
          /\ bin.area = SumFunctionOnSet(AreasOf(shares), own)
      BY <2>1, <2>2, BinIs
    <2> QED  BY <2>1, <2>3 DEF key, own, areas
  <1>5. DOMAIN bins = 1..n /\ bins \in Seq(BinRecords)
    <2>1. DOMAIN bins = 1..n /\ bins = [i \in 1..n |-> bins[i]]  BY <1>3
    <2>2. bins \in [1..n -> BinRecords]  BY <1>4, <2>1
    <2> QED  BY <1>3, <2>1, <2>2, SeqDef
  <1>6. Parts(P, K, T)
    <2>1. ASSUME NEW i \in K
          PROVE  i \in 1..n /\ P[i] = SharesOf(shares, keys[i]) /\ P[i] \in SUBSET T
      <3>1. i \in 1..n /\ bins[i].layer = l  BY <1>5 DEF OfLayer
      <3>2. P[i] = SharesOf(shares, keys[i])  OBVIOUS
      <3>3. SharesOf(shares, keys[i]) \subseteq T  BY <1>4, <3>1 DEF OfLayer
      <3> HIDE DEF P, K, T
      <3> QED  BY <3>1, <3>2, <3>3
    <2>2. P \in [K -> SUBSET T]
      <3>1. P = [i \in K |-> P[i]]  OBVIOUS
      <3> HIDE DEF P
      <3> QED  BY <2>1, <3>1
    <2> HIDE DEF P, K, T
    <2>3. ASSUME NEW i \in K, NEW k \in K, i # k PROVE P[i] \cap P[k] = {}
      <3>1. ASSUME NEW j \in P[i], j \in P[k] PROVE FALSE
        <4>1. ShareKey(shares[j]) = keys[i] /\ ShareKey(shares[j]) = keys[k]
          BY <1>4, <2>1, <3>1
        <4>2. i \in 1..n /\ k \in 1..n /\ keys[i] = keys[k]  BY <2>1, <4>1
        <4>3. i = k  BY <1>3, <4>2, Zenon
        <4> QED  BY <2>3, <4>3
      <3> QED  BY <3>1
    <2>4. ASSUME NEW j \in T PROVE j \in Joined(P, K)
      <3>1. j \in DOMAIN shares /\ shares[j].layer = l  BY DEF T, OfLayer
      <3>2. ShareKey(shares[j]) \in all  BY <3>1 DEF all, ShareKeys
      <3>3. PICK i \in 1..n : keys[i] = ShareKey(shares[j])  BY <1>3, <3>2
      <3>4. j \in SharesOf(shares, keys[i])  BY <3>1, <3>3 DEF SharesOf
      <3>5. bins[i].layer = l  BY <1>4, <3>1, <3>4
      <3>6. i \in K  BY <1>5, <3>5 DEF K, OfLayer
      <3> QED  BY <2>1, <3>4, <3>6 DEF Joined
    <2>5. Joined(P, K) = T
      <3>1. Joined(P, K) \subseteq T  BY <2>1 DEF Joined
      <3> QED  BY <2>4, <3>1
    <2> QED  BY <2>2, <2>3, <2>5 DEF Parts
  <1>7. IsFiniteSet(T) /\ IntOn(areas, T) /\ IsFiniteSet(K)
    <2>1. IsFiniteSet(1..n)  BY <1>3, FS_Interval
    <2>2. T \subseteq DOMAIN shares /\ K \subseteq 1..n  BY <1>5 DEF OfLayer
    <2>3. \A j \in DOMAIN shares : areas[j] \in Int  BY <1>1 DEF AreasOf, ShareRecords
    <2> HIDE DEF T, K, areas
    <2>4. IsFiniteSet(T) /\ IsFiniteSet(K)  BY <1>1, <2>1, <2>2, FS_Subset
    <2> QED  BY <2>2, <2>3, <2>4 DEF IntOn
  <1> HIDE DEF P
  <1>8. /\ SumFunctionOnSet(PartSums(areas, P), K) = SumFunctionOnSet(areas, T)
        /\ \A i \in K : PartSums(areas, P)[i] = SumFunctionOnSet(areas, P[i])
    <2> HIDE DEF areas, K, T
    <2> QED  BY <1>6, <1>7, SumParts
  <1>9. \A i \in K : AreasOf(bins)[i] = PartSums(areas, P)[i]
    <2>1. ASSUME NEW i \in K PROVE AreasOf(bins)[i] = PartSums(areas, P)[i]
      <3>1. i \in 1..n  BY <1>5 DEF OfLayer
      <3>2. P[i] = SharesOf(shares, keys[i])  BY DEF P
      <3>3. AreasOf(bins)[i] = bins[i].area  BY <1>5, <3>1 DEF AreasOf
      <3> HIDE DEF areas, K
      <3> QED  BY <1>4, <1>8, <3>1, <3>2, <3>3
    <2> QED  BY <2>1
  <1>10. SumFunctionOnSet(AreasOf(bins), K) = SumFunctionOnSet(PartSums(areas, P), K)
    <2> DEFINE f == AreasOf(bins)
               g == PartSums(areas, P)
    <2>1. \A i \in K : f[i] = g[i]  BY <1>9
    <2> HIDE DEF f, g, K
    <2>2. SumFunctionOnSet(f, K) = SumFunctionOnSet(g, K)  BY <1>7, <2>1, SumSame
    <2> QED  BY <2>2 DEF f, g
  <1> QED  BY <1>5, <1>8, <1>10

-----------------------------------------------------------------------------
(* A level of the pyramid keeps the area of what is drawn.                 *)

DrawnAreas(rects, world) == [i \in DOMAIN rects |-> Area(Common(rects[i].box, world))]
Drawing(rects, l) == {i \in DOMAIN rects : rects[i].layer = l /\ IsDensityKind(rects[i].kind)}

LEMMA LevelSharesKeepAreas ==
    ASSUME NEW world, IsWorld(world), NEW units \in Nat \ {0}, NEW rects \in Seq(Records),
           NEW shares, shares = LevelShares(world, units, rects), NEW l
    PROVE  /\ shares \in Seq(ShareRecords)
           /\ SumFunctionOnSet(AreasOf(shares), OfLayer(shares, l))
                = SumFunctionOnSet(DrawnAreas(rects, world), Drawing(rects, l))
  <1> DEFINE n == Len(rects)
             grid == LevelGrid(world, units)
             parts == [i \in DOMAIN rects |-> BinShares(world, units, grid, rects[i])]
             lay == [i \in DOMAIN rects |-> rects[i].layer]
             h == [i \in DOMAIN rects |-> IF IsDensityKind(rects[i].kind)
                                          THEN DrawnArea(rects[i], world) ELSE 0]
             K == {i \in 1..n : lay[i] = l}
             T == Drawing(rects, l)
             drawn == DrawnAreas(rects, world)
  <1>1. n \in Nat /\ DOMAIN rects = 1..n /\ \A i \in 1..n : rects[i] \in Records
    BY LenProperties, ElementOfSeq
  <1>2. ASSUME NEW i \in 1..n
        PROVE  /\ parts[i] \in Seq(ShareRecords)
               /\ \A j \in DOMAIN parts[i] : parts[i][j].layer = rects[i].layer
               /\ SumFunctionOnSet(AreasOf(parts[i]), DOMAIN parts[i])
                    = IF IsDensityKind(rects[i].kind) THEN DrawnArea(rects[i], world) ELSE 0
    <2> DEFINE own == parts[i]
               rec == rects[i]
    <2>1. own = BinShares(world, units, grid, rec) /\ rec \in Records  BY <1>1
    <2> HIDE DEF own, rec, grid
    <2>2. grid = LevelGrid(world, units)  BY DEF grid
    <2>3. /\ own \in Seq(ShareRecords)
          /\ \A j \in DOMAIN own : own[j].layer = rec.layer
          /\ SumFunctionOnSet(AreasOf(own), DOMAIN own)
               = IF IsDensityKind(rec.kind) THEN DrawnArea(rec, world) ELSE 0
      <3>1. RightShares(own, rec, world)  BY <2>1, <2>2, SharesOfRect
      <3> QED  BY <3>1 DEF RightShares
    <2> QED  BY <2>3 DEF own, rec
  <1>3. parts \in Seq(Seq(ShareRecords)) /\ Len(parts) = n /\ shares = FlattenSeq(parts)
    <2>1. shares = FlattenSeq(parts)  BY Zenon DEF LevelShares
    <2>2. DOMAIN parts = 1..n /\ parts = [i \in 1..n |-> parts[i]]  BY <1>1
    <2> HIDE DEF parts
    <2>3. parts \in [1..n -> Seq(ShareRecords)]  BY <1>2, <2>2
    <2> HIDE DEF n
    <2>4. parts \in Seq(Seq(ShareRecords)) /\ Len(parts) = n  BY <1>1, <2>3, SeqDef, LenProperties
    <2> QED  BY <2>1, <2>4
  <1> HIDE DEF parts
  <1>4. OneLayerEach(parts, lay, h)
    <2>1. \A i \in 1..n : lay[i] = rects[i].layer
      BY <1>1
    <2>2. \A i \in 1..n : h[i] = IF IsDensityKind(rects[i].kind)
                                 THEN DrawnArea(rects[i], world) ELSE 0
      BY <1>1
    <2> HIDE DEF lay, h
    <2> QED  BY <1>2, <1>3, <2>1, <2>2 DEF OneLayerEach
  <1>5. /\ shares \in Seq(ShareRecords)
        /\ SumFunctionOnSet(AreasOf(shares), OfLayer(shares, l)) = SumFunctionOnSet(h, K)
    <2>1. K = {i \in 1..Len(parts) : lay[i] = l}  BY <1>3
    <2> HIDE DEF K, h, lay
    <2> QED  BY <1>3, <1>4, <2>1, LayerSum
  <1>6. SumFunctionOnSet(h, K) = SumFunctionOnSet(drawn, T)
    <2>1. IsFiniteSet(K)
      <3>1. IsFiniteSet(1..n)  BY <1>1, FS_Interval
      <3>2. K \subseteq 1..n  OBVIOUS
      <3> HIDE DEF K
      <3> QED  BY <3>1, <3>2, FS_Subset
    <2>2. ASSUME NEW i \in K
          PROVE  /\ i \in 1..n /\ rects[i].layer = l /\ drawn[i] \in Int
                 /\ drawn[i] = DrawnArea(rects[i], world)
                 /\ h[i] = IF IsDensityKind(rects[i].kind) THEN drawn[i] ELSE 0
      <3>1. i \in 1..n /\ rects[i].layer = l  BY <1>1
      <3>2. drawn[i] = DrawnArea(rects[i], world)  BY <1>1, <3>1 DEF DrawnAreas, DrawnArea
      <3>3. DrawnArea(rects[i], world) \in Int
        <4>1. rects[i] \in Records /\ IsBox(world)  BY <1>1, <3>1 DEF IsWorld
        <4>2. IsBox(rects[i].box)  BY <4>1, RecordIsBox DEF Records
        <4> QED  BY <4>1, <4>2, CommonIs DEF DrawnArea
      <3>4. h[i] = IF IsDensityKind(rects[i].kind) THEN DrawnArea(rects[i], world) ELSE 0
        BY <1>1, <3>1
      <3> HIDE DEF K, h, drawn
      <3> QED  BY <3>1, <3>2, <3>3, <3>4
    <2>3. T = {i \in K : IsDensityKind(rects[i].kind)}
      BY <1>1 DEF Drawing
    <2> HIDE DEF K, h, drawn, T
    <2>4. T \in SUBSET K /\ IntOn(h, K)  BY <2>2, <2>3 DEF IntOn
    <2>5. AgreeWhere(h, drawn, K, T)  BY <2>2, <2>3 DEF AgreeWhere
    <2> QED  BY <2>1, <2>4, <2>5, SumWhere
  <1> QED  BY <1>5, <1>6

LEMMA LevelKeepsAreas ==
    ASSUME NEW world, IsWorld(world), NEW units \in Nat \ {0}, NEW rects \in Seq(Records),
           NEW bins, bins = PyramidLevel(world, units, rects).bins, NEW l
    PROVE  /\ bins \in Seq(BinRecords)
           /\ SumFunctionOnSet(AreasOf(bins), OfLayer(bins, l))
                = SumFunctionOnSet(DrawnAreas(rects, world), Drawing(rects, l))
  <1> DEFINE shares == LevelShares(world, units, rects)
             keys == InOrder(ShareKeys(shares), Lexical)
  <1>1. bins = [i \in DOMAIN keys |-> LevelBin(shares, keys[i])]
    BY DEF PyramidLevel
  <1>2. shares = LevelShares(world, units, rects) /\ keys = InOrder(ShareKeys(shares), Lexical)
    OBVIOUS
  <1> HIDE DEF shares, keys
  <1>3. /\ shares \in Seq(ShareRecords)
        /\ SumFunctionOnSet(AreasOf(shares), OfLayer(shares, l))
             = SumFunctionOnSet(DrawnAreas(rects, world), Drawing(rects, l))
    BY <1>2, LevelSharesKeepAreas
  <1>4. /\ bins \in Seq(BinRecords)
        /\ SumFunctionOnSet(AreasOf(bins), OfLayer(bins, l))
             = SumFunctionOnSet(AreasOf(shares), OfLayer(shares, l))
    BY <1>1, <1>2, <1>3, BinsKeepAreas
  <1> QED  BY <1>3, <1>4

-----------------------------------------------------------------------------
(***************************************************************************)
(* The overview of the open package.                                       *)
(***************************************************************************)

LEMMA PyramidWorldIs ==
    ASSUME NEW world, IsBox(world) PROVE IsWorld(PyramidWorld(world))
  <1> DEFINE w == Width(world)
             h == Height(world)
             b == PyramidWorld(world)
  <1>1. world[1] \in Int /\ world[2] \in Int /\ world[3] \in Int /\ world[4] \in Int
    BY DEF IsBox
  <1>2. w \in Int /\ 1 <= w /\ h \in Int /\ 1 <= h
    BY <1>1 DEF Width, Height, Most
  <1>3. b[1] = world[1] /\ b[2] = world[2] /\ b[3] = world[1] + w /\ b[4] = world[2] + h
    BY DEF PyramidWorld
  <1> HIDE DEF w, h, b
  <1>4. b[1] \in Int /\ b[2] \in Int /\ b[3] \in Int /\ b[4] \in Int /\ b[1] < b[3] /\ b[2] < b[4]
    BY <1>1, <1>2, <1>3
  <1> QED  BY <1>4 DEF IsWorld, IsBox, b

LEMMA CeilDivIs ==
    ASSUME NEW n \in Int, NEW d \in Nat \ {0} PROVE Most(CeilDiv(n, d), 1) \in Int
  <1>1. (n - 1) \div d \in Int
    OBVIOUS
  <1>2. PICK q \in Int : q = (n - 1) \div d
    BY <1>1
  <1> QED  BY <1>2 DEF Most, CeilDiv

LEMMA LevelIs ==
    ASSUME NEW world, IsWorld(world), NEW units \in Nat \ {0}, NEW rects \in Seq(Records)
    PROVE  PyramidLevel(world, units, rects) \in LevelRecords
  <1> DEFINE level == PyramidLevel(world, units, rects)
             bins == level.bins
             grid == LevelGrid(world, units)
  <1>1. level = [units |-> units, grid |-> grid, bins |-> bins]
    BY DEF PyramidLevel
  <1>2. bins \in Seq(BinRecords)
    <2>1. bins = PyramidLevel(world, units, rects).bins  OBVIOUS
    <2> HIDE DEF bins
    <2> QED  BY <2>1, LevelKeepsAreas
  <1>3. grid \in Int \X Int
    <2>1. IsBox(world)
      BY DEF IsWorld
    <2>2. Width(world) \in Int /\ Height(world) \in Int
      BY <2>1 DEF IsBox, Width, Height, Most
    <2>3. Most(CeilDiv(Width(world), units), 1) \in Int /\ Most(CeilDiv(Height(world), units), 1) \in Int
      BY <2>2, CeilDivIs
    <2> QED  BY <2>3 DEF LevelGrid
  <1> HIDE DEF bins, grid, level
  <1> QED  BY <1>1, <1>2, <1>3 DEF LevelRecords, level

LEMMA PyramidIs ==
    ASSUME NEW world \in RecordBoxes, NEW rects \in Seq(Records)
    PROVE  /\ IsPyramid(Pyramid(world, rects))
           /\ Pyramid(world, rects).world = world
           /\ Pyramid(world, rects).levels # <<>>
           /\ \A i \in DOMAIN Pyramid(world, rects).levels :
                /\ PyramidUnits[i] \in Nat \ {0}
                /\ Pyramid(world, rects).levels[i]
                     = PyramidLevel(PyramidWorld(world), PyramidUnits[i], rects)
  <1> DEFINE p == Pyramid(world, rects)
             die == PyramidWorld(world)
             n == Len(PyramidUnits)
             level(i) == PyramidLevel(die, PyramidUnits[i], rects)
  <1>1. n \in Nat /\ n # 0 /\ DOMAIN PyramidUnits = 1..n /\ \A i \in 1..n : PyramidUnits[i] \in Nat \ {0}
    <2>1. PyramidUnits \in Seq(Nat \ {0}) /\ PyramidUnits # <<>>
      BY GridAssumption
    <2>2. n \in Nat /\ DOMAIN PyramidUnits = 1..n /\ n # 0
      BY <2>1, LenProperties, EmptySeq
    <2> QED  BY <2>1, <2>2, ElementOfSeq
  <1>2. IsWorld(die)
    <2>1. IsBox(world)
      BY RecordIsBox
    <2> QED  BY <2>1, PyramidWorldIs
  <1>3. p = [world |-> world, levels |-> [i \in 1..n |-> level(i)]]
    BY <1>1 DEF Pyramid
  <1> HIDE DEF n, die
  <1>4. \A i \in 1..n : level(i) \in LevelRecords
    BY <1>1, <1>2, LevelIs
  <1> DEFINE levels == [i \in 1..n |-> level(i)]
  <1>5. levels \in [1..n -> LevelRecords] /\ \A i \in 1..n : levels[i] = level(i)
    BY <1>4
  <1>6. p = [world |-> world, levels |-> levels]
    BY <1>3
  <1> HIDE DEF level, levels, p
  <1>7. levels \in Seq(LevelRecords) /\ DOMAIN levels = 1..n
    BY <1>1, <1>5, SeqDef
  <1>8. levels # <<>>
    BY <1>1, <1>7
  <1>9. p.world = world /\ p.levels = levels
    BY <1>6
  <1>10. IsPyramid(p)
    BY <1>6, <1>7, <1>9 DEF IsPyramid
  <1> QED  BY <1>1, <1>5, <1>7, <1>8, <1>9, <1>10 DEF p, level, die

\* Whatever the zoom, the reader takes one of the levels.
LEMMA LevelForIs ==
    ASSUME NEW pyramid, pyramid.levels \in Seq(LevelRecords), pyramid.levels # <<>>, NEW zoom
    PROVE  \E i \in DOMAIN pyramid.levels : LevelFor(pyramid, zoom) = pyramid.levels[i]
  <1> DEFINE target == TargetUnits(zoom)
             coarse == {i \in DOMAIN pyramid.levels : pyramid.levels[i].units >= target}
             n == Len(pyramid.levels)
  <1>1. n \in Nat /\ DOMAIN pyramid.levels = 1..n /\ n # 0
    BY LenProperties, EmptySeq
  <1>2. LevelFor(pyramid, zoom) = pyramid.levels[IF coarse # {} THEN Min(coarse) ELSE n]
    BY DEF LevelFor
  <1>3. CASE coarse = {}
    BY <1>1, <1>2, <1>3
  <1>4. CASE coarse # {}
    <2>1. coarse \subseteq DOMAIN pyramid.levels /\ coarse \subseteq Nat
      BY <1>1
    <2> HIDE DEF coarse
    <2>2. \E m \in coarse : \A k \in coarse : m <= k
      BY <1>4, <2>1, Smallest
    <2>3. Min(coarse) \in coarse
      BY <2>2 DEF Min
    <2> QED  BY <1>2, <1>4, <2>1, <2>3
  <1> QED  BY <1>3, <1>4

\* What the file of the pyramid gives.
ReadPyramid(files) == IF HasFile(files, "pyramid") THEN DecodePyramid(files["pyramid"]) ELSE Unreadable

\* Until the files change under the viewer, what it has read of the pyramid is what is there, and
\* so is the level it showed last.
Viewed ==
    ~rewritten =>
        /\ reader # Closed => reader.pyramid = Unreadable \/ reader.pyramid = ReadPyramid(disk)
        /\ answer.op = "overview" =>
             LET p == ReadPyramid(disk)
                 good == p.ok /\ p.levels # <<>>
             IN  answer.ok = good /\ (good => \E z \in Zooms : answer.level = LevelFor(p, z))

ViewInv == CacheInv /\ Viewed

LEMMA OverviewKeeps ==
    ASSUME ViewInv, NEW zoom \in Zooms, Overview(zoom) PROVE Viewed'
  <1> DEFINE pyramid == IF reader.pyramid.ok THEN reader.pyramid
                        ELSE IF HasFile(disk, "pyramid") THEN DecodePyramid(disk["pyramid"])
                        ELSE Unreadable
             good == pyramid.ok /\ pyramid.levels # <<>>
  <1>1. /\ reader # Closed /\ "pyramid" \in DOMAIN reader
        /\ disk' = disk /\ rewritten' = rewritten
    BY DEF Overview, ViewInv, CacheInv, Opened
  <1>2. /\ reader' = [reader EXCEPT !.pyramid = pyramid]
        /\ answer' = [op |-> "overview", zoom |-> zoom, ok |-> good,
                      level |-> IF good THEN LevelFor(pyramid, zoom) ELSE NoBox]
    BY DEF Overview
  <1>3. ~rewritten => pyramid = ReadPyramid(disk)
    <2> SUFFICES ASSUME ~rewritten PROVE pyramid = ReadPyramid(disk)  OBVIOUS
    <2>1. reader.pyramid = Unreadable \/ reader.pyramid = ReadPyramid(disk)
      BY <1>1 DEF ViewInv, Viewed
    <2>2. CASE reader.pyramid = Unreadable
      <3>1. ~reader.pyramid.ok
        BY <2>2 DEF Unreadable
      <3> QED  BY <3>1 DEF ReadPyramid
    <2>3. CASE reader.pyramid = ReadPyramid(disk)
      BY <2>3 DEF ReadPyramid
    <2> QED  BY <2>1, <2>2, <2>3
  <1> HIDE DEF pyramid
  <1>4. reader'.pyramid = pyramid /\ answer'.ok = good /\ (good => answer'.level = LevelFor(pyramid, zoom))
    BY <1>1, <1>2
  <1> QED  BY <1>1, <1>3, <1>4 DEF Viewed

LEMMA ViewInvHolds == ViewInv /\ [Next]_vars => ViewInv'
  <1> SUFFICES ASSUME ViewInv, [Next]_vars PROVE Viewed'
    BY CacheInvHolds DEF ViewInv
  <1>0. Viewed /\ CacheInv
    BY DEF ViewInv
  <1>1. CASE Export \/ (\E rebuild \in BOOLEAN : Launch(rebuild)) \/ ReadHierarchy \/ ReadGeometry
             \/ Crash \/ UNCHANGED vars
    <2>1. UNCHANGED <<disk, reader, answer, rewritten>>
      BY <1>1 DEF Export, Launch, ReadHierarchy, ReadGeometry, Crash, vars
    <2> QED  BY <1>0, <2>1 DEF Viewed, ReadPyramid, HasFile
  <1>2. CASE ClearDirectories \/ WriteDetail \/ WriteIndex \/ WriteOverview \/ WriteRest \/ WriteManifest
    <2>1. reader' = reader /\ answer' = Nothing /\ rewritten' = (reader # Closed)
      BY <1>2 DEF ClearDirectories, WriteDetail, WriteIndex, WriteOverview, WriteRest, WriteManifest,
         WriteFiles, FilesChange
    <2> QED  BY <2>1 DEF Viewed, Nothing
  <1>3. CASE Open
    <2>1. answer' = Nothing /\ (reader' # Closed => reader'.pyramid = Unreadable)
      BY <1>3 DEF Open
    <2> QED  BY <2>1 DEF Viewed, Nothing
  <1>4. ASSUME NEW v, NEW c, reader # Closed,
               reader' = LoadViewport(disk, reader, v, c).pkg,
               UNCHANGED <<disk, rewritten>>, answer'.op # "overview"
        PROVE  Viewed'
    <2>1. "pyramid" \in DOMAIN reader
      BY <1>0, <1>4 DEF CacheInv, Opened
    <2>2. reader'.pyramid = reader.pyramid
      BY <1>4, <2>1 DEF LoadViewport
    <2> QED  BY <1>0, <1>4, <2>2 DEF Viewed, ReadPyramid, HasFile
  <1>5. ASSUME NEW v \in Viewports, NEW c \in Capacities, Load(v, c) PROVE Viewed'
    <2>1. answer'.op = "load"  BY <1>5 DEF Load
    <2> QED  BY <1>4, <1>5, <2>1 DEF Load
  <1>6. ASSUME NEW p \in Points, NEW c \in Capacities, Query(p, c) PROVE Viewed'
    <2>1. answer'.op = "query"  BY <1>6 DEF Query
    <2> QED  BY <1>4, <1>6, <2>1 DEF Query
  <1> QED
    BY <1>1, <1>2, <1>3, <1>5, <1>6, OverviewKeeps DEF Next

\* The level that was shown last is one of the source.
LEMMA ShownLevel ==
    ASSUME ViewInv, NEW v \in Exports, Steady(v), answer.op = "overview", ~rewritten
    PROVE  /\ answer.ok
           /\ \E units \in Nat \ {0} :
                answer.level = PyramidLevel(PyramidWorld(World[v]), units, Rects[v])
  <1> DEFINE world == WorldBox(Sources[v])
             rects == Dataset(Sources[v])
             p == Pyramid(world, rects)
             read == ReadPyramid(disk)
  <1>1. World[v] = world /\ Rects[v] = rects
    BY DEF World, Rects
  <1>2. world \in RecordBoxes /\ rects \in Seq(Records)
    BY SourceAssumption
  <1>3. "pyramid" \in DOMAIN Packed[v][v] /\ Packed[v][v]["pyramid"] = EncodePyramid(p)
    <2>1. Packed[v][v] = FilesOf(Sources[v], world, rects, DetailTiles(world, rects), LargeObjects(world, rects))
      BY Zenon DEF Packed, PackageFiles
    <2> HIDE DEF world, rects
    <2> QED  BY <2>1 DEF FilesOf, PackageNames
  <1> HIDE DEF p, world, rects
  <1>4. HasFile(disk, "pyramid") /\ disk["pyramid"] = EncodePyramid(p)
    BY <1>3 DEF Steady, Shows, HoldsOnly, HasFile
  <1>5. IsPyramid(p) /\ p.levels # <<>>
        /\ \A i \in DOMAIN p.levels : /\ PyramidUnits[i] \in Nat \ {0}
                                      /\ p.levels[i] = PyramidLevel(PyramidWorld(world), PyramidUnits[i], rects)
    BY <1>2, PyramidIs DEF p
  <1>6. read = [ok |-> TRUE, world |-> p.world, levels |-> p.levels]
    BY <1>4, <1>5, PyramidRoundTrip DEF ReadPyramid
  <1>7. read.ok /\ read.levels = p.levels /\ p.levels \in Seq(LevelRecords)
    BY <1>5, <1>6 DEF IsPyramid
  <1>8. answer.ok /\ \E z \in Zooms : answer.level = LevelFor(read, z)
    <2>1. read.ok /\ read.levels # <<>>
      BY <1>5, <1>7
    <2>2. Viewed
      BY DEF ViewInv
    <2> HIDE DEF read
    <2> QED  BY <2>1, <2>2 DEF Viewed, read
  <1> HIDE DEF read
  <1>9. PICK i \in DOMAIN p.levels : answer.level = p.levels[i]
    <2>1. read.levels \in Seq(LevelRecords) /\ read.levels # <<>>
      BY <1>5, <1>7
    <2> QED  BY <1>7, <1>8, <2>1, LevelForIs
  <1> QED  BY <1>1, <1>5, <1>8, <1>9

\* Whatever the design, the bin sizes and the zoom: what the viewer shows of each layer is the area
\* the source draws on it.  The bins of a level share every rectangle out without loss or overlap
\* (SharesOfRect), gathering the shares into bins keeps their sum (BinsKeepAreas), and the reader
\* decodes what was encoded (PyramidRoundTrip).
THEOREM DensityIsAlwaysConserved == Spec => []DensityIsConserved
  <1>1. Init => ViewInv
    <2> SUFFICES ASSUME Init PROVE ViewInv  OBVIOUS
    <2>1. CacheInv
      BY InitInv DEF Init, CacheInv, IndexKnown, Opened, HasFile
    <2>2. Viewed
      BY DEF Init, Viewed, Nothing
    <2> QED  BY <2>1, <2>2 DEF ViewInv
  <1>2. ViewInv => DensityIsConserved
    <2> SUFFICES ASSUME ViewInv, NEW v \in Exports, Steady(v), answer.op = "overview", ~rewritten
                 PROVE  LET bins == answer.level.bins
                            rects == Rects[v]
                            die == PyramidWorld(World[v])
                            areas == [i \in DOMAIN bins |-> bins[i].area]
                            drawn == [i \in DOMAIN rects |-> Area(Common(rects[i].box, die))]
                        IN  /\ answer.ok
                            /\ \A l \in 0..MaxLayer :
                                 SumFunctionOnSet(areas, {i \in DOMAIN bins : bins[i].layer = l})
                                 = SumFunctionOnSet(drawn,
                                     {i \in DOMAIN rects : rects[i].layer = l /\ IsDensityKind(rects[i].kind)})
      BY Zenon DEF DensityIsConserved
    <2> DEFINE die == PyramidWorld(World[v])
               rects == Rects[v]
               bins == answer.level.bins
    <2>1. answer.ok
      BY ShownLevel
    <2>2. PICK units \in Nat \ {0} : answer.level = PyramidLevel(die, units, rects)
      BY ShownLevel
    <2>3. World[v] \in RecordBoxes /\ rects \in Seq(Records)
      BY SourceAssumption DEF World, Rects
    <2>4. IsWorld(die)
      <3>1. IsBox(World[v])
        BY <2>3, RecordIsBox
      <3> QED  BY <3>1, PyramidWorldIs
    <2>5. bins = PyramidLevel(die, units, rects).bins
      BY <2>2
    <2> HIDE DEF die, rects, bins
    <2>6. \A l : SumFunctionOnSet(AreasOf(bins), OfLayer(bins, l))
            = SumFunctionOnSet(DrawnAreas(rects, die), Drawing(rects, l))
      BY <2>3, <2>4, <2>5, LevelKeepsAreas
    <2> QED  BY <2>1, <2>6, Zenon DEF AreasOf, OfLayer, DrawnAreas, DrawnArea, Drawing, die, rects, bins
  <1> QED  BY <1>1, <1>2, ViewInvHolds, PTL DEF Spec

-----------------------------------------------------------------------------
(***************************************************************************)
(* Counting the records of a sequence that are in a set.                   *)
(***************************************************************************)

Where(s, R) == {i \in DOMAIN s : s[i] \in R}
Count(s, R) == Cardinality(Where(s, R))

Match(g, A, B) ==
    /\ g = [a \in A |-> g[a]]
    /\ \A a \in A : g[a] \in B
    /\ \A a, b \in A : g[a] = g[b] => a = b
    /\ \A t \in B : \E a \in A : g[a] = t

LEMMA Matched ==
    ASSUME NEW A, IsFiniteSet(A), NEW B, NEW g, Match(g, A, B)
    PROVE  IsFiniteSet(B) /\ Cardinality(B) = Cardinality(A)
  <1>1. g \in [A -> B]
    BY DEF Match
  <1>2. g \in Bijection(A, B)
    BY <1>1 DEF Match, Bijection, Injection, Surjection, IsInjective
  <1>3. ExistsBijection(A, B)
    BY <1>2 DEF ExistsBijection
  <1> QED  BY <1>3, FS_Bijection

LEMMA WhereIs ==
    ASSUME NEW S, NEW s \in Seq(S), NEW R
    PROVE  /\ IsFiniteSet(Where(s, R)) /\ Count(s, R) \in Nat
           /\ Where(s, R) \subseteq 1..Len(s) /\ DOMAIN s = 1..Len(s)
  <1>1. Len(s) \in Nat /\ DOMAIN s = 1..Len(s)
    BY LenProperties
  <1>2. IsFiniteSet(1..Len(s))
    BY <1>1, FS_Interval
  <1>3. Where(s, R) \subseteq 1..Len(s)
    BY <1>1 DEF Where
  <1>4. IsFiniteSet(Where(s, R))
    BY <1>2, <1>3, FS_Subset
  <1> QED  BY <1>1, <1>3, <1>4, FS_CardinalityType DEF Count

AreParts(parts, n, S) == /\ parts = [i \in 1..n |-> parts[i]]
                         /\ \A i \in 1..n : parts[i] \in Seq(S)

LEMMA PartsTyped ==
    ASSUME NEW S, NEW n \in Nat, NEW parts, AreParts(parts, n, S)
    PROVE  parts \in Seq(Seq(S)) /\ Len(parts) = n /\ FlattenSeq(parts) \in Seq(S)
  <1>1. parts \in [1..n -> Seq(S)]
    BY DEF AreParts
  <1> QED  BY <1>1, SeqDef, LenProperties, FlatTyped

\* Part i begins after the first o elements of flat.
Placed(parts, i, flat, o) ==
    /\ o \in Nat /\ Len(parts[i]) \in Nat /\ DOMAIN parts[i] = 1..Len(parts[i])
    /\ PlaceOf(parts, i) = (o + 1)..(o + Len(parts[i]))
    /\ PlaceOf(parts, i) \subseteq 1..Len(flat)
    /\ \A x \in 1..Len(parts[i]) : flat[o + x] = parts[i][x]

LEMMA PartPlaced ==
    ASSUME NEW S, NEW parts \in Seq(Seq(S)), NEW i \in 1..Len(parts)
    PROVE  Placed(parts, i, FlattenSeq(parts), Len(Upto(parts, i - 1)))
  <1> DEFINE o == Len(Upto(parts, i - 1))
  <1>1. /\ o \in Nat /\ Len(parts[i]) \in Nat /\ DOMAIN parts[i] = 1..Len(parts[i])
        /\ PlaceOf(parts, i) = (o + 1)..(o + Len(parts[i]))
        /\ PlaceOf(parts, i) \subseteq 1..Len(FlattenSeq(parts))
        /\ \A x \in 1..Len(parts[i]) : FlattenSeq(parts)[o + x] = parts[i][x]
    BY PlaceIs
  <1> QED  BY <1>1, Zenon DEF Placed

\* A sequence made of parts of one record at most has as many records of a set as there are
\* parts with one.
Thin(parts) == \A i \in 1..Len(parts) : parts[i] = <<>> \/ Len(parts[i]) = 1
Filled(parts, R) == {i \in 1..Len(parts) : parts[i] # <<>> /\ parts[i][1] \in R}

LEMMA CountThin ==
    ASSUME NEW S, NEW parts \in Seq(Seq(S)), Thin(parts), NEW R
    PROVE  /\ IsFiniteSet(Filled(parts, R))
           /\ Count(FlattenSeq(parts), R) = Cardinality(Filled(parts, R))
  <1> DEFINE flat == FlattenSeq(parts)
             A == Filled(parts, R)
             B == Where(flat, R)
             g == [i \in A |-> Len(Upto(parts, i - 1)) + 1]
  <1>1. Len(parts) \in Nat /\ A \subseteq 1..Len(parts) /\ IsFiniteSet(A)
    <2>1. Len(parts) \in Nat /\ A \subseteq 1..Len(parts)
      BY LenProperties DEF Filled
    <2>2. IsFiniteSet(1..Len(parts))
      BY <2>1, FS_Interval
    <2> HIDE DEF A
    <2> QED  BY <2>1, <2>2, FS_Subset
  <1>2. flat \in Seq(S) /\ Len(flat) \in Nat /\ DOMAIN flat = 1..Len(flat)
    <2>1. Upto(parts, Len(parts)) = FlattenSeq(parts)
      BY UptoAll
    <2>2. Len(parts) \in 0..Len(parts)
      BY <1>1
    <2>3. flat \in Seq(S)
      BY <2>1, <2>2, UptoTyped
    <2> QED  BY <2>3, LenProperties
  <1>3. ASSUME NEW i \in 1..Len(parts)
        PROVE  \/ parts[i] = <<>> /\ PlaceOf(parts, i) = {}
               \/ /\ parts[i] # <<>>
                  /\ LET p == Len(Upto(parts, i - 1)) + 1 IN
                     /\ PlaceOf(parts, i) = {p} /\ p \in 1..Len(flat)
                     /\ flat[p] = parts[i][1]
    <2> DEFINE o == Len(Upto(parts, i - 1))
               m == Len(parts[i])
    <2>1. /\ o \in Nat /\ m \in Nat /\ DOMAIN parts[i] = 1..m
          /\ PlaceOf(parts, i) = (o + 1)..(o + m)
          /\ PlaceOf(parts, i) \subseteq 1..Len(flat)
          /\ \A x \in 1..m : flat[o + x] = parts[i][x]
      <3>1. Placed(parts, i, flat, o)
        BY PartPlaced
      <3> QED  BY <3>1, Zenon DEF Placed
    <2>2. (m = 0 /\ parts[i] = <<>>) \/ (m = 1 /\ parts[i] # <<>>)
      <3>1. parts[i] = <<>> \/ m = 1
        BY DEF Thin
      <3>2. parts[i] = <<>> => m = 0
        OBVIOUS
      <3> HIDE DEF A, B, g, m, o, flat
      <3> QED  BY <3>1, <3>2
    <2> HIDE DEF o, m
    <2>3. CASE m = 0
      BY <2>1, <2>2, <2>3
    <2>4. CASE m = 1
      <3>1. PlaceOf(parts, i) = {o + 1}
        BY <2>1, <2>4
      <3>2. o + 1 \in 1..Len(flat) /\ flat[o + 1] = parts[i][1]
        BY <2>1, <2>4, <3>1
      <3> QED  BY <2>2, <2>4, <3>1, <3>2 DEF o
    <2> QED  BY <2>2, <2>3, <2>4
  <1>4. Match(g, A, B)
    <2>1. ASSUME NEW i \in A
          PROVE  /\ i \in 1..Len(parts) /\ g[i] \in B /\ g[i] \in PlaceOf(parts, i)
      <3>1. i \in 1..Len(parts) /\ parts[i] # <<>> /\ parts[i][1] \in R
        BY DEF Filled
      <3>2. g[i] = Len(Upto(parts, i - 1)) + 1
        OBVIOUS
      <3> HIDE DEF g, A, flat
      <3>3. PlaceOf(parts, i) = {g[i]} /\ g[i] \in 1..Len(flat) /\ flat[g[i]] = parts[i][1]
        BY <1>3, <3>1, <3>2
      <3> QED  BY <1>2, <3>1, <3>3 DEF Where
    <2>2. g = [i \in A |-> g[i]]
      OBVIOUS
    <2> HIDE DEF g, A
    <2>3. ASSUME NEW i \in A, NEW k \in A, g[i] = g[k] PROVE i = k
      <3>1. g[i] \in PlaceOf(parts, i) \cap PlaceOf(parts, k)
        BY <2>1, <2>3
      <3>2. i \in 1..Len(parts) /\ k \in 1..Len(parts)
        BY <2>1
      <3>3. ~(i < k)
        BY <3>1, <3>2, PlacesApart
      <3>4. ~(k < i)
        BY <3>1, <3>2, PlacesApart
      <3> QED  BY <1>1, <3>2, <3>3, <3>4
    <2>4. ASSUME NEW j \in B PROVE \E i \in A : g[i] = j
      <3>1. j \in 1..Len(flat) /\ flat[j] \in R
        BY <1>2 DEF Where
      <3>2. PICK i \in 1..Len(parts) : j \in PlaceOf(parts, i)
        BY <3>1, PlacesCover
      <3>3. /\ parts[i] # <<>>
            /\ j = Len(Upto(parts, i - 1)) + 1 /\ flat[j] = parts[i][1]
        BY <1>3, <3>2
      <3>4. i \in A
        BY <3>1, <3>3 DEF A, Filled
      <3> QED  BY <3>3, <3>4 DEF g
    <2> HIDE DEF B
    <2> QED  BY <2>1, <2>2, <2>3, <2>4 DEF Match
  <1> HIDE DEF g, A, B
  <1>5. Cardinality(B) = Cardinality(A)
    BY <1>1, <1>4, Matched
  <1> QED  BY <1>1, <1>5 DEF Count, A, B

\* A sequence of which one part only has records of a set has as many of them as that part.
OnlyIn(parts, R, K) == \A i \in 1..Len(parts) : Where(parts[i], R) # {} => i \in K

LEMMA CountOnly ==
    ASSUME NEW S, NEW parts \in Seq(Seq(S)), NEW R, NEW k \in 1..Len(parts), OnlyIn(parts, R, {k})
    PROVE  Count(FlattenSeq(parts), R) = Count(parts[k], R)
  <1> DEFINE flat == FlattenSeq(parts)
             o == Len(Upto(parts, k - 1))
             m == Len(parts[k])
             A == Where(parts[k], R)
             B == Where(flat, R)
             g == [x \in A |-> o + x]
  <1>1. Len(parts) \in Nat /\ parts[k] \in Seq(S)
    BY LenProperties, ElementOfSeq
  <1>2. flat \in Seq(S) /\ Len(flat) \in Nat /\ DOMAIN flat = 1..Len(flat)
    <2>1. Upto(parts, Len(parts)) = FlattenSeq(parts)
      BY UptoAll
    <2>2. Len(parts) \in 0..Len(parts)
      BY <1>1
    <2>3. flat \in Seq(S)
      BY <2>1, <2>2, UptoTyped
    <2> QED  BY <2>3, LenProperties
  <1>3. ASSUME NEW i \in 1..Len(parts), NEW p, p = Len(Upto(parts, i - 1))
        PROVE  /\ p \in Nat /\ Len(parts[i]) \in Nat /\ DOMAIN parts[i] = 1..Len(parts[i])
               /\ PlaceOf(parts, i) = (p + 1)..(p + Len(parts[i]))
               /\ PlaceOf(parts, i) \subseteq 1..Len(flat)
               /\ \A x \in 1..Len(parts[i]) : flat[p + x] = parts[i][x]
    <2>1. Placed(parts, i, flat, p)
      BY <1>3, PartPlaced
    <2> QED  BY <2>1, Zenon DEF Placed
  <1>4. /\ o \in Nat /\ m \in Nat /\ DOMAIN parts[k] = 1..m
        /\ PlaceOf(parts, k) = (o + 1)..(o + m)
        /\ PlaceOf(parts, k) \subseteq 1..Len(flat)
        /\ \A x \in 1..m : flat[o + x] = parts[k][x]
    <2>1. o = Len(Upto(parts, k - 1))
      OBVIOUS
    <2> HIDE DEF o, flat
    <2> QED  BY <1>3, <2>1
  <1> HIDE DEF o, m, flat
  <1>5. Match(g, A, B)
    <2>1. ASSUME NEW x \in A
          PROVE  x \in 1..m /\ parts[k][x] \in R
      BY <1>4 DEF Where
    <2>2. ASSUME NEW x \in A PROVE g[x] = o + x /\ g[x] \in B
      <3>1. o + x \in (o + 1)..(o + m)
        BY <1>4, <2>1
      <3>2. o + x \in 1..Len(flat) /\ flat[o + x] \in R
        BY <1>4, <2>1, <3>1
      <3> QED  BY <1>2, <3>2 DEF Where
    <2>3. g = [x \in A |-> g[x]]
      OBVIOUS
    <2> HIDE DEF g, A
    <2>4. ASSUME NEW x \in A, NEW y \in A, g[x] = g[y] PROVE x = y
      BY <1>4, <2>1, <2>2, <2>4
    <2>5. ASSUME NEW j \in B PROVE \E x \in A : g[x] = j
      <3>1. j \in 1..Len(flat) /\ flat[j] \in R
        BY <1>2 DEF Where
      <3>2. PICK i \in 1..Len(parts) : j \in PlaceOf(parts, i)
        BY <3>1, PlacesCover DEF flat
      <3>3. PICK p : p = Len(Upto(parts, i - 1))
        OBVIOUS
      <3>4. /\ p \in Nat /\ Len(parts[i]) \in Nat /\ DOMAIN parts[i] = 1..Len(parts[i])
            /\ PlaceOf(parts, i) = (p + 1)..(p + Len(parts[i]))
            /\ \A x \in 1..Len(parts[i]) : flat[p + x] = parts[i][x]
        BY <1>3, <3>3
      <3>5. PICK x \in 1..Len(parts[i]) : j = p + x
        <4>1. j \in (p + 1)..(p + Len(parts[i]))
          BY <3>2, <3>4
        <4>2. j - p \in 1..Len(parts[i]) /\ j = p + (j - p)
          BY <3>1, <3>4, <4>1
        <4> QED  BY <4>2
      <3>6. parts[i][x] \in R
        BY <3>1, <3>4, <3>5
      <3>7. x \in Where(parts[i], R)
        BY <3>4, <3>6 DEF Where
      <3>8. i = k
        BY <3>7 DEF OnlyIn
      <3>9. p = o /\ x \in A
        BY <3>3, <3>7, <3>8 DEF o, A
      <3> QED  BY <3>5, <3>9 DEF g
    <2> HIDE DEF B
    <2> QED  BY <2>2, <2>3, <2>4, <2>5 DEF Match
  <1>6. IsFiniteSet(A)
    BY <1>1, WhereIs
  <1> HIDE DEF g, A, B
  <1>7. Cardinality(B) = Cardinality(A)
    BY <1>5, <1>6, Matched
  <1> QED  BY <1>7 DEF Count, A, B, flat

LEMMA CountNone ==
    ASSUME NEW S, NEW parts \in Seq(Seq(S)), NEW R, OnlyIn(parts, R, {})
    PROVE  Count(FlattenSeq(parts), R) = 0
  <1> DEFINE flat == FlattenSeq(parts)
  <1>1. DOMAIN flat = 1..Len(flat)
    <2>1. Upto(parts, Len(parts)) = FlattenSeq(parts)
      BY UptoAll
    <2>2. Len(parts) \in 0..Len(parts)
      BY LenProperties
    <2>3. flat \in Seq(S)
      BY <2>1, <2>2, UptoTyped
    <2> QED  BY <2>3, LenProperties
  <1>2. ASSUME NEW j \in Where(flat, R) PROVE FALSE
    <2>1. j \in 1..Len(flat) /\ flat[j] \in R
      BY <1>1 DEF Where
    <2>2. PICK i \in 1..Len(parts) : j \in PlaceOf(parts, i)
      BY <2>1, PlacesCover
    <2>3. PICK p : p = Len(Upto(parts, i - 1))
      OBVIOUS
    <2> HIDE DEF flat
    <2>4. /\ p \in Nat /\ Len(parts[i]) \in Nat /\ DOMAIN parts[i] = 1..Len(parts[i])
          /\ PlaceOf(parts, i) = (p + 1)..(p + Len(parts[i]))
          /\ \A x \in 1..Len(parts[i]) : flat[p + x] = parts[i][x]
      <3>1. Placed(parts, i, flat, p)
        BY <2>3, PartPlaced DEF flat
      <3> QED  BY <3>1, Zenon DEF Placed
    <2>5. j \in Int /\ j - p \in 1..Len(parts[i]) /\ j = p + (j - p)
      <3>1. j \in (p + 1)..(p + Len(parts[i]))
        BY <2>2, <2>4
      <3> QED  BY <2>4, <3>1
    <2>6. j - p \in Where(parts[i], R)
      BY <2>1, <2>4, <2>5 DEF Where
    <2> QED  BY <2>6 DEF OnlyIn
  <1>3. Where(flat, R) = {}
    BY <1>2
  <1> QED  BY <1>3, FS_EmptySet DEF Count

\* Two sequences one after the other.
LEMMA CountBoth ==
    ASSUME NEW S, NEW s \in Seq(S), NEW t \in Seq(S), NEW R
    PROVE  Count(s \o t, R) = Count(s, R) + Count(t, R)
  <1> DEFINE m == Len(s)
             n == Len(t)
             both == s \o t
             A == Where(s, R)
             T == Where(t, R)
             B == {m + i : i \in T}
             g == [i \in T |-> m + i]
  <1>1. /\ m \in Nat /\ DOMAIN s = 1..m /\ n \in Nat /\ DOMAIN t = 1..n
        /\ A \subseteq 1..m /\ T \subseteq 1..n /\ IsFiniteSet(A) /\ IsFiniteSet(T)
    BY LenProperties, WhereIs
  <1>2. /\ both \in Seq(S) /\ Len(both) = m + n
        /\ \A i \in 1..(m + n) : both[i] = IF i <= m THEN s[i] ELSE t[i - m]
    BY ConcatProperties
  <1>3. DOMAIN both = 1..(m + n)
    BY <1>2, LenProperties
  <1> HIDE DEF m, n, both
  <1>4. Where(both, R) = A \cup B
    <2>1. ASSUME NEW i \in Where(both, R) PROVE i \in A \cup B
      <3>1. i \in 1..(m + n) /\ both[i] \in R
        BY <1>3 DEF Where
      <3>2. CASE i <= m
        <4>1. i \in 1..m /\ s[i] \in R
          BY <1>1, <1>2, <3>1, <3>2
        <4> QED  BY <1>1, <4>1 DEF Where
      <3>3. CASE ~(i <= m)
        <4>1. i - m \in 1..n /\ t[i - m] \in R /\ i = m + (i - m)
          BY <1>1, <1>2, <3>1, <3>3
        <4>2. i - m \in T
          BY <1>1, <4>1 DEF Where
        <4> HIDE DEF T
        <4> QED  BY <4>1, <4>2
      <3> QED  BY <3>2, <3>3
    <2>2. ASSUME NEW i \in A PROVE i \in Where(both, R)
      <3>1. i \in 1..m /\ s[i] \in R
        BY <1>1 DEF Where
      <3>2. i \in 1..(m + n) /\ both[i] = s[i]
        BY <1>1, <1>2, <3>1
      <3> QED  BY <1>3, <3>1, <3>2 DEF Where
    <2>3. ASSUME NEW i \in T PROVE m + i \in Where(both, R)
      <3>1. i \in 1..n /\ t[i] \in R
        BY <1>1 DEF Where
      <3>2. m + i \in 1..(m + n) /\ ~(m + i <= m) /\ (m + i) - m = i
        BY <1>1, <3>1
      <3>3. both[m + i] = t[i]
        BY <1>2, <3>2
      <3> QED  BY <1>3, <3>1, <3>2, <3>3 DEF Where
    <2> HIDE DEF A, T
    <2> QED  BY <2>1, <2>2, <2>3
  <1> HIDE DEF A, T
  <1>5. IsFiniteSet(B) /\ Cardinality(B) = Cardinality(T)
    <2>1. \A i \in T : g[i] = m + i /\ i \in Nat
      BY <1>1
    <2>2. g = [i \in T |-> g[i]]
      OBVIOUS
    <2>3. \A i \in T : g[i] \in B
      BY <2>1
    <2>4. \A j \in B : \E i \in T : g[i] = j
      BY <2>1
    <2> HIDE DEF g, B
    <2>5. \A i, j \in T : g[i] = g[j] => i = j
      BY <1>1, <2>1
    <2>6. Match(g, T, B)
      BY <2>2, <2>3, <2>4, <2>5 DEF Match
    <2> QED  BY <1>1, <2>6, Matched
  <1>6. A \cap B = {}
    BY <1>1
  <1>7. Cardinality(A) \in Nat /\ Cardinality(T) \in Nat
    BY <1>1, FS_CardinalityType
  <1> HIDE DEF B
  <1>8. Cardinality(A \cup B) = Cardinality(A) + Cardinality(B) - Cardinality(A \cap B)
    BY <1>1, <1>5, FS_Union
  <1>9. Cardinality(A \cup B) = Cardinality(A) + Cardinality(T)
    <2>1. Cardinality(A \cap B) = 0
      BY <1>6, FS_EmptySet
    <2> QED  BY <1>5, <1>7, <1>8, <2>1
  <1> QED  BY <1>4, <1>9 DEF Count, both, A, T

-----------------------------------------------------------------------------
(***************************************************************************)
(* The records that show an object in a unit square.                       *)
(***************************************************************************)

At(key, x, y) == {r \in Records : Same(r, key) /\ Holds(r.box, x, y)}

LEMMA CommonHolds ==
    ASSUME NEW a, IsBox(a), NEW b, IsBox(b), NEW x \in Int, NEW y \in Int
    PROVE  /\ Common(a, b) \in RecordBoxes
           /\ Holds(Common(a, b), x, y) <=> Holds(a, x, y) /\ Holds(b, x, y)
  <1>1. /\ Most(a[1], b[1]) \in Int /\ Most(a[2], b[2]) \in Int
        /\ Least(a[3], b[3]) \in Int /\ Least(a[4], b[4]) \in Int
    BY DEF IsBox, Most, Least
  <1>2. Common(a, b) \in RecordBoxes
    BY <1>1, FourIsBox DEF Common
  <1>3. /\ Common(a, b)[1] = Most(a[1], b[1]) /\ Common(a, b)[2] = Most(a[2], b[2])
        /\ Common(a, b)[3] = Least(a[3], b[3]) /\ Common(a, b)[4] = Least(a[4], b[4])
    BY DEF Common
  <1>4. /\ Most(a[1], b[1]) <= x <=> a[1] <= x /\ b[1] <= x
        /\ Most(a[2], b[2]) <= y <=> a[2] <= y /\ b[2] <= y
        /\ x < Least(a[3], b[3]) <=> x < a[3] /\ x < b[3]
        /\ y < Least(a[4], b[4]) <=> y < a[4] /\ y < b[4]
    BY DEF IsBox, Most, Least
  <1> QED  BY <1>2, <1>3, <1>4 DEF Holds

LEMMA HeldIsValid ==
    ASSUME NEW b \in RecordBoxes, NEW x \in Int, NEW y \in Int, Holds(b, x, y)
    PROVE  ValidBox(b) = b /\ b # NoBox
  <1>1. IsBox(b) /\ Len(b) = 4
    BY RecordIsBox DEF RecordBoxes
  <1>2. b # NoBox
    BY <1>1 DEF NoBox
  <1>3. b[1] < b[3] /\ b[2] < b[4]
    BY <1>1 DEF Holds, IsBox
  <1> QED  BY <1>2, <1>3 DEF ValidBox

\* The piece of a record inside a box shows it in the squares of the box, and in no other.
LEMMA ClipShows ==
    ASSUME NEW r \in Records, NEW box, IsBox(box), NEW x \in Int, NEW y \in Int, NEW key
    PROVE  /\ Clip(r, box) = <<>> \/ Len(Clip(r, box)) = 1
           /\ Clip(r, box) # <<>> /\ Clip(r, box)[1] \in At(key, x, y)
                <=> r \in At(key, x, y) /\ Holds(box, x, y)
  <1> DEFINE common == Common(r.box, box)
             piece == [r EXCEPT !.box = common]
  <1>1. r.box \in RecordBoxes /\ IsBox(r.box)
    BY RecordIsBox DEF Records
  <1>2. /\ common \in RecordBoxes
        /\ Holds(common, x, y) <=> Holds(r.box, x, y) /\ Holds(box, x, y)
    BY <1>1, CommonHolds
  <1> HIDE DEF common
  <1>3. CASE ValidBox(common) = NoBox
    <2>1. Clip(r, box) = <<>>
      BY <1>3 DEF Clip, common
    <2>2. ~Holds(common, x, y)
      BY <1>2, <1>3, HeldIsValid
    <2> QED  BY <1>2, <2>1, <2>2 DEF At
  <1>4. CASE ValidBox(common) # NoBox
    <2>1. Clip(r, box) = <<piece>>
      BY <1>4, Zenon DEF Clip, ValidBox, common
    <2>2. piece \in Records /\ piece.box = common /\ piece.source = r.source
          /\ piece.layer = r.layer /\ piece.kind = r.kind
      BY <1>2 DEF Records
    <2> HIDE DEF piece
    <2>3. Clip(r, box) # <<>> /\ Clip(r, box)[1] = piece /\ Len(Clip(r, box)) = 1
      BY <2>1
    <2>4. piece \in At(key, x, y) <=> Same(r, key) /\ Holds(common, x, y)
      BY <2>2 DEF At, Same
    <2>5. r \in At(key, x, y) <=> Same(r, key) /\ Holds(r.box, x, y)
      BY DEF At
    <2> QED  BY <1>2, <2>3, <2>4, <2>5
  <1> QED  BY <1>3, <1>4

\* The records of a sequence whose index is in I, as they are and cut to a box.
Among(rects, I, R) == {i \in DOMAIN rects : i \in I /\ rects[i] \in R}
Picked(parts, rects, I) ==
    parts = [i \in DOMAIN rects |-> IF i \in I THEN <<rects[i]>> ELSE <<>>]
Cut(parts, rects, I, box) ==
    parts = [i \in DOMAIN rects |-> IF i \in I THEN Clip(rects[i], box) ELSE <<>>]

LEMMA CutCount ==
    ASSUME NEW rects \in Seq(Records), NEW box, IsBox(box), NEW I,
           NEW parts, Cut(parts, rects, I, box),
           NEW x \in Int, NEW y \in Int, NEW key
    PROVE  /\ FlattenSeq(parts) \in Seq(Records)
           /\ Count(FlattenSeq(parts), At(key, x, y))
                = IF Holds(box, x, y)
                  THEN Cardinality(Among(rects, I, At(key, x, y))) ELSE 0
  <1> DEFINE R == At(key, x, y)
             n == Len(rects)
             K == Among(rects, I, R)
  <1>1. n \in Nat /\ DOMAIN rects = 1..n /\ \A i \in 1..n : rects[i] \in Records
    BY LenProperties, ElementOfSeq
  <1>2. ASSUME NEW i \in 1..n
        PROVE  /\ parts[i] \in Seq(Records)
               /\ parts[i] = <<>> \/ Len(parts[i]) = 1
               /\ parts[i] # <<>> /\ parts[i][1] \in R <=> i \in K /\ Holds(box, x, y)
    <2>1. rects[i] \in Records /\ parts[i] = IF i \in I THEN Clip(rects[i], box) ELSE <<>>
      BY <1>1 DEF Cut
    <2> HIDE DEF R
    <2>2. CASE i \in I
      <3>1. Clip(rects[i], box) \in Seq(Records)
        BY <2>1, ClipTyped
      <3>2. /\ Clip(rects[i], box) = <<>> \/ Len(Clip(rects[i], box)) = 1
            /\ Clip(rects[i], box) # <<>> /\ Clip(rects[i], box)[1] \in R
                 <=> rects[i] \in R /\ Holds(box, x, y)
        BY <2>1, ClipShows DEF R
      <3>3. i \in K <=> rects[i] \in R
        BY <1>1, <2>2 DEF Among
      <3> HIDE DEF K
      <3> QED  BY <2>1, <2>2, <3>1, <3>2, <3>3
    <2>3. CASE i \notin I
      <3>1. parts[i] = <<>> /\ i \notin K
        BY <2>1, <2>3 DEF Among
      <3> QED  BY <3>1, EmptySeq
    <2> QED  BY <2>2, <2>3
  <1>3. parts \in Seq(Seq(Records)) /\ Len(parts) = n /\ FlattenSeq(parts) \in Seq(Records)
    <2>1. parts = [i \in 1..n |-> parts[i]]
      BY <1>1 DEF Cut
    <2> HIDE DEF R, n
    <2>2. AreParts(parts, n, Records)
      BY <1>2, <2>1 DEF AreParts
    <2> QED  BY <1>1, <2>2, PartsTyped
  <1> HIDE DEF R, K
  <1>4. Thin(parts)
    BY <1>2, <1>3 DEF Thin
  <1>5. /\ IsFiniteSet(Filled(parts, R))
        /\ Count(FlattenSeq(parts), R) = Cardinality(Filled(parts, R))
    BY <1>3, <1>4, CountThin
  <1>6. Filled(parts, R) = IF Holds(box, x, y) THEN K ELSE {}
    <2>1. K \subseteq 1..n
      BY <1>1 DEF K, Among
    <2> HIDE DEF n
    <2> QED  BY <1>2, <1>3, <2>1 DEF Filled
  <1> QED  BY <1>3, <1>5, <1>6, FS_EmptySet DEF K, R

LEMMA ClipAllCount ==
    ASSUME NEW rects \in Seq(Records), NEW box, IsBox(box), NEW x \in Int, NEW y \in Int, NEW key
    PROVE  Count(ClipAll(rects, box), At(key, x, y))
             = IF Holds(box, x, y) THEN Count(rects, At(key, x, y)) ELSE 0
  <1> DEFINE I == DOMAIN rects
             parts == [i \in DOMAIN rects |-> IF i \in I THEN Clip(rects[i], box) ELSE <<>>]
             K == Among(rects, I, At(key, x, y))
  <1>1. parts = [i \in DOMAIN rects |-> Clip(rects[i], box)]
    OBVIOUS
  <1>2. ClipAll(rects, box) = FlattenSeq(parts)
    BY <1>1, Zenon DEF ClipAll
  <1>3. K = Where(rects, At(key, x, y))
    BY DEF Where, Among
  <1>4. Cut(parts, rects, I, box)
    BY Zenon DEF Cut
  <1> HIDE DEF parts
  <1>5. Count(FlattenSeq(parts), At(key, x, y))
          = IF Holds(box, x, y) THEN Cardinality(K) ELSE 0
    <2> HIDE DEF I
    <2> QED  BY <1>4, CutCount
  <1> QED  BY <1>2, <1>3, <1>5 DEF Count

\* A record goes into the tile of a cell when it is of a kind that goes into tiles, not large, and
\* the cell is in its range.
GoesTo(world, r, cx, cy) ==
    /\ ~IsShared(r.kind) /\ ~IsLarge(world, r)
    /\ cx \in TileRange(world, r.box).xs /\ cy \in TileRange(world, r.box).ys
InCell(world, rects, cx, cy, R) ==
    {i \in DOMAIN rects : GoesTo(world, rects[i], cx, cy) /\ rects[i] \in R}

LEMMA BucketCount ==
    ASSUME NEW world, IsBox(world), NEW rects \in Seq(Records), NEW cx \in Int, NEW cy \in Int,
           NEW x \in Int, NEW y \in Int, NEW key
    PROVE  Count(Bucket(world, rects, cx, cy), At(key, x, y))
             = IF Holds(TileBox(world, cx, cy), x, y)
               THEN Cardinality(InCell(world, rects, cx, cy, At(key, x, y))) ELSE 0
  <1> DEFINE I == {i \in DOMAIN rects : GoesTo(world, rects[i], cx, cy)}
             box == TileBox(world, cx, cy)
             parts == [i \in DOMAIN rects |-> IF i \in I THEN Clip(rects[i], box) ELSE <<>>]
             K == Among(rects, I, At(key, x, y))
  <1>1. Bucket(world, rects, cx, cy)
          = FlattenSeq([i \in DOMAIN rects |->
                          IF GoesTo(world, rects[i], cx, cy) THEN Clip(rects[i], box) ELSE <<>>])
    BY Zenon DEF Bucket, GoesTo
  <1>2. parts = [i \in DOMAIN rects |->
                   IF GoesTo(world, rects[i], cx, cy) THEN Clip(rects[i], box) ELSE <<>>]
    OBVIOUS
  <1>3. K = InCell(world, rects, cx, cy, At(key, x, y))
    BY DEF InCell, Among
  <1>4. Cut(parts, rects, I, box)
    BY Zenon DEF Cut
  <1>5. IsBox(box)
    BY TileBoxTyped
  <1> HIDE DEF parts, box
  <1>6. Count(FlattenSeq(parts), At(key, x, y))
          = IF Holds(box, x, y) THEN Cardinality(K) ELSE 0
    <2> HIDE DEF I
    <2> QED  BY <1>4, <1>5, CutCount
  <1> QED  BY <1>1, <1>2, <1>3, <1>6 DEF box

LEMMA PickedCount ==
    ASSUME NEW rects \in Seq(Records), NEW I,
           NEW parts, Picked(parts, rects, I), NEW R
    PROVE  /\ FlattenSeq(parts) \in Seq(Records)
           /\ Count(FlattenSeq(parts), R) = Cardinality(Among(rects, I, R))
  <1> DEFINE n == Len(rects)
             K == Among(rects, I, R)
  <1>1. n \in Nat /\ DOMAIN rects = 1..n /\ \A i \in 1..n : rects[i] \in Records
    BY LenProperties, ElementOfSeq
  <1>2. ASSUME NEW i \in 1..n
        PROVE  /\ parts[i] \in Seq(Records)
               /\ parts[i] = <<>> \/ Len(parts[i]) = 1
               /\ parts[i] # <<>> /\ parts[i][1] \in R <=> i \in K
    <2>1. rects[i] \in Records /\ parts[i] = IF i \in I THEN <<rects[i]>> ELSE <<>>
      BY <1>1 DEF Picked
    <2>2. CASE i \in I
      <3>1. parts[i] = <<rects[i]>>
        BY <2>1, <2>2
      <3>2. parts[i] \in Seq(Records)
        <4>1. \A r \in Records : <<r>> \in Seq(Records)
          OBVIOUS
        <4> QED  BY <2>1, <3>1, <4>1
      <3>3. Len(parts[i]) = 1 /\ parts[i] # <<>> /\ parts[i][1] = rects[i]
        BY <3>1
      <3>4. i \in K <=> rects[i] \in R
        BY <1>1, <2>2 DEF Among
      <3> HIDE DEF K
      <3> QED  BY <3>2, <3>3, <3>4
    <2>3. CASE i \notin I
      <3>1. parts[i] = <<>> /\ i \notin K
        BY <2>1, <2>3 DEF Among
      <3> QED  BY <3>1, EmptySeq
    <2> QED  BY <2>2, <2>3
  <1>3. parts \in Seq(Seq(Records)) /\ Len(parts) = n /\ FlattenSeq(parts) \in Seq(Records)
    <2>1. parts = [i \in 1..n |-> parts[i]]
      BY <1>1 DEF Picked
    <2> HIDE DEF n
    <2>2. AreParts(parts, n, Records)
      BY <1>2, <2>1 DEF AreParts
    <2> QED  BY <1>1, <2>2, PartsTyped
  <1> HIDE DEF K
  <1>4. Thin(parts)
    BY <1>2, <1>3 DEF Thin
  <1>5. Count(FlattenSeq(parts), R) = Cardinality(Filled(parts, R))
    BY <1>3, <1>4, CountThin
  <1>6. Filled(parts, R) = K
    <2>1. K \subseteq 1..n
      BY <1>1 DEF K, Among
    <2> HIDE DEF n
    <2> QED  BY <1>2, <1>3, <2>1 DEF Filled
  <1> QED  BY <1>3, <1>5, <1>6 DEF K

\* What is drawn is what is large and what goes into tiles.
Small(world, rects, R) ==
    {i \in DOMAIN rects : ~IsShared(rects[i].kind) /\ ~IsLarge(world, rects[i]) /\ rects[i] \in R}

LEMMA DrawnIsBoth ==
    ASSUME NEW world, NEW rects \in Seq(Records), NEW R
    PROVE  /\ LargeObjects(world, rects) \in Seq(Records) /\ Drawn(rects) \in Seq(Records)
           /\ IsFiniteSet(Small(world, rects, R)) /\ Cardinality(Small(world, rects, R)) \in Nat
           /\ Count(Drawn(rects), R)
                = Cardinality(Small(world, rects, R)) + Count(LargeObjects(world, rects), R)
  <1> DEFINE D == {i \in DOMAIN rects : ~IsShared(rects[i].kind)}
             L == {i \in DOMAIN rects : ~IsShared(rects[i].kind) /\ IsLarge(world, rects[i])}
             drawn == [i \in DOMAIN rects |-> IF i \in D THEN <<rects[i]>> ELSE <<>>]
             large == [i \in DOMAIN rects |-> IF i \in L THEN <<rects[i]>> ELSE <<>>]
             inD == Among(rects, D, R)
             inL == Among(rects, L, R)
             S == Small(world, rects, R)
  <1>1. drawn = [i \in DOMAIN rects |-> IF IsShared(rects[i].kind) THEN <<>> ELSE <<rects[i]>>]
    OBVIOUS
  <1>2. large = [i \in DOMAIN rects |->
                   IF ~IsShared(rects[i].kind) /\ IsLarge(world, rects[i]) THEN <<rects[i]>> ELSE <<>>]
    OBVIOUS
  <1>3. Drawn(rects) = FlattenSeq(drawn) /\ LargeObjects(world, rects) = FlattenSeq(large)
    BY <1>1, <1>2, Zenon DEF Drawn, LargeObjects
  <1>4. inD = S \cup inL /\ S \cap inL = {} /\ inD \subseteq DOMAIN rects
    BY DEF Small, Among
  <1>5. Picked(drawn, rects, D) /\ Picked(large, rects, L)
    BY Zenon DEF Picked
  <1> HIDE DEF drawn, large, S
  <1>6. /\ FlattenSeq(drawn) \in Seq(Records)
        /\ Count(FlattenSeq(drawn), R) = Cardinality(inD)
    <2> HIDE DEF D
    <2> QED  BY <1>5, PickedCount
  <1>7. /\ FlattenSeq(large) \in Seq(Records)
        /\ Count(FlattenSeq(large), R) = Cardinality(inL)
    <2> HIDE DEF L
    <2> QED  BY <1>5, PickedCount
  <1> HIDE DEF inD, inL
  <1>8. IsFiniteSet(S) /\ IsFiniteSet(inL)
    <2>1. IsFiniteSet(DOMAIN rects)
      BY LenProperties, FS_Interval
    <2>2. S \subseteq DOMAIN rects /\ inL \subseteq DOMAIN rects
      BY <1>4
    <2> QED  BY <2>1, <2>2, FS_Subset
  <1>9. Cardinality(S) \in Nat /\ Cardinality(inL) \in Nat
    BY <1>8, FS_CardinalityType
  <1>10. Cardinality(inD) = Cardinality(S) + Cardinality(inL)
    <2>1. Cardinality(S \cup inL) = Cardinality(S) + Cardinality(inL) - Cardinality(S \cap inL)
      BY <1>8, FS_Union
    <2>2. Cardinality(S \cap inL) = 0
      BY <1>4, FS_EmptySet
    <2> QED  BY <1>4, <1>9, <2>1, <2>2
  <1> QED  BY <1>3, <1>6, <1>7, <1>8, <1>9, <1>10 DEF S

-----------------------------------------------------------------------------
(***************************************************************************)
(* The detail tiles: a unit square is in at most one of them.              *)
(***************************************************************************)

LEMMA QuarterHolds ==
    ASSUME NEW b, IsBox(b), NEW x \in Int, NEW y \in Int
    PROVE  /\ \A q \in 1..4 : Holds(Quarter(b, q), x, y) => Holds(b, x, y)
           /\ Holds(b, x, y) => \E q \in 1..4 : Holds(Quarter(b, q), x, y)
           /\ \A p, q \in 1..4 : Holds(Quarter(b, p), x, y) /\ Holds(Quarter(b, q), x, y) => p = q
  <1> DEFINE midX == b[1] + (b[3] - b[1]) \div 2
             midY == b[2] + (b[4] - b[2]) \div 2
  <1>1. b[1] \in Int /\ b[2] \in Int /\ b[3] \in Int /\ b[4] \in Int
    BY DEF IsBox
  <1>2. /\ midX \in Int /\ midY \in Int
        /\ b[1] < b[3] => b[1] <= midX /\ midX <= b[3]
        /\ b[3] <= b[1] => b[3] <= midX /\ midX <= b[1]
        /\ b[2] < b[4] => b[2] <= midY /\ midY <= b[4]
        /\ b[4] <= b[2] => b[4] <= midY /\ midY <= b[2]
    BY <1>1
  <1>3. \A q \in 1..4 :
          Quarter(b, q) = <<<<b[1], b[2], midX, midY>>, <<midX, b[2], b[3], midY>>,
                            <<b[1], midY, midX, b[4]>>, <<midX, midY, b[3], b[4]>>>>[q]
    BY Zenon DEF Quarter
  <1> HIDE DEF midX, midY
  <1>4. /\ Quarter(b, 1) = <<b[1], b[2], midX, midY>>
        /\ Quarter(b, 2) = <<midX, b[2], b[3], midY>>
        /\ Quarter(b, 3) = <<b[1], midY, midX, b[4]>>
        /\ Quarter(b, 4) = <<midX, midY, b[3], b[4]>>
    BY <1>3
  <1>5. /\ Holds(Quarter(b, 1), x, y) <=> b[1] <= x /\ x < midX /\ b[2] <= y /\ y < midY
        /\ Holds(Quarter(b, 2), x, y) <=> midX <= x /\ x < b[3] /\ b[2] <= y /\ y < midY
        /\ Holds(Quarter(b, 3), x, y) <=> b[1] <= x /\ x < midX /\ midY <= y /\ y < b[4]
        /\ Holds(Quarter(b, 4), x, y) <=> midX <= x /\ x < b[3] /\ midY <= y /\ y < b[4]
    BY <1>4 DEF Holds
  <1>6. Holds(b, x, y) <=> b[1] <= x /\ x < b[3] /\ b[2] <= y /\ y < b[4]
    BY DEF Holds
  <1>7. 1..4 = {1, 2, 3, 4}
    OBVIOUS
  <1>8. ASSUME NEW q \in 1..4, Holds(Quarter(b, q), x, y) PROVE Holds(b, x, y)
    <2>1. q = 1 \/ q = 2 \/ q = 3 \/ q = 4
      BY <1>7
    <2>2. CASE q = 1
      BY <1>1, <1>2, <1>5, <1>6, <1>8, <2>2
    <2>3. CASE q = 2
      BY <1>1, <1>2, <1>5, <1>6, <1>8, <2>3
    <2>4. CASE q = 3
      BY <1>1, <1>2, <1>5, <1>6, <1>8, <2>4
    <2>5. CASE q = 4
      BY <1>1, <1>2, <1>5, <1>6, <1>8, <2>5
    <2> QED  BY <2>1, <2>2, <2>3, <2>4, <2>5
  <1>9. ASSUME Holds(b, x, y) PROVE \E q \in 1..4 : Holds(Quarter(b, q), x, y)
    <2>1. \/ Holds(Quarter(b, 1), x, y) \/ Holds(Quarter(b, 2), x, y)
          \/ Holds(Quarter(b, 3), x, y) \/ Holds(Quarter(b, 4), x, y)
      BY <1>1, <1>2, <1>5, <1>6, <1>9
    <2> QED  BY <1>7, <2>1
  <1>10. ASSUME NEW p \in 1..4, NEW q \in 1..4,
                Holds(Quarter(b, p), x, y), Holds(Quarter(b, q), x, y)
         PROVE  p = q
    <2>1. /\ p = 1 \/ p = 2 \/ p = 3 \/ p = 4
          /\ q = 1 \/ q = 2 \/ q = 3 \/ q = 4
      BY <1>7
    <2>2. CASE p = 1
      BY <1>2, <1>5, <1>10, <2>1, <2>2
    <2>3. CASE p = 2
      BY <1>2, <1>5, <1>10, <2>1, <2>3
    <2>4. CASE p = 3
      BY <1>2, <1>5, <1>10, <2>1, <2>4
    <2>5. CASE p = 4
      BY <1>2, <1>5, <1>10, <2>1, <2>5
    <2> QED  BY <2>1, <2>2, <2>3, <2>4, <2>5
  <1> QED  BY <1>8, <1>9, <1>10

\* A unit square is in one of these tiles at most, which shows an object there n times; no other
\* shows it there, and if none holds the square n is 0.
Shown(t, key, x, y) == Count(t.rects, At(key, x, y))
Covers(T, key, x, y, n) ==
    /\ \A t \in T : IsTyped(t) /\ Shown(t, key, x, y) = IF Holds(t.bbox, x, y) THEN n ELSE 0
    /\ \A s, t \in T : Holds(s.bbox, x, y) /\ Holds(t.bbox, x, y) => s = t
    /\ n # 0 => \E t \in T : Holds(t.bbox, x, y)

LEMMA CountEmpty == ASSUME NEW R PROVE Count(<<>>, R) = 0
  <1>1. Where(<<>>, R) = {}
    BY DEF Where
  <1> QED  BY <1>1, FS_EmptySet DEF Count

\* What becomes of a tile in a quarter of it.
LEMMA PartShows ==
    ASSUME NEW t, IsTyped(t), NEW x \in Int, NEW y \in Int, NEW key, NEW q \in 1..4
    PROVE  /\ PartOf(t, q).bbox = Quarter(t.bbox, q)
           /\ Shown(PartOf(t, q), key, x, y)
                = IF Holds(Quarter(t.bbox, q), x, y) THEN Shown(t, key, x, y) ELSE 0
  <1>1. /\ PartOf(t, q).bbox = Quarter(t.bbox, q)
        /\ PartOf(t, q).rects = ClipAll(t.rects, Quarter(t.bbox, q))
    BY DEF PartOf
  <1>2. t.rects \in Seq(Records) /\ IsBox(Quarter(t.bbox, q))
    BY QuarterTyped DEF IsTyped
  <1>3. Count(ClipAll(t.rects, Quarter(t.bbox, q)), At(key, x, y))
          = IF Holds(Quarter(t.bbox, q), x, y) THEN Count(t.rects, At(key, x, y)) ELSE 0
    BY <1>2, ClipAllCount
  <1> QED  BY <1>1, <1>3 DEF Shown

LEMMA DeeperCovers ==
    ASSUME NEW T, NEW x \in Int, NEW y \in Int, NEW key, NEW n, Covers(T, key, x, y, n)
    PROVE  Covers(Deeper(T), key, x, y, n)
  <1>1. ASSUME NEW t \in T
        PROVE  /\ IsTyped(t) /\ Shown(t, key, x, y) = IF Holds(t.bbox, x, y) THEN n ELSE 0
    BY DEF Covers
  <1>2. ASSUME NEW t \in T, NEW q \in 1..4
        PROVE  /\ PartOf(t, q).bbox = Quarter(t.bbox, q)
               /\ Holds(Quarter(t.bbox, q), x, y) => Holds(t.bbox, x, y)
               /\ Shown(PartOf(t, q), key, x, y) = IF Holds(Quarter(t.bbox, q), x, y) THEN n ELSE 0
    <2>1. IsTyped(t) /\ IsBox(t.bbox) /\ Shown(t, key, x, y) = IF Holds(t.bbox, x, y) THEN n ELSE 0
      BY <1>1 DEF IsTyped
    <2>2. /\ PartOf(t, q).bbox = Quarter(t.bbox, q)
          /\ Shown(PartOf(t, q), key, x, y)
               = IF Holds(Quarter(t.bbox, q), x, y) THEN Shown(t, key, x, y) ELSE 0
      BY <2>1, PartShows
    <2>3. Holds(Quarter(t.bbox, q), x, y) => Holds(t.bbox, x, y)
      BY <2>1, QuarterHolds
    <2> QED  BY <2>1, <2>2, <2>3
  <1>3. ASSUME NEW u \in Deeper(T)
        PROVE  \E t \in T : \/ u = t /\ Split(t, Quadrants(t)) = {t}
                            \/ /\ u \in Quadrants(t) /\ Split(t, Quadrants(t)) = Quadrants(t)
                               /\ \E q \in 1..4 : u = PartOf(t, q)
    <2>1. PICK t \in T : u \in Split(t, Quadrants(t))
      BY DEF Deeper
    <2>2. Split(t, Quadrants(t)) = {t} \/ Split(t, Quadrants(t)) = Quadrants(t)
      BY DEF Split
    <2>3. u \in Quadrants(t) => \E q \in 1..4 : u = PartOf(t, q)
      BY QuadrantsAreParts
    <2> QED  BY <2>1, <2>2, <2>3
  <1>4. ASSUME NEW u \in Deeper(T)
        PROVE  IsTyped(u) /\ Shown(u, key, x, y) = IF Holds(u.bbox, x, y) THEN n ELSE 0
    <2>1. PICK t \in T : \/ u = t
                         \/ u \in Quadrants(t) /\ \E q \in 1..4 : u = PartOf(t, q)
      BY <1>3
    <2>2. CASE u = t
      BY <1>1, <2>2
    <2>3. CASE u \in Quadrants(t) /\ \E q \in 1..4 : u = PartOf(t, q)
      <3>1. PICK q \in 1..4 : u = PartOf(t, q)
        BY <2>3
      <3>2. IsTyped(u)
        BY <1>1, <2>3, QuadrantTyped
      <3> QED  BY <1>2, <3>1, <3>2
    <2> QED  BY <2>1, <2>2, <2>3
  <1>5. ASSUME NEW u \in Deeper(T), NEW v \in Deeper(T), Holds(u.bbox, x, y), Holds(v.bbox, x, y)
        PROVE  u = v
    <2>1. PICK s \in T : \/ u = s /\ Split(s, Quadrants(s)) = {s}
                         \/ /\ u \in Quadrants(s) /\ Split(s, Quadrants(s)) = Quadrants(s)
                            /\ \E q \in 1..4 : u = PartOf(s, q)
      BY <1>3
    <2>2. PICK t \in T : \/ v = t /\ Split(t, Quadrants(t)) = {t}
                         \/ /\ v \in Quadrants(t) /\ Split(t, Quadrants(t)) = Quadrants(t)
                            /\ \E q \in 1..4 : v = PartOf(t, q)
      BY <1>3
    <2>3. s = t
      <3>1. Holds(s.bbox, x, y)
        BY <1>2, <1>5, <2>1
      <3>2. Holds(t.bbox, x, y)
        BY <1>2, <1>5, <2>2
      <3> QED  BY <3>1, <3>2 DEF Covers
    <2>4. CASE Split(s, Quadrants(s)) = {s}
      <3>1. u = s \/ u \in {s}
        BY <2>1, <2>4
      <3>2. v = s \/ v \in {s}
        BY <2>2, <2>3, <2>4
      <3> QED  BY <3>1, <3>2
    <2>5. CASE Split(s, Quadrants(s)) # {s}
      <3>1. PICK p \in 1..4 : u = PartOf(s, p)
        BY <2>1, <2>5
      <3>2. PICK q \in 1..4 : v = PartOf(s, q)
        BY <2>2, <2>3, <2>5
      <3>3. Holds(Quarter(s.bbox, p), x, y) /\ Holds(Quarter(s.bbox, q), x, y)
        BY <1>2, <1>5, <3>1, <3>2
      <3>4. IsBox(s.bbox)
        BY <1>1 DEF IsTyped
      <3>5. p = q
        BY <3>3, <3>4, QuarterHolds
      <3> QED  BY <3>1, <3>2, <3>5
    <2> QED  BY <2>4, <2>5
  <1>6. ASSUME n # 0 PROVE \E u \in Deeper(T) : Holds(u.bbox, x, y)
    <2>1. PICK t \in T : Holds(t.bbox, x, y)
      BY <1>6 DEF Covers
    <2>2. CASE Split(t, Quadrants(t)) = {t}
      <3>1. t \in Deeper(T)
        BY <2>2 DEF Deeper
      <3> QED  BY <2>1, <3>1
    <2>3. CASE Split(t, Quadrants(t)) # {t}
      <3>1. IsBox(t.bbox)
        BY <1>1 DEF IsTyped
      <3>2. PICK q \in 1..4 : Holds(Quarter(t.bbox, q), x, y)
        BY <2>1, <3>1, QuarterHolds
      <3>3. /\ PartOf(t, q).bbox = Quarter(t.bbox, q)
            /\ Shown(PartOf(t, q), key, x, y) = n
        BY <1>2, <3>2
      <3>4. PartOf(t, q).rects # <<>>
        BY <1>6, <3>3, CountEmpty DEF Shown
      <3>5. PartOf(t, q) \in Quadrants(t)
        BY <3>4, QuadrantsAreParts
      <3>6. Split(t, Quadrants(t)) = Quadrants(t)
        BY <2>3 DEF Split
      <3>7. PartOf(t, q) \in Deeper(T)
        BY <3>5, <3>6 DEF Deeper
      <3> QED  BY <3>2, <3>3, <3>7
    <2> QED  BY <2>2, <2>3
  <1> QED  BY <1>4, <1>5, <1>6 DEF Covers

LEMMA LevelsCover ==
    ASSUME NEW tiles, NEW x \in Int, NEW y \in Int, NEW key, NEW n, Covers(tiles, key, x, y, n),
           NEW m \in Nat, NEW f, IsLevels(f, tiles, m), NEW d \in 0..m
    PROVE  Covers(f[d], key, x, y, n)
  <1> DEFINE Bad == {k \in 0..m : ~Covers(f[k], key, x, y, n)}
  <1> SUFFICES ASSUME Bad # {} PROVE FALSE  OBVIOUS
  <1>1. PICK k \in Bad : \A j \in Bad : k <= j
    <2>1. Bad \subseteq Nat  OBVIOUS
    <2> HIDE DEF Bad
    <2> QED  BY <2>1, Smallest
  <1>2. f[k] = IF k = 0 THEN tiles ELSE Deeper(f[k - 1])
    <2>1. k \in 0..m  OBVIOUS
    <2> HIDE DEF Bad
    <2> QED  BY <2>1 DEF IsLevels
  <1>3. CASE k = 0  BY <1>1, <1>2, <1>3
  <1>4. CASE k # 0
    <2>1. k - 1 \in 0..m /\ k - 1 \notin Bad  BY <1>1, <1>4
    <2>2. Covers(f[k - 1], key, x, y, n)  BY <2>1
    <2>3. Covers(Deeper(f[k - 1]), key, x, y, n)  BY <2>2, DeeperCovers
    <2> QED  BY <1>1, <1>2, <1>4, <2>3
  <1> QED  BY <1>3, <1>4

-----------------------------------------------------------------------------
(***************************************************************************)
(* The cells of the grid.                                                  *)
(***************************************************************************)

LEMMA RoundMono ==
    ASSUME NEW a \in Int, NEW b \in Int, NEW d \in Nat \ {0}, a <= b
    PROVE  RoundDiv(a, d) <= RoundDiv(b, d)
  <1> DEFINE u == 2 * d
             up(n) == (2 * n + d) \div u
             down(n) == (d - 2 * n) \div u
  <1>1. u \in Nat \ {0} /\ 2 * a + d \in Int /\ 2 * b + d \in Int /\ d - 2 * a \in Int /\ d - 2 * b \in Int
    OBVIOUS
  <1>2. RoundDiv(a, d) = (IF a >= 0 THEN up(a) ELSE -down(a))
        /\ RoundDiv(b, d) = (IF b >= 0 THEN up(b) ELSE -down(b))
    BY Zenon DEF RoundDiv
  <1> HIDE DEF u
  <1>3. up(a) \in Int /\ up(b) \in Int /\ down(a) \in Int /\ down(b) \in Int
    BY <1>1, DivIs
  <1>4. up(a) <= up(b)
    BY <1>1, DivMono
  <1>5. down(b) <= down(a)
    BY <1>1, DivMono
  <1>6. \A n \in Int : 0 <= n => 0 <= n \div u
    <2>1. ASSUME NEW n \in Int, 0 <= n PROVE 0 <= n \div u
      BY <1>1, <2>1
    <2> QED  BY <2>1
  <1>7. b >= 0 => 0 <= up(b)
    BY <1>1, <1>6
  <1>8. a < 0 => 0 <= down(a)
    BY <1>1, <1>6
  <1> HIDE DEF up, down
  <1> QED  BY <1>2, <1>3, <1>4, <1>5, <1>7, <1>8

\* The edges of a grid in one direction.
Edge(origin, size, cells, i) == RoundDiv(origin * cells + size * i, cells)

LEMMA EdgesGrow ==
    ASSUME NEW origin \in Int, NEW size \in Nat, NEW cells \in Nat \ {0},
           NEW i \in Int, NEW j \in Int, i <= j
    PROVE  /\ Edge(origin, size, cells, i) \in Int /\ Edge(origin, size, cells, j) \in Int
           /\ Edge(origin, size, cells, i) <= Edge(origin, size, cells, j)
  <1> DEFINE o == origin * cells
             a == size * i
             b == size * j
  <1>1. o \in Int /\ a \in Int /\ b \in Int
    BY ProductIsInt
  <1>2. a <= b
    BY MulMono
  <1> HIDE DEF o, a, b
  <1>3. o + a \in Int /\ o + b \in Int /\ o + a <= o + b
    BY <1>1, <1>2
  <1>4. RoundDiv(o + a, cells) \in Int /\ RoundDiv(o + b, cells) \in Int
    BY <1>3, RoundDivTyped
  <1>5. RoundDiv(o + a, cells) <= RoundDiv(o + b, cells)
    BY <1>3, RoundMono
  <1> QED  BY <1>4, <1>5 DEF Edge, o, a, b

\* What lies in two cells of a grid lies in one.
LEMMA OneInterval ==
    ASSUME NEW origin \in Int, NEW size \in Nat, NEW cells \in Nat \ {0}, NEW end, NEW v \in Int,
           NEW i \in 0..(cells - 1), NEW j \in 0..(cells - 1),
           Edge(origin, size, cells, i) <= v,
           v < IF i + 1 = cells THEN end ELSE Edge(origin, size, cells, i + 1),
           Edge(origin, size, cells, j) <= v,
           v < IF j + 1 = cells THEN end ELSE Edge(origin, size, cells, j + 1)
    PROVE  i = j
  <1> DEFINE edge(k) == Edge(origin, size, cells, k)
  <1>1. \A k, l \in Int : k <= l => edge(k) \in Int /\ edge(l) \in Int /\ edge(k) <= edge(l)
    BY EdgesGrow
  <1> HIDE DEF edge
  <1>2. ASSUME NEW k \in 0..(cells - 1), NEW l \in 0..(cells - 1), k < l,
               v < IF k + 1 = cells THEN end ELSE edge(k + 1), edge(l) <= v
        PROVE  FALSE
    <2>1. k + 1 \in Int /\ l \in Int /\ k + 1 <= l /\ k + 1 # cells
      BY <1>2
    <2>2. edge(k + 1) \in Int /\ edge(l) \in Int /\ edge(k + 1) <= edge(l)
      BY <1>1, <2>1
    <2> QED  BY <1>2, <2>1, <2>2
  <1>3. ~(i < j)
    BY <1>2 DEF edge
  <1>4. ~(j < i)
    BY <1>2 DEF edge
  <1> QED  BY <1>3, <1>4

LEMMA SizesAre ==
    ASSUME NEW world, IsBox(world)
    PROVE  Width(world) \in Nat \ {0} /\ Height(world) \in Nat \ {0}
  BY DEF IsBox, Width, Height, Most

LEMMA CellHolds ==
    ASSUME NEW world, NEW cx, NEW cy, NEW x, NEW y
    PROVE  Holds(TileBox(world, cx, cy), x, y) <=>
             /\ Edge(world[1], Width(world), GridColumns, cx) <= x
             /\ x < IF cx + 1 = GridColumns THEN world[3]
                    ELSE Edge(world[1], Width(world), GridColumns, cx + 1)
             /\ Edge(world[2], Height(world), GridRows, cy) <= y
             /\ y < IF cy + 1 = GridRows THEN world[4]
                    ELSE Edge(world[2], Height(world), GridRows, cy + 1)
  <1> DEFINE a == Edge(world[1], Width(world), GridColumns, cx)
             b == Edge(world[2], Height(world), GridRows, cy)
             c == IF cx + 1 = GridColumns THEN world[3]
                  ELSE Edge(world[1], Width(world), GridColumns, cx + 1)
             d == IF cy + 1 = GridRows THEN world[4]
                  ELSE Edge(world[2], Height(world), GridRows, cy + 1)
  <1>1. TileBox(world, cx, cy) = <<a, b, c, d>>
    BY Zenon DEF TileBox, Edge
  <1> HIDE DEF a, b, c, d
  <1>2. Holds(TileBox(world, cx, cy), x, y) <=> a <= x /\ x < c /\ b <= y /\ y < d
    BY <1>1 DEF Holds
  <1> QED  BY <1>2, Zenon DEF a, b, c, d

LEMMA OneCell ==
    ASSUME NEW world, IsBox(world), NEW x \in Int, NEW y \in Int,
           NEW i \in 0..(GridColumns - 1), NEW k \in 0..(GridColumns - 1),
           NEW j \in 0..(GridRows - 1), NEW l \in 0..(GridRows - 1),
           Holds(TileBox(world, i, j), x, y), Holds(TileBox(world, k, l), x, y)
    PROVE  i = k /\ j = l
  <1>1. /\ GridColumns \in Nat \ {0} /\ GridRows \in Nat \ {0}
        /\ Width(world) \in Nat /\ Height(world) \in Nat /\ world[1] \in Int /\ world[2] \in Int
    BY SizesAre, GridAssumption DEF IsBox
  <1>2. i = k
    <2>1. /\ Edge(world[1], Width(world), GridColumns, i) <= x
          /\ x < IF i + 1 = GridColumns THEN world[3]
                 ELSE Edge(world[1], Width(world), GridColumns, i + 1)
          /\ Edge(world[1], Width(world), GridColumns, k) <= x
          /\ x < IF k + 1 = GridColumns THEN world[3]
                 ELSE Edge(world[1], Width(world), GridColumns, k + 1)
      BY CellHolds
    <2> QED  BY <1>1, <2>1, OneInterval
  <1>3. j = l
    <2>1. /\ Edge(world[2], Height(world), GridRows, j) <= y
          /\ y < IF j + 1 = GridRows THEN world[4]
                 ELSE Edge(world[2], Height(world), GridRows, j + 1)
          /\ Edge(world[2], Height(world), GridRows, l) <= y
          /\ y < IF l + 1 = GridRows THEN world[4]
                 ELSE Edge(world[2], Height(world), GridRows, l + 1)
      BY CellHolds
    <2> QED  BY <1>1, <2>1, OneInterval
  <1> QED  BY <1>2, <1>3

\* Where coordinates are put grows with them.
PutAt(v, origin, size, cells) == Clamp(((v - origin) * cells) \div size, 0, cells - 1)

LEMMA PutGrows ==
    ASSUME NEW origin \in Int, NEW size \in Nat \ {0}, NEW cells \in Nat \ {0},
           NEW v \in Int, NEW w \in Int, v <= w
    PROVE  /\ PutAt(v, origin, size, cells) \in 0..(cells - 1)
           /\ PutAt(w, origin, size, cells) \in 0..(cells - 1)
           /\ PutAt(v, origin, size, cells) <= PutAt(w, origin, size, cells)
  <1> DEFINE a == cells * (v - origin)
             b == cells * (w - origin)
             p == a \div size
             q == b \div size
  <1>1. (v - origin) * cells = a /\ (w - origin) * cells = b
    OBVIOUS
  <1>2. a \in Int /\ b \in Int
    BY ProductIsInt
  <1>3. a <= b
    BY MulMono
  <1> HIDE DEF a, b
  <1>4. p \in Int /\ q \in Int
    BY <1>2, DivIs
  <1>5. p <= q
    BY <1>2, <1>3, DivMono
  <1>6. PutAt(v, origin, size, cells) = Clamp(p, 0, cells - 1)
        /\ PutAt(w, origin, size, cells) = Clamp(q, 0, cells - 1)
    BY <1>1 DEF PutAt
  <1> HIDE DEF p, q
  <1> QED  BY <1>4, <1>5, <1>6 DEF Clamp, Most, Least

\* The cell a unit square's coordinates are put into is in the range of every record that holds
\* the square.
LEMMA RangeHolds ==
    ASSUME NEW world, IsBox(world), NEW b, IsBox(b), NEW x \in Int, NEW y \in Int, Holds(b, x, y)
    PROVE  /\ TileX(world, x) \in 0..(GridColumns - 1) /\ TileY(world, y) \in 0..(GridRows - 1)
           /\ TileX(world, x) \in TileRange(world, b).xs
           /\ TileY(world, y) \in TileRange(world, b).ys
  <1>1. /\ GridColumns \in Nat \ {0} /\ GridRows \in Nat \ {0}
        /\ Width(world) \in Nat \ {0} /\ Height(world) \in Nat \ {0}
        /\ world[1] \in Int /\ world[2] \in Int
    BY SizesAre, GridAssumption DEF IsBox
  <1>2. /\ b[1] \in Int /\ b[2] \in Int /\ b[3] - 1 \in Int /\ b[4] - 1 \in Int
        /\ b[1] <= x /\ x <= b[3] - 1 /\ b[2] <= y /\ y <= b[4] - 1
    BY DEF IsBox, Holds
  <1>3. /\ TileX(world, b[1]) \in 0..(GridColumns - 1) /\ TileX(world, x) \in 0..(GridColumns - 1)
        /\ TileX(world, b[3] - 1) \in 0..(GridColumns - 1)
        /\ TileX(world, b[1]) <= TileX(world, x) /\ TileX(world, x) <= TileX(world, b[3] - 1)
    <2> DEFINE at(v) == PutAt(v, world[1], Width(world), GridColumns)
    <2>1. \A v : TileX(world, v) = at(v)
      BY Zenon DEF TileX, PutAt
    <2>2. \A v, w \in Int : v <= w =>
            at(v) \in 0..(GridColumns - 1) /\ at(w) \in 0..(GridColumns - 1) /\ at(v) <= at(w)
      BY <1>1, PutGrows
    <2> HIDE DEF at
    <2> QED  BY <1>2, <2>1, <2>2
  <1>4. /\ TileY(world, b[2]) \in 0..(GridRows - 1) /\ TileY(world, y) \in 0..(GridRows - 1)
        /\ TileY(world, b[4] - 1) \in 0..(GridRows - 1)
        /\ TileY(world, b[2]) <= TileY(world, y) /\ TileY(world, y) <= TileY(world, b[4] - 1)
    <2> DEFINE at(v) == PutAt(v, world[2], Height(world), GridRows)
    <2>1. \A v : TileY(world, v) = at(v)
      BY Zenon DEF TileY, PutAt
    <2>2. \A v, w \in Int : v <= w =>
            at(v) \in 0..(GridRows - 1) /\ at(w) \in 0..(GridRows - 1) /\ at(v) <= at(w)
      BY <1>1, PutGrows
    <2> HIDE DEF at
    <2> QED  BY <1>2, <2>1, <2>2
  <1>5. ASSUME NEW p \in Int, NEW q \in Int, NEW v \in Int, p <= v, v <= q
        PROVE  v \in Least(p, q)..Most(p, q)
    BY <1>5 DEF Least, Most
  <1>6. /\ TileRange(world, b).xs = Least(TileX(world, b[1]), TileX(world, b[3] - 1))
                                    ..Most(TileX(world, b[1]), TileX(world, b[3] - 1))
        /\ TileRange(world, b).ys = Least(TileY(world, b[2]), TileY(world, b[4] - 1))
                                    ..Most(TileY(world, b[2]), TileY(world, b[4] - 1))
    BY DEF TileRange
  <1>7. TileX(world, x) \in TileRange(world, b).xs
    BY <1>1, <1>3, <1>5, <1>6
  <1>8. TileY(world, y) \in TileRange(world, b).ys
    BY <1>1, <1>4, <1>5, <1>6
  <1> QED  BY <1>3, <1>4, <1>7, <1>8

\* What the tiles show in a unit square: what goes into the tiles of the cell that holds it.
TruthfulCount(n, world, rects, x, y, key) ==
    LET all == Cardinality(Small(world, rects, At(key, x, y)))
    IN  n \in Nat /\ n <= all /\ (Settled(world, x, y) => n = all)

NonEmptyCells(world, rects) == {c \in Cells(world, rects) : c.rects # <<>>}

LEMMA CellIs ==
    ASSUME NEW world, IsBox(world), NEW rects \in Seq(Records), NEW c \in Cells(world, rects),
           NEW x \in Int, NEW y \in Int, NEW key
    PROVE  \E i \in 0..(GridColumns - 1), j \in 0..(GridRows - 1) :
             /\ c = Tile(i, j, 0, TileBox(world, i, j), Bucket(world, rects, i, j))
             /\ IsTyped(c) /\ c.bbox = TileBox(world, i, j)
             /\ Shown(c, key, x, y)
                  = IF Holds(c.bbox, x, y)
                    THEN Cardinality(InCell(world, rects, i, j, At(key, x, y))) ELSE 0
  <1>1. PICK i \in 0..(GridColumns - 1), j \in 0..(GridRows - 1) :
           c = Tile(i, j, 0, TileBox(world, i, j), Bucket(world, rects, i, j))
    BY DEF Cells
  <1>2. i \in Int /\ j \in Int
    BY GridAssumption
  <1>3. c.bbox = TileBox(world, i, j) /\ c.rects = Bucket(world, rects, i, j)
    BY <1>1 DEF Tile
  <1>4. IsTyped(c)
    BY <1>2, <1>3, TileBoxTyped, BucketTyped DEF IsTyped
  <1>5. Count(Bucket(world, rects, i, j), At(key, x, y))
          = IF Holds(TileBox(world, i, j), x, y)
            THEN Cardinality(InCell(world, rects, i, j, At(key, x, y))) ELSE 0
    BY <1>2, BucketCount
  <1> QED  BY <1>1, <1>3, <1>4, <1>5 DEF Shown

LEMMA CellsCover ==
    ASSUME NEW world, IsBox(world), NEW rects \in Seq(Records), NEW x \in Int, NEW y \in Int, NEW key
    PROVE  \E n : /\ TruthfulCount(n, world, rects, x, y, key)
                  /\ Covers(NonEmptyCells(world, rects), key, x, y, n)
  <1> DEFINE R == At(key, x, y)
             C == NonEmptyCells(world, rects)
             all == Small(world, rects, R)
             in(i, j) == InCell(world, rects, i, j, R)
  <1>1. IsFiniteSet(all) /\ Cardinality(all) \in Nat
    BY DrawnIsBoth
  <1>2. ASSUME NEW i, NEW j
        PROVE  Cardinality(in(i, j)) \in Nat /\ Cardinality(in(i, j)) <= Cardinality(all)
    <2>1. in(i, j) \subseteq all
      BY DEF InCell, GoesTo, Small
    <2> HIDE DEF in, all
    <2>2. IsFiniteSet(in(i, j)) /\ Cardinality(in(i, j)) <= Cardinality(all)
      BY <1>1, <2>1, FS_Subset
    <2> QED  BY <2>2, FS_CardinalityType
  <1>3. ASSUME NEW c \in C
        PROVE  \E i \in 0..(GridColumns - 1), j \in 0..(GridRows - 1) :
                 /\ c = Tile(i, j, 0, TileBox(world, i, j), Bucket(world, rects, i, j))
                 /\ IsTyped(c) /\ c.bbox = TileBox(world, i, j)
                 /\ Shown(c, key, x, y)
                      = IF Holds(c.bbox, x, y) THEN Cardinality(in(i, j)) ELSE 0
    BY CellIs DEF NonEmptyCells
  <1>4. Settled(world, x, y) =>
          \A r \in R : TileX(world, x) \in TileRange(world, r.box).xs
                       /\ TileY(world, y) \in TileRange(world, r.box).ys
    <2>1. ASSUME NEW r \in R PROVE IsBox(r.box) /\ Holds(r.box, x, y)
      BY RecordIsBox DEF At, Records
    <2> QED  BY <2>1, RangeHolds
  <1>5. TileX(world, x) \in 0..(GridColumns - 1) /\ TileY(world, y) \in 0..(GridRows - 1)
    <2> DEFINE b == <<x, y, x + 1, y + 1>>
    <2>1. IsBox(b) /\ Holds(b, x, y)
      BY DEF IsBox, Holds
    <2> HIDE DEF b
    <2> QED  BY <2>1, RangeHolds
  <1>6. CASE \E i \in 0..(GridColumns - 1), j \in 0..(GridRows - 1) : Holds(TileBox(world, i, j), x, y)
    <2>1. PICK i \in 0..(GridColumns - 1), j \in 0..(GridRows - 1) : Holds(TileBox(world, i, j), x, y)
      BY <1>6
    <2> DEFINE n == Cardinality(in(i, j))
    <2>2. ASSUME NEW k \in 0..(GridColumns - 1), NEW l \in 0..(GridRows - 1),
                 Holds(TileBox(world, k, l), x, y)
          PROVE  k = i /\ l = j
      BY <2>1, <2>2, OneCell
    <2>3. Settled(world, x, y) => in(i, j) = all
      <3> SUFFICES ASSUME Settled(world, x, y) PROVE in(i, j) = all  OBVIOUS
      <3>1. i = TileX(world, x) /\ j = TileY(world, y)
        BY <1>5, <2>2 DEF Settled
      <3>2. \A r \in R : i \in TileRange(world, r.box).xs /\ j \in TileRange(world, r.box).ys
        BY <1>4, <3>1
      <3> HIDE DEF R
      <3> QED  BY <3>2 DEF InCell, GoesTo, Small
    <2>4. TruthfulCount(n, world, rects, x, y, key)
      <3>1. n \in Nat /\ n <= Cardinality(all) /\ (Settled(world, x, y) => n = Cardinality(all))
        BY <1>2, <2>3
      <3> QED  BY <3>1 DEF TruthfulCount
    <2>5. ASSUME NEW c \in C
          PROVE  IsTyped(c) /\ Shown(c, key, x, y) = IF Holds(c.bbox, x, y) THEN n ELSE 0
      <3>1. PICK k \in 0..(GridColumns - 1), l \in 0..(GridRows - 1) :
                 /\ IsTyped(c) /\ c.bbox = TileBox(world, k, l)
                 /\ Shown(c, key, x, y)
                      = IF Holds(c.bbox, x, y) THEN Cardinality(in(k, l)) ELSE 0
        BY <1>3
      <3>2. Holds(c.bbox, x, y) => k = i /\ l = j
        BY <2>2, <3>1
      <3> QED  BY <3>1, <3>2
    <2>6. ASSUME NEW c \in C, NEW d \in C, Holds(c.bbox, x, y), Holds(d.bbox, x, y) PROVE c = d
      <3>1. PICK k \in 0..(GridColumns - 1), l \in 0..(GridRows - 1) :
                 c = Tile(k, l, 0, TileBox(world, k, l), Bucket(world, rects, k, l))
                 /\ c.bbox = TileBox(world, k, l)
        BY <1>3
      <3>2. PICK p \in 0..(GridColumns - 1), q \in 0..(GridRows - 1) :
                 d = Tile(p, q, 0, TileBox(world, p, q), Bucket(world, rects, p, q))
                 /\ d.bbox = TileBox(world, p, q)
        BY <1>3
      <3>3. k = i /\ l = j
        BY <2>2, <2>6, <3>1
      <3>4. p = i /\ q = j
        BY <2>2, <2>6, <3>2
      <3> QED  BY <3>1, <3>2, <3>3, <3>4
    <2>7. ASSUME n # 0 PROVE \E c \in C : Holds(c.bbox, x, y)
      <3> DEFINE c == Tile(i, j, 0, TileBox(world, i, j), Bucket(world, rects, i, j))
      <3>1. c \in Cells(world, rects)
        BY DEF Cells
      <3>2. c.bbox = TileBox(world, i, j) /\ c.rects = Bucket(world, rects, i, j)
        BY DEF Tile
      <3> HIDE DEF c
      <3>3. Count(c.rects, R) = n
        <4>1. i \in Int /\ j \in Int
          BY GridAssumption
        <4> QED  BY <2>1, <3>2, <4>1, BucketCount
      <3>4. c.rects # <<>>
        BY <2>7, <3>3, CountEmpty
      <3>5. c \in C
        BY <3>1, <3>4 DEF NonEmptyCells
      <3> QED  BY <2>1, <3>2, <3>5
    <2> HIDE DEF n, C
    <2>8. Covers(C, key, x, y, n)
      BY <2>5, <2>6, <2>7 DEF Covers
    <2> QED  BY <2>4, <2>8 DEF C
  <1>7. CASE ~ \E i \in 0..(GridColumns - 1), j \in 0..(GridRows - 1) : Holds(TileBox(world, i, j), x, y)
    <2>1. ~Settled(world, x, y)
      BY <1>5, <1>7 DEF Settled
    <2>2. TruthfulCount(0, world, rects, x, y, key)
      <3>1. 0 <= Cardinality(all) /\ 0 \in Nat
        BY <1>1
      <3> QED  BY <2>1, <3>1 DEF TruthfulCount
    <2>3. ASSUME NEW c \in C
          PROVE  IsTyped(c) /\ Shown(c, key, x, y) = 0 /\ ~Holds(c.bbox, x, y)
      BY <1>3, <1>7
    <2> HIDE DEF C
    <2>4. Covers(C, key, x, y, 0)
      BY <2>3 DEF Covers
    <2> QED  BY <2>2, <2>4 DEF C
  <1> QED  BY <1>6, <1>7

\* So it is when the tiles have been split.
LEMMA DetailCovers ==
    ASSUME NEW world, IsBox(world), NEW rects \in Seq(Records), NEW x \in Int, NEW y \in Int, NEW key
    PROVE  \E n : /\ TruthfulCount(n, world, rects, x, y, key)
                  /\ Covers(DetailSet(world, rects), key, x, y, n)
  <1> DEFINE C == NonEmptyCells(world, rects)
             T == DetailSet(world, rects)
  <1>1. PICK n : TruthfulCount(n, world, rects, x, y, key) /\ Covers(C, key, x, y, n)
    BY CellsCover
  <1>2. MaxDepth \in Nat /\ MaxDepth \in 0..MaxDepth
    BY GridAssumption
  <1> HIDE DEF C
  <1>3. PICK f : IsLevels(f, C, MaxDepth)
    BY <1>2, LevelsExist
  <1>4. Covers(f[MaxDepth], key, x, y, n)
    BY <1>1, <1>2, <1>3, LevelsCover
  <1>5. T = UNION {Subdivide(c) : c \in C}
    BY Zenon DEF DetailSet, C, NonEmptyCells
  <1>6. ASSUME NEW c \in C PROVE Subdivide(c) \subseteq f[MaxDepth]
    <2>1. PICK g : IsLevels(g, {c}, MaxDepth) /\ Subdivide(c) = g[MaxDepth]
      BY SubdivideIs
    <2> QED  BY <1>2, <1>3, <2>1, LevelsOfOne
  <1>7. T \subseteq f[MaxDepth]
    BY <1>5, <1>6
  <1>8. ASSUME n # 0 PROVE \E t \in T : Holds(t.bbox, x, y)
    <2>1. PICK c \in C : Holds(c.bbox, x, y)
      BY <1>1, <1>8 DEF Covers
    <2>2. Covers({c}, key, x, y, n)
      <3>1. IsTyped(c) /\ Shown(c, key, x, y) = IF Holds(c.bbox, x, y) THEN n ELSE 0
        BY <1>1 DEF Covers
      <3> QED  BY <2>1, <3>1 DEF Covers
    <2>3. PICK g : IsLevels(g, {c}, MaxDepth) /\ Subdivide(c) = g[MaxDepth]
      BY SubdivideIs
    <2>4. Covers(g[MaxDepth], key, x, y, n)
      BY <1>2, <2>2, <2>3, LevelsCover
    <2>5. PICK t \in Subdivide(c) : Holds(t.bbox, x, y)
      BY <1>8, <2>3, <2>4 DEF Covers
    <2>6. t \in T
      BY <1>5, <2>5
    <2> QED  BY <2>5, <2>6
  <1> HIDE DEF T
  <1>9. Covers(T, key, x, y, n)
    BY <1>4, <1>7, <1>8 DEF Covers
  <1> QED  BY <1>1, <1>9 DEF T

-----------------------------------------------------------------------------
(***************************************************************************)
(* What a viewport load returns.                                           *)
(***************************************************************************)

\* The detail tiles are all there, each of its own id.
LEMMA DetailTilesAre ==
    ASSUME NEW world, NEW rects
    PROVE  LET tiles == DetailTiles(world, rects)
           IN  /\ Len(tiles) \in Nat /\ DOMAIN tiles = 1..Len(tiles)
               /\ \A i, j \in DOMAIN tiles : tiles[i].id = tiles[j].id => i = j
               /\ \A i \in DOMAIN tiles : tiles[i] \in DetailSet(world, rects)
               /\ \A t \in DetailSet(world, rects) : \E i \in DOMAIN tiles : tiles[i] = t
  <1> DEFINE T == DetailSet(world, rects)
             tiles == DetailTiles(world, rects)
  <1>1. /\ IsFiniteSet(T) /\ \A t \in T : HasId(t)
        /\ \A t, v \in T : t.id = v.id => t = v
    BY DetailSetIsGood
  <1>2. tiles = InOrder(T, TileBefore)
    BY Zenon DEF DetailTiles, DetailSet, InOrder
  <1> HIDE DEF T, tiles
  <1>3. /\ Cardinality(T) \in Nat /\ DOMAIN tiles = 1..Cardinality(T)
        /\ Len(tiles) = Cardinality(T)
        /\ \A i \in DOMAIN tiles : tiles[i] \in T
        /\ \A i, j \in DOMAIN tiles : tiles[i].id = tiles[j].id => i = j
        /\ \A t \in T : \E i \in DOMAIN tiles : tiles[i] = t
    BY <1>1, <1>2, TilesInOrder
  <1>4. /\ Len(tiles) \in Nat /\ DOMAIN tiles = 1..Len(tiles)
        /\ \A i, j \in DOMAIN tiles : tiles[i].id = tiles[j].id => i = j
        /\ \A i \in DOMAIN tiles : tiles[i] \in T
        /\ \A t \in T : \E i \in DOMAIN tiles : tiles[i] = t
    BY <1>3
  <1> QED  BY <1>4 DEF tiles, T

\* Reading these entries gives these tiles.
ReadAs(files, entries, tiles) ==
    /\ Len(entries) \in Nat /\ DOMAIN entries = 1..Len(entries)
    /\ Len(tiles) = Len(entries)
    /\ \A k \in DOMAIN entries :
         /\ entries[k].id = tiles[k].id /\ entries[k].bbox = tiles[k].bbox
         /\ ReadTile(files, entries[k]) = [ok |-> TRUE, rects |-> tiles[k].rects]
    /\ \A i, k \in DOMAIN entries : entries[i].id = entries[k].id => i = k

\* What is returned of a tile, and of those of the first k that meet a viewport.
Piece(t) == [id |-> t.id, bbox |-> t.bbox, rects |-> t.rects]
Asked(tiles, viewport, k) == {i \in 1..k : Meets(Ordered(tiles[i].bbox), viewport)}
PiecesOf(tiles, viewport, k) == {Piece(tiles[i]) : i \in Asked(tiles, viewport, k)}

LEMMA PiecesGrow ==
    ASSUME NEW files, NEW entries, NEW tiles, ReadAs(files, entries, tiles), NEW viewport,
           NEW k \in Nat \ {0}, k \in DOMAIN entries
    PROVE  IF Meets(Ordered(tiles[k].bbox), viewport)
           THEN /\ PiecesOf(tiles, viewport, k)
                     = PiecesOf(tiles, viewport, k - 1) \cup {Piece(tiles[k])}
                /\ Piece(tiles[k]) \notin PiecesOf(tiles, viewport, k - 1)
           ELSE PiecesOf(tiles, viewport, k) = PiecesOf(tiles, viewport, k - 1)
  <1> DEFINE A(i) == Asked(tiles, viewport, i)
  <1>1. 1..k = (1..(k - 1)) \cup {k} /\ k \notin 1..(k - 1)
    OBVIOUS
  <1>2. CASE Meets(Ordered(tiles[k].bbox), viewport)
    <2>1. A(k) = A(k - 1) \cup {k}
      BY <1>1, <1>2 DEF Asked
    <2>2. ASSUME NEW i \in A(k - 1) PROVE Piece(tiles[i]) # Piece(tiles[k])
      <3>1. i \in DOMAIN entries /\ i # k
        BY <1>1 DEF Asked, ReadAs
      <3>2. tiles[i].id # tiles[k].id
        BY <3>1 DEF ReadAs
      <3>3. Piece(tiles[i]).id = tiles[i].id /\ Piece(tiles[k]).id = tiles[k].id
        BY DEF Piece
      <3> QED  BY <3>2, <3>3
    <2> HIDE DEF A
    <2>3. {Piece(tiles[i]) : i \in A(k)} = {Piece(tiles[i]) : i \in A(k - 1)} \cup {Piece(tiles[k])}
      BY <2>1
    <2>4. Piece(tiles[k]) \notin {Piece(tiles[i]) : i \in A(k - 1)}
      BY <2>2
    <2> QED  BY <1>2, <2>3, <2>4 DEF PiecesOf, A
  <1>3. CASE ~Meets(Ordered(tiles[k].bbox), viewport)
    <2>1. A(k) = A(k - 1)
      BY <1>1, <1>3 DEF Asked
    <2> QED  BY <1>3, <2>1 DEF PiecesOf
  <1> QED  BY <1>2, <1>3

\* A load under way from files that have not changed.
SteadyLoad(at, most, files, entries) == GoodLoad(at, most, files, entries, TRUE)

\* What has been returned and then a tile.
AndThen(returned, t) == Append(returned, Piece(t))

\* Whether it is cached or not, a tile is returned as it is on disk.
LEMMA LoadTileDelivers ==
    ASSUME NEW files, NEW entries, NEW tiles, ReadAs(files, entries, tiles), NEW most, NEW capacity,
           NEW at, SteadyLoad(at, most, files, entries), at.ok, NEW k \in DOMAIN entries
    PROVE  /\ LoadTile(files, capacity, at, entries[k]).ok
           /\ LoadTile(files, capacity, at, entries[k]).tiles = AndThen(at.tiles, tiles[k])
  <1> DEFINE entry == entries[k]
             next == LoadTile(files, capacity, at, entry)
             cache == at.cache
             read == ReadTile(files, entry)
  <1>1. /\ at = [ok |-> at.ok, cache |-> at.cache, tiles |-> at.tiles]
        /\ cache = [entries |-> cache.entries, order |-> cache.order]
        /\ CoherentCache(cache, files, entries)
    BY DEF SteadyLoad, GoodLoad
  <1>2. /\ entry.id = tiles[k].id /\ entry.bbox = tiles[k].bbox
        /\ read = [ok |-> TRUE, rects |-> tiles[k].rects]
        /\ \A i \in DOMAIN entries : entries[i].id = entry.id => i = k
    BY DEF ReadAs
  <1>3. CASE Cached(cache, entry.id)
    <2>1. PICK h \in DOMAIN entries :
             /\ entries[h].id = entry.id
             /\ ReadTile(files, entries[h]) = [ok |-> TRUE, rects |-> cache.entries[entry.id]]
      BY <1>1, <1>3 DEF CoherentCache, Cached
    <2>2. [ok |-> TRUE, rects |-> tiles[k].rects] = [ok |-> TRUE, rects |-> cache.entries[entry.id]]
      BY <1>2, <2>1
    <2>3. cache.entries[entry.id] = tiles[k].rects
      BY <2>2
    <2>4. next = [at EXCEPT !.cache.order = Touch(@, entry.id),
                            !.tiles = Append(@, [id |-> entry.id, bbox |-> entry.bbox,
                                                 rects |-> cache.entries[entry.id]])]
      BY <1>3 DEF LoadTile
    <2>5. [id |-> entry.id, bbox |-> entry.bbox, rects |-> cache.entries[entry.id]] = Piece(tiles[k])
      BY <1>2, <2>3 DEF Piece
    <2> HIDE DEF next, entry, cache
    <2>6. next.ok = at.ok /\ next.tiles = Append(at.tiles, Piece(tiles[k]))
      BY <1>1, <2>4, <2>5
    <2> QED  BY <2>6 DEF next, entry, AndThen
  <1>4. CASE ~Cached(cache, entry.id)
    <2>1. read.ok /\ read.rects = tiles[k].rects
      BY <1>2
    <2>2. next = [at EXCEPT !.cache = Insert(@, entry.id, read.rects, capacity),
                            !.tiles = Append(@, [id |-> entry.id, bbox |-> entry.bbox,
                                                 rects |-> read.rects])]
      BY <1>4, <2>1 DEF LoadTile
    <2>3. [id |-> entry.id, bbox |-> entry.bbox, rects |-> read.rects] = Piece(tiles[k])
      BY <1>2, <2>1 DEF Piece
    <2> HIDE DEF next, entry, cache, read
    <2>4. next.ok = at.ok /\ next.tiles = Append(at.tiles, Piece(tiles[k]))
      BY <1>1, <2>2, <2>3
    <2> QED  BY <2>4 DEF next, entry, AndThen
  <1> QED  BY <1>3, <1>4

\* Every tile that meets the viewport is returned, and once.
LEMMA LoadTilesDeliver ==
    ASSUME NEW files, NEW entries, NEW tiles, ReadAs(files, entries, tiles),
           NEW most \in Nat, NEW capacity \in 0..most, NEW viewport,
           NEW cache, cache = [entries |-> cache.entries, order |-> cache.order],
           OrderlyCache(cache, most), CoherentCache(cache, files, entries)
    PROVE  LET at == LoadTiles(files, entries, cache, viewport, capacity)
           IN  at.ok /\ Orders(at.tiles, PiecesOf(tiles, viewport, Len(tiles)))
  <1> DEFINE start == [ok |-> TRUE, cache |-> cache, tiles |-> <<>>]
             n == Len(entries)
  <1>0. n \in Nat /\ DOMAIN entries = 1..n /\ Len(tiles) = n
    BY DEF ReadAs
  <1>1. PICK f : /\ IsLoad(f, files, entries, start, viewport, capacity, n)
                 /\ LoadTiles(files, entries, cache, viewport, capacity) = f[1..n]
    BY <1>0, LoadTilesIs
  <1>2. GoodLoad(start, most, files, entries, TRUE) /\ start.ok /\ start.tiles = <<>>
    BY DEF GoodLoad
  <1> HIDE DEF start
  <1> DEFINE Good(k) == /\ GoodLoad(f[1..k], most, files, entries, TRUE) /\ f[1..k].ok
                        /\ Orders(f[1..k].tiles, PiecesOf(tiles, viewport, k))
             Bad == {k \in 0..n : ~Good(k)}
  <1>3. ASSUME Bad # {} PROVE FALSE
    <2>1. PICK k \in Bad : \A j \in Bad : k <= j
      <3>1. Bad \subseteq Nat
        <4> HIDE DEF Good, n
        <4> QED  BY <1>0
      <3> HIDE DEF Bad
      <3> QED  BY <1>3, <3>1, Smallest
    <2>2. ASSUME NEW t \in SUBSET (1..n)
          PROVE  f[t] = IF t = {} THEN start
                        ELSE LoadNext(files, viewport, capacity, f[t \ {Max(t)}], entries[Max(t)])
      BY <1>1 DEF IsLoad
    <2>5. k \in 0..n /\ ~Good(k)
      BY <2>1
    <2>6. ASSUME NEW j \in 0..n, ~(k <= j) PROVE Good(j)
      BY <2>1, <2>6
    <2>3. CASE k = 0
      <3>1. 1..k = {} /\ {} \in SUBSET (1..n)  BY <2>3
      <3>2. f[1..k] = start  BY <2>2, <3>1
      <3>3. PiecesOf(tiles, viewport, k) = {}
        BY <3>1 DEF PiecesOf, Asked
      <3>4. Good(k)
        BY <1>2, <3>2, <3>3, OrderEmpty
      <3> QED  BY <2>1, <3>4
    <2>4. CASE k > 0
      <3>1. /\ k - 1 \in 0..n /\ ~(k <= k - 1) /\ k \in 1..n
            /\ k \in Nat /\ k \in Nat \ {0}
        <4> HIDE DEF Good, Bad, n
        <4> QED  BY <1>0, <2>4, <2>5 DEF n
      <3>2. Good(k - 1)
        <4> HIDE DEF Good, Bad
        <4> QED  BY <2>6, <3>1
      <3>3. 1..k \in SUBSET (1..n) /\ 1..k # {} /\ (1..k) \ {k} = 1..(k - 1) /\ k \in 1..k
        BY <1>0, <3>1
      <3>4. Max(1..k) = k
        BY <3>1, <3>3, MaxIs
      <3>5. f[1..k] = LoadNext(files, viewport, capacity, f[1..(k - 1)], entries[k])
        BY <2>2, <3>3, <3>4
      <3>6. k \in DOMAIN entries /\ entries[k].bbox = tiles[k].bbox
        BY <1>0, <3>1 DEF ReadAs
      <3>7. ~Good(k)
        BY <2>5
      <3> DEFINE at == f[1..(k - 1)]
                 next == LoadTile(files, capacity, at, entries[k])
                 before == PiecesOf(tiles, viewport, k - 1)
      <3>8. GoodLoad(at, most, files, entries, TRUE) /\ at.ok /\ Orders(at.tiles, before)
        BY <3>2
      <3> HIDE DEF at, Good, Bad
      <3>9. CASE Meets(Ordered(tiles[k].bbox), viewport)
        <4>1. GoodLoad(next, most, files, entries, TRUE)
          BY <3>6, <3>8, LoadTileKeeps
        <4>2. next.ok /\ next.tiles = Append(at.tiles, Piece(tiles[k]))
          <5>1. k \in DOMAIN entries /\ SteadyLoad(at, most, files, entries) /\ at.ok
            BY <3>6, <3>8 DEF SteadyLoad
          <5> HIDE DEF n, before
          <5>2. /\ LoadTile(files, capacity, at, entries[k]).ok
                /\ LoadTile(files, capacity, at, entries[k]).tiles = AndThen(at.tiles, tiles[k])
            BY <5>1, LoadTileDelivers
          <5> QED  BY <5>2 DEF AndThen
        <4>3. /\ PiecesOf(tiles, viewport, k) = before \cup {Piece(tiles[k])}
              /\ Piece(tiles[k]) \notin before
          BY <3>1, <3>6, <3>9, PiecesGrow
        <4> HIDE DEF before, next
        <4>4. Orders(Append(at.tiles, Piece(tiles[k])), before \cup {Piece(tiles[k])})
          BY <3>8, <4>3, OrderGrows
        <4>5. f[1..k] = next
          BY <3>5, <3>6, <3>9 DEF LoadNext, at, next
        <4> QED  BY <3>7, <4>1, <4>2, <4>3, <4>4, <4>5 DEF Good
      <3>10. CASE ~Meets(Ordered(tiles[k].bbox), viewport)
        <4>1. PiecesOf(tiles, viewport, k) = before
          BY <3>1, <3>6, <3>10, PiecesGrow
        <4> HIDE DEF before
        <4>2. f[1..k] = at
          BY <3>5, <3>6, <3>10 DEF LoadNext, at
        <4> QED  BY <3>7, <3>8, <4>1, <4>2 DEF Good
      <3> QED  BY <3>9, <3>10
    <2> HIDE DEF Good, Bad
    <2> QED  BY <1>0, <2>3, <2>4, <2>5
  <1>4. Good(n)
    <2>1. n \in 0..n  BY <1>0
    <2> HIDE DEF Good, n
    <2> QED  BY <1>3, <2>1
  <1> QED  BY <1>0, <1>1, <1>4

\* Boxes that hold one unit square meet.
LEMMA HeldMeets ==
    ASSUME NEW a, IsBox(a), NEW b, IsBox(b), NEW x \in Int, NEW y \in Int, Holds(a, x, y), Holds(b, x, y)
    PROVE  Meets(Ordered(a), b)
  <1>1. /\ Least(a[1], a[3]) <= x /\ Least(a[2], a[4]) <= y
        /\ x < Most(a[1], a[3]) /\ y < Most(a[2], a[4])
        /\ Least(a[1], a[3]) \in Int /\ Least(a[2], a[4]) \in Int
        /\ Most(a[1], a[3]) \in Int /\ Most(a[2], a[4]) \in Int
    BY DEF IsBox, Holds, Least, Most
  <1>2. /\ Ordered(a)[1] = Least(a[1], a[3]) /\ Ordered(a)[2] = Least(a[2], a[4])
        /\ Ordered(a)[3] = Most(a[1], a[3]) /\ Ordered(a)[4] = Most(a[2], a[4])
    BY DEF Ordered
  <1>3. /\ b[1] \in Int /\ b[2] \in Int /\ b[3] \in Int /\ b[4] \in Int
        /\ b[1] <= x /\ x < b[3] /\ b[2] <= y /\ y < b[4]
    BY DEF IsBox, Holds
  <1> QED  BY <1>1, <1>2, <1>3 DEF Meets

\* All the tiles of a tileset that meet a viewport, each once.
RightTiles(got, world, rects, viewport) ==
    LET tiles == DetailTiles(world, rects)
    IN  Orders(got, PiecesOf(tiles, viewport, Len(tiles)))

RectsOf(got) == [i \in DOMAIN got |-> got[i].rects]

\* The tiles that meet a viewport show in its squares what the tileset shows there.
LEMMA LoadShows ==
    ASSUME NEW world, NEW rects, NEW x \in Int, NEW y \in Int, NEW key, NEW n,
           Covers(DetailSet(world, rects), key, x, y, n),
           NEW viewport, IsBox(viewport), Holds(viewport, x, y), NEW got,
           RightTiles(got, world, rects, viewport)
    PROVE  /\ FlattenSeq(RectsOf(got)) \in Seq(Records)
           /\ Count(FlattenSeq(RectsOf(got)), At(key, x, y)) = n
  <1> DEFINE T == DetailSet(world, rects)
             tiles == DetailTiles(world, rects)
             pieces == PiecesOf(tiles, viewport, Len(tiles))
             parts == RectsOf(got)
             m == Len(got)
             R == At(key, x, y)
  <1>1. /\ Len(tiles) \in Nat /\ DOMAIN tiles = 1..Len(tiles)
        /\ \A i \in DOMAIN tiles : tiles[i] \in T
        /\ \A t \in T : \E i \in DOMAIN tiles : tiles[i] = t
    BY DetailTilesAre
  <1>2. got \in Seq(pieces) /\ IsInjective(got) /\ Range(got) = pieces
    BY DEF RightTiles, Orders
  <1> HIDE DEF T, tiles
  <1>3. ASSUME NEW p \in pieces
        PROVE  \E t \in T : p = Piece(t) /\ p.bbox = t.bbox /\ p.rects = t.rects
    <2>1. PICK i \in 1..Len(tiles) : p = Piece(tiles[i])
      BY DEF PiecesOf, Asked
    <2>2. tiles[i] \in T /\ p.bbox = tiles[i].bbox /\ p.rects = tiles[i].rects
      BY <1>1, <2>1 DEF Piece
    <2> QED  BY <2>1, <2>2
  <1>4. m \in Nat /\ DOMAIN got = 1..m /\ \A i \in 1..m : got[i] \in pieces
    BY <1>2, LenProperties, ElementOfSeq
  <1>5. \A i, k \in 1..m : got[i] = got[k] => i = k
    BY <1>2, <1>4 DEF IsInjective
  <1> HIDE DEF pieces
  <1>6. ASSUME NEW i \in 1..m
        PROVE  /\ parts[i] = got[i].rects /\ parts[i] \in Seq(Records)
               /\ Count(parts[i], R) = IF Holds(got[i].bbox, x, y) THEN n ELSE 0
               /\ Where(parts[i], R) # {} => Holds(got[i].bbox, x, y)
    <2>1. PICK t \in T : got[i].bbox = t.bbox /\ got[i].rects = t.rects
      BY <1>3, <1>4
    <2>2. IsTyped(t) /\ Shown(t, key, x, y) = IF Holds(t.bbox, x, y) THEN n ELSE 0
      BY DEF Covers, T
    <2>3. parts[i] = got[i].rects
      BY <1>4 DEF RectsOf
    <2> HIDE DEF parts
    <2>4. parts[i] \in Seq(Records) /\ Count(parts[i], R) = IF Holds(got[i].bbox, x, y) THEN n ELSE 0
      BY <2>1, <2>2, <2>3 DEF IsTyped, Shown
    <2>5. ASSUME Where(parts[i], R) # {}, Count(parts[i], R) = 0 PROVE FALSE
      <3>1. IsFiniteSet(Where(parts[i], R))
        BY <2>4, WhereIs
      <3>2. Cardinality(Where(parts[i], R)) = 0
        BY <2>5 DEF Count
      <3> QED  BY <2>5, <3>1, <3>2, FS_EmptySet
    <2> QED  BY <2>3, <2>4, <2>5
  <1>7. AreParts(parts, m, Records)
    <2>1. parts = [i \in 1..m |-> parts[i]]
      BY <1>4 DEF RectsOf
    <2> HIDE DEF parts, m
    <2> QED  BY <1>6, <2>1 DEF AreParts
  <1>8. ASSUME NEW i \in 1..m, NEW k \in 1..m, Holds(got[i].bbox, x, y), Holds(got[k].bbox, x, y)
        PROVE  i = k
    <2>1. PICK s \in T : got[i] = Piece(s) /\ got[i].bbox = s.bbox
      BY <1>3, <1>4
    <2>2. PICK t \in T : got[k] = Piece(t) /\ got[k].bbox = t.bbox
      BY <1>3, <1>4
    <2>3. s = t
      BY <1>8, <2>1, <2>2 DEF Covers, T
    <2> QED  BY <1>5, <2>1, <2>2, <2>3
  <1> HIDE DEF parts, m, R
  <1>9. parts \in Seq(Seq(Records)) /\ Len(parts) = m /\ FlattenSeq(parts) \in Seq(Records)
    BY <1>4, <1>7, PartsTyped
  <1>10. CASE \E k \in 1..m : Holds(got[k].bbox, x, y)
    <2>1. PICK k \in 1..m : Holds(got[k].bbox, x, y)
      BY <1>10
    <2>2. OnlyIn(parts, R, {k})
      BY <1>6, <1>8, <1>9, <2>1 DEF OnlyIn
    <2>3. Count(FlattenSeq(parts), R) = Count(parts[k], R)
      BY <1>9, <2>2, CountOnly
    <2> QED  BY <1>6, <1>9, <2>1, <2>3 DEF parts, R
  <1>11. CASE ~ \E k \in 1..m : Holds(got[k].bbox, x, y)
    <2>1. OnlyIn(parts, R, {})
      BY <1>6, <1>9, <1>11 DEF OnlyIn
    <2>2. Count(FlattenSeq(parts), R) = 0
      BY <1>9, <2>1, CountNone
    <2>3. ASSUME n # 0 PROVE FALSE
      <3>1. PICK t \in T : Holds(t.bbox, x, y)
        BY <2>3 DEF Covers, T
      <3>2. IsBox(t.bbox)
        BY DEF Covers, T, IsTyped
      <3>3. PICK i \in 1..Len(tiles) : tiles[i] = t
        BY <1>1
      <3>4. Meets(Ordered(t.bbox), viewport)
        BY <3>1, <3>2, HeldMeets
      <3>5. Piece(t) \in pieces
        BY <3>3, <3>4 DEF pieces, PiecesOf, Asked
      <3>6. PICK k \in 1..m : got[k] = Piece(t)
        BY <1>2, <1>4, <3>5 DEF Range
      <3>7. got[k].bbox = t.bbox
        BY <3>6 DEF Piece
      <3> QED  BY <1>11, <3>1, <3>7
    <2> QED  BY <1>9, <2>2, <2>3 DEF parts, R
  <1> QED  BY <1>10, <1>11

-----------------------------------------------------------------------------
(***************************************************************************)
(* What the open viewer was last answered: a load of the tiles of the      *)
(* export whose files it opened.                                           *)
(***************************************************************************)

\* The package of an export reads as its tiles.
LEMMA ShownTiles ==
    ASSUME NEW v \in Exports, Shows(v)
    PROVE  /\ "index" \in DOMAIN disk
           /\ ReadAs(disk, disk["index"].tiles, DetailTiles(World[v], Rects[v]))
  <1> DEFINE world == WorldBox(Sources[v])
             rects == Dataset(Sources[v])
             tiles == DetailTiles(world, rects)
             large == LargeObjects(world, rects)
             files == FilesOf(Sources[v], world, rects, tiles, large)
             entries == files["index"].tiles
  <1>1. World[v] = world /\ Rects[v] = rects /\ Packed[v][v] = files
    BY Zenon DEF World, Rects, Packed, PackageFiles
  <1>2. /\ Len(tiles) \in Nat /\ DOMAIN tiles = 1..Len(tiles)
        /\ \A j, k \in DOMAIN tiles : tiles[j].id = tiles[k].id => j = k
    BY TileIdsDiffer
  <1>3. \A k \in DOMAIN tiles : tiles[k].rects \in Seq(Records)
    BY SourceAssumption, DetailTilesTyped, RecordIsBox
  <1>4. Len(entries) = Len(tiles) /\ DOMAIN entries = 1..Len(tiles) /\ "index" \in DOMAIN files
    BY <1>1, IndexIs
  <1>5. "index" \in DOMAIN disk /\ disk["index"] = files["index"]
    BY <1>1, <1>4 DEF Shows, HoldsOnly
  <1> HIDE DEF tiles, world, rects, large, entries
  <1>6. ASSUME NEW k \in DOMAIN tiles
        PROVE  /\ entries[k].id = tiles[k].id /\ entries[k].bbox = tiles[k].bbox
               /\ ReadTile(disk, entries[k]) = [ok |-> TRUE, rects |-> tiles[k].rects]
    <2>1. /\ {"shard", "index"} \subseteq DOMAIN files
          /\ files["index"].tiles[k].id = tiles[k].id
          /\ files["index"].tiles[k].bbox = tiles[k].bbox
      BY ShardIs
    <2> HIDE DEF files
    <2>2. HasFile(disk, "shard") /\ disk.shard = files["shard"]
      BY <1>1, <2>1 DEF Shows, HoldsOnly, HasFile
    <2>3. ReadTile(disk, files["index"].tiles[k]) = [ok |-> TRUE, rects |-> tiles[k].rects]
      BY <1>2, <1>3, <2>2, ShardHoldsTiles DEF files
    <2> QED  BY <2>1, <2>3 DEF entries
  <1> HIDE DEF files
  <1>7. ReadAs(disk, entries, tiles)
    BY <1>2, <1>4, <1>6 DEF ReadAs
  <1> QED  BY <1>1, <1>5, <1>7 DEF entries, tiles

\* The large objects of an export, and the file of them that is there if there are any.
LEMMA ShownLarge ==
    ASSUME NEW v \in Exports, Shows(v)
    PROVE  LET large == LargeObjects(World[v], Rects[v])
           IN  /\ disk["index"].hasLarge = (large # <<>>)
               /\ HasFile(disk, "large") <=> large # <<>>
               /\ HasFile(disk, "large") => DecodeTile(disk["large"]) = [ok |-> TRUE, rects |-> large]
  <1> DEFINE world == WorldBox(Sources[v])
             rects == Dataset(Sources[v])
             tiles == DetailTiles(world, rects)
             large == LargeObjects(world, rects)
             files == FilesOf(Sources[v], world, rects, tiles, large)
  <1>1. World[v] = world /\ Rects[v] = rects /\ Packed[v][v] = files
    BY Zenon DEF World, Rects, Packed, PackageFiles
  <1>2. large \in Seq(Records)
    BY SourceAssumption, DrawnIsBoth
  <1>3. "index" \in DOMAIN files
    BY <1>1, IndexIs
  <1> HIDE DEF tiles, world, rects, large
  <1>4. /\ files["index"].hasLarge = (large # <<>>)
        /\ "large" \in DOMAIN files <=> large # <<>>
        /\ large # <<>> => files["large"] = EncodeTile(large)
    BY DEF FilesOf, PackageNames
  <1> HIDE DEF files
  <1>5. /\ disk["index"] = files["index"]
        /\ "large" \in DOMAIN disk <=> "large" \in DOMAIN files
        /\ "large" \in DOMAIN files => disk["large"] = files["large"]
    BY <1>1, <1>3 DEF Shows, HoldsOnly
  <1>6. DecodeTile(EncodeTile(large)) = [ok |-> TRUE, rects |-> large]
    BY <1>2, TileRoundTrip
  <1> QED  BY <1>1, <1>4, <1>5, <1>6 DEF HasFile, large

\* What a load returns of an export.
Answers(a, v) ==
    /\ a.ok
    /\ RightTiles(a.tiles, World[v], Rects[v], a.viewport)
    /\ a.large = LargeObjects(World[v], Rects[v])

\* Until the files change under the viewer, what it has read of the large objects is what is
\* there, and the last load returned what the package it shows has in the viewport.
LargeRead == reader.large.ok => HasFile(disk, "large") /\ reader.large = DecodeTile(disk["large"])
LastLoad ==
    answer.op = "load" =>
        /\ answer.viewport \in Viewports
        /\ \A v \in Exports : Shows(v) /\ reader.index = disk["index"] => Answers(answer, v)
Loaded == ~rewritten /\ reader # Closed => LargeRead /\ LastLoad

LoadInv == CacheInv /\ Loaded

LEMMA LoadReturns ==
    ASSUME LoadInv, ~rewritten, reader # Closed, NEW v \in Exports, Shows(v),
           reader.index = disk["index"], NEW viewport, NEW capacity \in Capacities,
           NEW read, read = LoadViewport(disk, reader, viewport, capacity)
    PROVE  /\ read.ok
           /\ RightTiles(read.tiles, World[v], Rects[v], viewport)
           /\ read.large = LargeObjects(World[v], Rects[v])
  <1> DEFINE entries == disk["index"].tiles
             tiles == DetailTiles(World[v], Rects[v])
             most == Max(Capacities)
             got == LoadTiles(disk, entries, reader.cache, viewport, capacity)
             large == LargeObjects(World[v], Rects[v])
             read0 == IF got.ok THEN LoadLarge(disk, reader) ELSE reader.large
  <1>1. ReadAs(disk, entries, tiles)
    BY ShownTiles
  <1>2. most \in Nat /\ capacity \in 0..most
    BY MostCapacity
  <1>3. /\ reader.cache = [entries |-> reader.cache.entries, order |-> reader.cache.order]
        /\ OrderlyCache(reader.cache, most) /\ CoherentCache(reader.cache, disk, entries)
    BY DEF LoadInv, CacheInv, Opened
  <1> HIDE DEF entries, tiles, most
  <1>4. got.ok /\ Orders(got.tiles, PiecesOf(tiles, viewport, Len(tiles)))
    BY <1>1, <1>2, <1>3, LoadTilesDeliver
  <1>5. /\ reader.index.hasLarge = (large # <<>>)
        /\ HasFile(disk, "large") <=> large # <<>>
        /\ HasFile(disk, "large") => DecodeTile(disk["large"]) = [ok |-> TRUE, rects |-> large]
    BY ShownLarge
  <1>6. LargeRead
    BY DEF LoadInv, Loaded
  <1> HIDE DEF got, large
  <1>7. LoadLarge(disk, reader).ok /\ LoadLarge(disk, reader).rects = large
    <2>1. CASE reader.large.ok
      BY <1>5, <1>6, <2>1 DEF LargeRead, LoadLarge
    <2>2. CASE ~reader.large.ok /\ large = <<>>
      <3>1. LoadLarge(disk, reader) = [ok |-> TRUE, rects |-> <<>>]
        BY <1>5, <2>2 DEF LoadLarge
      <3> QED  BY <2>2, <3>1
    <2>3. CASE ~reader.large.ok /\ large # <<>>
      <3>1. LoadLarge(disk, reader) = DecodeTile(disk["large"])
        BY <1>5, <2>3 DEF LoadLarge
      <3> QED  BY <1>5, <2>3, <3>1
    <2> QED  BY <2>1, <2>2, <2>3
  <1>8. read.ok /\ read.tiles = got.tiles /\ read.large = large
    BY <1>4, <1>7 DEF LoadViewport, got, entries
  <1> QED  BY <1>4, <1>8 DEF RightTiles, tiles, large

\* Reading for a viewport keeps what it has read of the large objects.
LEMMA LargeKept ==
    ASSUME LoadInv, ~rewritten, reader # Closed, NEW viewport, NEW capacity,
           UNCHANGED <<disk, rewritten>>,
           reader' = LoadViewport(disk, reader, viewport, capacity).pkg
    PROVE  LargeRead' /\ reader'.index = reader.index
  <1> DEFINE got == LoadTiles(disk, reader.index.tiles, reader.cache, viewport, capacity)
             large == IF got.ok THEN LoadLarge(disk, reader) ELSE reader.large
  <1>1. DOMAIN reader = {"index", "cache", "large", "pyramid", "world"} /\ LargeRead
    BY DEF LoadInv, CacheInv, Opened, Loaded
  <1>2. reader' = [reader EXCEPT !.cache = got.cache,
                                 !.large = IF reader.index.hasLarge THEN large ELSE @]
    BY DEF LoadViewport
  <1>3. ASSUME reader.index.hasLarge, large.ok
        PROVE  HasFile(disk, "large") /\ large = DecodeTile(disk["large"])
    <2>1. CASE large = reader.large
      BY <1>1, <1>3, <2>1 DEF LargeRead
    <2>2. CASE large # reader.large
      BY <1>1, <1>3, <2>2 DEF LargeRead, LoadLarge, Unreadable
    <2> QED  BY <2>1, <2>2
  <1> HIDE DEF got, large
  <1>4. /\ reader'.large = (IF reader.index.hasLarge THEN large ELSE reader.large)
        /\ reader'.index = reader.index
    BY <1>1, <1>2
  <1> QED  BY <1>1, <1>3, <1>4 DEF LargeRead, HasFile

LEMMA LoadKeeps ==
    ASSUME LoadInv, NEW viewport \in Viewports, NEW capacity \in Capacities, Load(viewport, capacity)
    PROVE  Loaded'
  <1> SUFFICES ASSUME ~rewritten PROVE LargeRead' /\ LastLoad'
    BY DEF Load, Loaded
  <1> DEFINE read == LoadViewport(disk, reader, viewport, capacity)
  <1>1. /\ reader # Closed /\ reader' = read.pkg /\ UNCHANGED <<disk, rewritten>>
        /\ answer' = [op |-> "load", viewport |-> viewport, ok |-> read.ok,
                      tiles |-> read.tiles, large |-> read.large]
    BY DEF Load
  <1>2. LargeRead' /\ reader'.index = reader.index
    BY <1>1, LargeKept
  <1>3. ASSUME NEW v \in Exports, Shows(v)', reader'.index = disk'["index"]
        PROVE  Answers(answer', v)
    <2>1. Shows(v) /\ reader.index = disk["index"]
      BY <1>1, <1>2, <1>3 DEF Shows, HoldsOnly
    <2>2. /\ read.ok
          /\ RightTiles(read.tiles, World[v], Rects[v], viewport)
          /\ read.large = LargeObjects(World[v], Rects[v])
      BY <1>1, <2>1, LoadReturns
    <2> HIDE DEF read
    <2>3. /\ answer'.ok = read.ok /\ answer'.tiles = read.tiles /\ answer'.large = read.large
          /\ answer'.viewport = viewport
      BY <1>1
    <2> QED  BY <2>2, <2>3 DEF Answers
  <1>4. answer'.viewport \in Viewports
    BY <1>1
  <1> QED  BY <1>2, <1>3, <1>4 DEF LastLoad, Answers

LEMMA LoadInvHolds == LoadInv /\ [Next]_vars => LoadInv'
  <1> SUFFICES ASSUME LoadInv, [Next]_vars PROVE Loaded'
    BY CacheInvHolds DEF LoadInv
  <1>0. Loaded /\ CacheInv
    BY DEF LoadInv
  <1>1. CASE Export \/ (\E rebuild \in BOOLEAN : Launch(rebuild)) \/ ReadHierarchy \/ ReadGeometry
             \/ Crash \/ UNCHANGED vars
    <2>1. UNCHANGED <<disk, reader, answer, rewritten>>
      BY <1>1 DEF Export, Launch, ReadHierarchy, ReadGeometry, Crash, vars
    <2> QED  BY <1>0, <2>1 DEF Loaded, LargeRead, LastLoad, Shows, HoldsOnly, HasFile
  <1>2. CASE ClearDirectories \/ WriteDetail \/ WriteIndex \/ WriteOverview \/ WriteRest \/ WriteManifest
    <2>1. reader' = reader /\ rewritten' = (reader # Closed)
      BY <1>2 DEF ClearDirectories, WriteDetail, WriteIndex, WriteOverview, WriteRest, WriteManifest,
         WriteFiles, FilesChange
    <2> QED  BY <2>1 DEF Loaded
  <1>3. CASE Open
    <2>1. answer' = Nothing /\ (reader' # Closed => reader'.large = Unreadable)
      BY <1>3 DEF Open
    <2> QED  BY <2>1 DEF Loaded, LargeRead, LastLoad, Nothing, Unreadable
  <1>4. ASSUME NEW v \in Viewports, NEW c \in Capacities, Load(v, c) PROVE Loaded'
    BY <1>4, LoadKeeps
  <1>5. ASSUME NEW p \in Points, NEW c \in Capacities, Query(p, c) PROVE Loaded'
    <2>1. answer'.op = "query"  BY <1>5 DEF Query
    <2>2. /\ reader # Closed /\ UNCHANGED <<disk, rewritten>>
          /\ reader' = LoadViewport(disk, reader, QueryBox(p[1], p[2], p[3]), c).pkg
      BY <1>5 DEF Query
    <2>3. ~rewritten => LargeRead'
      BY <2>2, LargeKept
    <2> QED  BY <2>1, <2>2, <2>3 DEF Loaded, LastLoad
  <1>6. ASSUME NEW z \in Zooms, Overview(z) PROVE Loaded'
    <2>1. /\ answer'.op = "overview" /\ reader # Closed /\ UNCHANGED <<disk, rewritten>>
          /\ reader'.large = reader.large
      BY <1>0, <1>6 DEF Overview, CacheInv, Opened
    <2> QED  BY <1>0, <2>1 DEF Loaded, LargeRead, LastLoad, HasFile
  <1> QED
    BY <1>1, <1>2, <1>3, <1>4, <1>5, <1>6 DEF Next

-----------------------------------------------------------------------------
(***************************************************************************)
(* What the viewer shows is what the source draws.                         *)
(***************************************************************************)

\* What a viewport load shows in a square of the world and of the viewport, and what the source
\* draws there.
LEMMA SquareShown ==
    ASSUME LoadInv, ~rewritten, NEW v \in Exports, Steady(v), answer.op = "load",
           NEW x \in Int, NEW y \in Int, Holds(answer.viewport, x, y), NEW key
    PROVE  LET got == FlattenSeq(RectsOf(answer.tiles)) \o answer.large
           IN  /\ answer.ok
               /\ CountAt(got, key, x, y) \in Nat /\ CountAt(Visible[v], key, x, y) \in Nat
               /\ CountAt(got, key, x, y) <= CountAt(Visible[v], key, x, y)
               /\ Settled(World[v], x, y) =>
                    CountAt(got, key, x, y) = CountAt(Visible[v], key, x, y)
  <1> DEFINE world == World[v]
             rects == Rects[v]
             R == At(key, x, y)
             all == Cardinality(Small(world, rects, R))
             large == LargeObjects(world, rects)
             tiled == FlattenSeq(RectsOf(answer.tiles))
             got == tiled \o answer.large
  <1>1. IsBox(world) /\ rects \in Seq(Records)
    BY SourceAssumption, RecordIsBox DEF World, Rects
  <1>2. /\ answer.viewport \in Viewports /\ answer.ok
        /\ RightTiles(answer.tiles, world, rects, answer.viewport) /\ answer.large = large
    BY DEF LoadInv, Loaded, LastLoad, Steady, Answers
  <1>3. IsBox(answer.viewport)
    BY <1>2, ViewportAssumption, RecordIsBox
  <1>4. Visible[v] = Drawn(rects)
    BY DEF Visible
  <1> HIDE DEF world, rects
  <1>5. PICK n : TruthfulCount(n, world, rects, x, y, key) /\ Covers(DetailSet(world, rects), key, x, y, n)
    BY <1>1, DetailCovers
  <1>6. tiled \in Seq(Records) /\ Count(tiled, R) = n
    BY <1>2, <1>3, <1>5, LoadShows
  <1>7. /\ large \in Seq(Records) /\ Drawn(rects) \in Seq(Records)
        /\ Count(Drawn(rects), R) = all + Count(large, R)
    BY <1>1, DrawnIsBoth
  <1> HIDE DEF tiled, large
  <1>8. got \in Seq(Records) /\ Count(got, R) = n + Count(large, R)
    <2>1. Count(tiled \o large, R) = Count(tiled, R) + Count(large, R)
      BY <1>6, <1>7, CountBoth
    <2>2. tiled \o large \in Seq(Records)
      BY <1>6, <1>7, ConcatProperties
    <2> QED  BY <1>2, <1>6, <2>1, <2>2
  <1>9. n \in Nat /\ n <= all /\ (Settled(world, x, y) => n = all)
    BY <1>5 DEF TruthfulCount
  <1>10. Count(large, R) \in Nat /\ Count(got, R) \in Nat /\ Count(Drawn(rects), R) \in Nat
    BY <1>7, <1>8, WhereIs
  <1> HIDE DEF got, all
  <1>11. ASSUME NEW s \in Seq(Records) PROVE CountAt(s, key, x, y) = Count(s, R)
    <2>1. \A i \in DOMAIN s : s[i] \in R <=> Same(s[i], key) /\ Holds(s[i].box, x, y)
      BY LenProperties, ElementOfSeq DEF At
    <2>2. Where(s, R) = {i \in DOMAIN s : Same(s[i], key) /\ Holds(s[i].box, x, y)}
      BY <2>1 DEF Where
    <2> QED  BY <2>2 DEF CountAt, Count
  <1>12. CountAt(got, key, x, y) = Count(got, R) /\ CountAt(Visible[v], key, x, y) = Count(Drawn(rects), R)
    BY <1>4, <1>7, <1>8, <1>11
  <1>13. Settled(world, x, y) => Count(got, R) = Count(Drawn(rects), R)
    BY <1>7, <1>8, <1>9
  <1>14. Count(got, R) <= Count(Drawn(rects), R)
    <2>1. all \in Nat
      BY <1>1, DrawnIsBoth DEF all
    <2> HIDE DEF R
    <2> QED  BY <1>7, <1>8, <1>9, <1>10, <2>1
  <1> QED  BY <1>2, <1>10, <1>12, <1>13, <1>14 DEF got, tiled, world

\* The squares that the two properties speak of.
LEMMA SquareIs ==
    ASSUME NEW a, IsBox(a), NEW b, IsBox(b),
           NEW x \in Common(a, b)[1]..(Common(a, b)[3] - 1), NEW y \in Common(a, b)[2]..(Common(a, b)[4] - 1)
    PROVE  x \in Int /\ y \in Int /\ Holds(a, x, y) /\ Holds(b, x, y)
  <1> DEFINE c == Common(a, b)
  <1>1. IsBox(c)
    BY CommonIs
  <1>2. x \in c[1]..(c[3] - 1) /\ y \in c[2]..(c[4] - 1)
    OBVIOUS
  <1> HIDE DEF c
  <1>3. x \in Int /\ y \in Int /\ Holds(c, x, y)
    BY <1>1, <1>2 DEF IsBox, Holds
  <1> QED  BY <1>3, CommonHolds DEF c

LEMMA InitLoadInv == Init => LoadInv
  <1> SUFFICES ASSUME Init PROVE LoadInv  OBVIOUS
  <1>1. CacheInv
    BY InitInv DEF Init, CacheInv, IndexKnown, Opened, HasFile
  <1>2. Loaded
    BY DEF Init, Loaded
  <1> QED  BY <1>1, <1>2 DEF LoadInv

\* Whatever the grid, the splitting, the threshold of large objects and the cache: unless the files
\* changed under the open viewer, no viewport load shows an object where the source has none or
\* twice where it has one, and what is missing is missing where the rounded edge of a tile and the
\* tile that a coordinate is put into differ.
THEOREM ViewportAlwaysTruthful == Spec => [](~rewritten => ViewportTruthful)
  <1>1. ASSUME LoadInv, ~rewritten PROVE ViewportTruthful
    <2> SUFFICES ASSUME NEW v \in Exports, Steady(v), answer.op = "load"
                 PROVE  LET got == FlattenSeq([i \in DOMAIN answer.tiles |-> answer.tiles[i].rects])
                                   \o answer.large
                            area == Common(answer.viewport, World[v])
                        IN  /\ answer.ok
                            /\ \A x \in area[1]..(area[3] - 1), y \in area[2]..(area[4] - 1) :
                                 \A k \in Range(Visible[v]) \cup Range(got) :
                                    /\ CountAt(got, k, x, y) <= CountAt(Visible[v], k, x, y)
                                    /\ Settled(World[v], x, y) =>
                                         CountAt(got, k, x, y) = CountAt(Visible[v], k, x, y)
      BY Zenon DEF ViewportTruthful
    <2> DEFINE got == FlattenSeq(RectsOf(answer.tiles)) \o answer.large
               area == Common(answer.viewport, World[v])
    <2>1. answer.viewport \in Viewports /\ answer.ok
      BY <1>1 DEF LoadInv, Loaded, LastLoad, Steady, Answers
    <2>2. IsBox(answer.viewport) /\ IsBox(World[v])
      BY <2>1, ViewportAssumption, SourceAssumption, RecordIsBox DEF World
    <2>3. ASSUME NEW x \in area[1]..(area[3] - 1), NEW y \in area[2]..(area[4] - 1), NEW k
          PROVE  /\ CountAt(got, k, x, y) <= CountAt(Visible[v], k, x, y)
                 /\ Settled(World[v], x, y) => CountAt(got, k, x, y) = CountAt(Visible[v], k, x, y)
      <3>1. x \in Int /\ y \in Int /\ Holds(answer.viewport, x, y)
        BY <2>2, SquareIs
      <3> QED  BY <1>1, <3>1, SquareShown
    <2> QED  BY <2>1, <2>3, Zenon DEF RectsOf
  <1> QED  BY <1>1, InitLoadInv, LoadInvHolds, PTL DEF Spec

-----------------------------------------------------------------------------
(***************************************************************************)
(* A grid that divides the world.                                          *)
(***************************************************************************)

LEMMA RoundExact ==
    ASSUME NEW d \in Nat \ {0}, NEW k \in Int, NEW n \in Int, n = d * k
    PROVE  RoundDiv(n, d) = k
  <1> DEFINE u == 2 * d
  <1>1. u \in Nat \ {0} /\ d \in 0..(u - 1)
    OBVIOUS
  <1>2. 2 * n + d = u * k + d /\ d - 2 * n = u * (-k) + d
    OBVIOUS
  <1>3. 2 * n + d \in Int /\ d - 2 * n \in Int /\ -k \in Int
    OBVIOUS
  <1> HIDE DEF u
  <1>4. (2 * n + d) \div u = k
    BY <1>1, <1>2, <1>3, DivUnique
  <1>5. (d - 2 * n) \div u = -k
    BY <1>1, <1>2, <1>3, DivUnique
  <1> QED  BY <1>4, <1>5 DEF RoundDiv, u

Divides(cells, s, size) == s \in Int /\ size = cells * s

LEMMA ExactEdge ==
    ASSUME NEW origin \in Int, NEW size, NEW cells \in Nat \ {0}, NEW s, Divides(cells, s, size),
           NEW i \in Int
    PROVE  Edge(origin, size, cells, i) = origin + s * i
  <1> DEFINE k == origin + s * i
             n == origin * cells + size * i
  <1>0. s \in Int /\ size = cells * s
    BY DEF Divides
  <1>1. s * i \in Int /\ size \in Int /\ k \in Int /\ n \in Int
    BY <1>0, ProductIsInt
  <1>2. n = cells * k
    <2>1. size * i = cells * (s * i)
      BY <1>0
    <2>2. cells * k = cells * origin + cells * (s * i)
      BY <1>1, Apart
    <2>3. origin * cells = cells * origin
      OBVIOUS
    <2> HIDE DEF k
    <2> QED  BY <2>1, <2>2, <2>3
  <1> HIDE DEF k, n
  <1>3. RoundDiv(n, cells) = k
    BY <1>1, <1>2, RoundExact
  <1> QED  BY <1>3 DEF Edge, k, n

\* In one direction, a coordinate is put between the edges it lies between.
LEMMA ExactPlace ==
    ASSUME NEW origin \in Int, NEW size \in Nat \ {0}, NEW cells \in Nat \ {0},
           size % cells = 0, NEW v \in Int, origin <= v, v < origin + size,
           NEW i, i = PutAt(v, origin, size, cells)
    PROVE  /\ Edge(origin, size, cells, i) <= v
           /\ v < IF i + 1 = cells THEN origin + size ELSE Edge(origin, size, cells, i + 1)
  <1> DEFINE s == size \div cells
             d == v - origin
             q == d \div s
  <1>1. s \in Int /\ size = cells * s
    BY DivIs
  <1>2. s \in Nat \ {0}
    <2>1. ASSUME s <= 0 PROVE FALSE
      <3>1. cells * s <= cells * 0
        BY <1>1, <2>1, MulMono
      <3> HIDE DEF s
      <3> QED  BY <1>1, <3>1
    <2> HIDE DEF s
    <2> QED  BY <1>1, <2>1
  <1>3. d \in Int /\ 0 <= d /\ d < size
    OBVIOUS
  <1> HIDE DEF s, d
  <1>4. q \in Int /\ d % s \in 0..(s - 1) /\ d = s * q + (d % s)
    BY <1>2, <1>3, DivIs
  <1> DEFINE r == d % s
  <1>5. r \in 0..(s - 1) /\ d = s * q + r
    BY <1>4
  <1> HIDE DEF q, r
  <1>6. s * q \in Int /\ s * (q + 1) = s * q + s
    BY <1>2, <1>4, OneMore
  <1>7. (d * cells) \div size = q
    <2>1. cells * r \in 0..(size - 1)
      <3>1. cells * 0 <= cells * r /\ cells * r <= cells * (s - 1)
        BY <1>2, <1>5, MulMono
      <3>2. cells * (s - 1) = size - cells /\ cells * r \in Int /\ cells * 0 = 0
        <4>1. cells * (s - 1) = cells * s + cells * (-1)
          BY <1>2, Apart
        <4>2. cells * r \in Int
          BY <1>5, ProductIsInt
        <4> QED  BY <1>1, <4>1, <4>2
      <3> QED  BY <3>1, <3>2
    <2>2. d * cells = size * q + cells * r
      <3>1. d * cells = cells * (s * q) + cells * r
        <4>1. cells * (s * q + r) = cells * (s * q) + cells * r
          BY <1>5, <1>6, Apart
        <4>2. d * cells = cells * d
          BY <1>3
        <4> QED  BY <1>5, <4>1, <4>2
      <3>2. cells * (s * q) = (cells * s) * q
        BY <1>2, <1>4
      <3> QED  BY <1>1, <3>1, <3>2
    <2>3. d * cells \in Int
      BY <1>3, ProductIsInt
    <2> QED  BY <1>4, <2>1, <2>2, <2>3, DivUnique
  <1>8. q \in 0..(cells - 1)
    <2>1. ASSUME q <= -1 PROVE FALSE
      <3>1. s * q <= s * (-1)
        BY <1>2, <1>4, <2>1, MulMono
      <3>2. s * (-1) = -s
        BY <1>2
      <3> QED  BY <1>2, <1>3, <1>5, <1>6, <3>1, <3>2
    <2>2. ASSUME cells <= q PROVE FALSE
      <3>1. s * cells <= s * q
        BY <1>2, <1>4, <2>2, MulMono
      <3>2. s * cells = cells * s
        BY <1>2
      <3> QED  BY <1>1, <1>2, <1>3, <1>5, <1>6, <3>1, <3>2
    <2> QED  BY <1>4, <2>1, <2>2
  <1>9. i = q
    <2>1. i = Clamp(q, 0, cells - 1)
      BY <1>7 DEF PutAt, d
    <2> QED  BY <1>8, <2>1 DEF Clamp, Most, Least
  <1>14. Divides(cells, s, size)
    BY <1>1 DEF Divides
  <1>10. Edge(origin, size, cells, i) = origin + s * q
    <2>1. i \in Int
      BY <1>8, <1>9
    <2>2. Edge(origin, size, cells, i) = origin + s * i
      BY <1>14, <2>1, ExactEdge
    <2> QED  BY <1>9, <2>2
  <1>11. Edge(origin, size, cells, i + 1) = origin + s * (q + 1)
    <2>1. i + 1 \in Int /\ i + 1 = q + 1
      BY <1>8, <1>9
    <2>2. Edge(origin, size, cells, i + 1) = origin + s * (i + 1)
      BY <1>14, <2>1, ExactEdge
    <2> QED  BY <2>1, <2>2
  <1>12. v = origin + d
    BY <1>3 DEF d
  <1>13. origin + s * q <= v /\ v < origin + (s * q + s) /\ v < origin + size
    BY <1>2, <1>3, <1>5, <1>6, <1>12
  <1> QED  BY <1>6, <1>10, <1>11, <1>13

\* A grid that divides the world into cells of whole units.
GridDivides ==
    \A v \in Exports : /\ Width(World[v]) % GridColumns = 0
                       /\ Height(World[v]) % GridRows = 0

LEMMA ExactGridSettles ==
    ASSUME NEW world, IsBox(world), Width(world) % GridColumns = 0, Height(world) % GridRows = 0,
           NEW x \in Int, NEW y \in Int, Holds(world, x, y)
    PROVE  Settled(world, x, y)
  <1> DEFINE i == TileX(world, x)
             j == TileY(world, y)
  <1>1. /\ GridColumns \in Nat \ {0} /\ GridRows \in Nat \ {0}
        /\ Width(world) \in Nat \ {0} /\ Height(world) \in Nat \ {0}
        /\ world[1] \in Int /\ world[2] \in Int
    BY SizesAre, GridAssumption DEF IsBox
  <1>2. /\ world[1] <= x /\ x < world[3] /\ world[3] = world[1] + Width(world)
        /\ world[2] <= y /\ y < world[4] /\ world[4] = world[2] + Height(world)
    BY DEF IsBox, Holds, Width, Height, Most
  <1>3. i = PutAt(x, world[1], Width(world), GridColumns) /\ j = PutAt(y, world[2], Height(world), GridRows)
    BY Zenon DEF TileX, TileY, PutAt
  <1> HIDE DEF i, j
  <1>4. /\ Edge(world[1], Width(world), GridColumns, i) <= x
        /\ x < IF i + 1 = GridColumns THEN world[1] + Width(world)
               ELSE Edge(world[1], Width(world), GridColumns, i + 1)
    BY <1>1, <1>2, <1>3, ExactPlace
  <1>5. /\ Edge(world[2], Height(world), GridRows, j) <= y
        /\ y < IF j + 1 = GridRows THEN world[2] + Height(world)
               ELSE Edge(world[2], Height(world), GridRows, j + 1)
    BY <1>1, <1>2, <1>3, ExactPlace
  <1>6. Holds(TileBox(world, i, j), x, y)
    BY <1>2, <1>4, <1>5, CellHolds
  <1> QED  BY <1>6 DEF Settled, i, j

\* The tiles and large objects a viewport load returns hold, at every unit square of the viewport,
\* each object of the source exactly as often as the source has it there: nothing is lost where
\* tiles, quadrants and the threshold of large objects meet, and nothing is drawn twice.
ViewportFaithful ==
    \A v \in Exports : Steady(v) /\ answer.op = "load" =>
        LET got == FlattenSeq([i \in DOMAIN answer.tiles |-> answer.tiles[i].rects])
                   \o answer.large
            area == Common(answer.viewport, World[v])
        IN  /\ answer.ok
            /\ \A x \in area[1]..(area[3] - 1), y \in area[2]..(area[4] - 1) :
                 \A k \in Range(Visible[v]) \cup Range(got) :
                    CountAt(got, k, x, y) = CountAt(Visible[v], k, x, y)

\* Where the grid divides the world, each object is shown exactly as often as the source has it.
THEOREM ViewportFaithfulOnExactGrids ==
    ASSUME GridDivides PROVE Spec => [](~rewritten => ViewportFaithful)
  <1>1. ASSUME LoadInv, ~rewritten PROVE ViewportFaithful
    <2> SUFFICES ASSUME NEW v \in Exports, Steady(v), answer.op = "load"
                 PROVE  LET got == FlattenSeq([i \in DOMAIN answer.tiles |-> answer.tiles[i].rects])
                                   \o answer.large
                            area == Common(answer.viewport, World[v])
                        IN  /\ answer.ok
                            /\ \A x \in area[1]..(area[3] - 1), y \in area[2]..(area[4] - 1) :
                                 \A k \in Range(Visible[v]) \cup Range(got) :
                                    CountAt(got, k, x, y) = CountAt(Visible[v], k, x, y)
      BY Zenon DEF ViewportFaithful
    <2> DEFINE got == FlattenSeq(RectsOf(answer.tiles)) \o answer.large
               area == Common(answer.viewport, World[v])
    <2>1. answer.viewport \in Viewports /\ answer.ok
      BY <1>1 DEF LoadInv, Loaded, LastLoad, Steady, Answers
    <2>2. IsBox(answer.viewport) /\ IsBox(World[v])
      BY <2>1, ViewportAssumption, SourceAssumption, RecordIsBox DEF World
    <2>3. ASSUME NEW x \in area[1]..(area[3] - 1), NEW y \in area[2]..(area[4] - 1), NEW k
          PROVE  CountAt(got, k, x, y) = CountAt(Visible[v], k, x, y)
      <3>1. x \in Int /\ y \in Int /\ Holds(answer.viewport, x, y) /\ Holds(World[v], x, y)
        BY <2>2, SquareIs
      <3>2. Settled(World[v], x, y)
        BY <2>2, <3>1, ExactGridSettles DEF GridDivides
      <3> QED  BY <1>1, <3>1, <3>2, SquareShown
    <2> QED  BY <2>1, <2>3, Zenon DEF RectsOf
  <1> QED  BY <1>1, InitLoadInv, LoadInvHolds, PTL DEF Spec

-----------------------------------------------------------------------------
(***************************************************************************)
(* The records of a tile are pieces of the source.                         *)
(***************************************************************************)

\* An element of one of n sequences; an element of a sequence.
InParts(e, parts, n) == \E i \in 1..n : \E k \in DOMAIN parts[i] : e = parts[i][k]
InSeq(e, s) == \E j \in DOMAIN s : s[j] = e

\* What sequences make when they are joined has their elements and no other.
LEMMA FlatElement ==
    ASSUME NEW S, NEW n \in Nat, NEW parts, AreParts(parts, n, S), NEW j \in DOMAIN FlattenSeq(parts)
    PROVE  InParts(FlattenSeq(parts)[j], parts, n)
  <1>1. parts \in Seq(Seq(S)) /\ Len(parts) = n /\ FlattenSeq(parts) \in Seq(S)
    BY PartsTyped
  <1>2. j \in 1..Len(FlattenSeq(parts)) /\ Len(FlattenSeq(parts)) \in Nat
    BY <1>1, LenProperties
  <1>3. PICK i \in 1..Len(parts) : j \in PlaceOf(parts, i)
    BY <1>1, <1>2, PlacesCover
  <1> DEFINE o == Len(Upto(parts, i - 1))
  <1>4. Placed(parts, i, FlattenSeq(parts), o)
    BY <1>1, PartPlaced
  <1> HIDE DEF o
  <1>5. /\ o \in Nat /\ Len(parts[i]) \in Nat /\ DOMAIN parts[i] = 1..Len(parts[i])
        /\ j \in (o + 1)..(o + Len(parts[i]))
        /\ \A x \in 1..Len(parts[i]) : FlattenSeq(parts)[o + x] = parts[i][x]
    BY <1>3, <1>4 DEF Placed
  <1>6. j - o \in 1..Len(parts[i]) /\ o + (j - o) = j
    BY <1>2, <1>5
  <1>7. FlattenSeq(parts)[j] = parts[i][j - o]
    BY <1>5, <1>6
  <1> QED  BY <1>1, <1>5, <1>6, <1>7 DEF InParts

LEMMA FlatHolds ==
    ASSUME NEW S, NEW n \in Nat, NEW parts, AreParts(parts, n, S), NEW i \in 1..n,
           NEW k \in DOMAIN parts[i]
    PROVE  InSeq(parts[i][k], FlattenSeq(parts))
  <1>1. parts \in Seq(Seq(S)) /\ Len(parts) = n /\ FlattenSeq(parts) \in Seq(S)
    BY PartsTyped
  <1> DEFINE o == Len(Upto(parts, i - 1))
             flat == FlattenSeq(parts)
  <1>2. Placed(parts, i, flat, o)
    BY <1>1, PartPlaced
  <1>3. DOMAIN flat = 1..Len(flat)
    BY <1>1, LenProperties
  <1> HIDE DEF o, flat
  <1>4. /\ o \in Nat /\ Len(parts[i]) \in Nat /\ k \in 1..Len(parts[i])
        /\ (o + 1)..(o + Len(parts[i])) \subseteq DOMAIN flat
        /\ flat[o + k] = parts[i][k]
    BY <1>2, <1>3 DEF Placed
  <1>5. o + k \in (o + 1)..(o + Len(parts[i]))
    BY <1>4
  <1> QED  BY <1>4, <1>5 DEF flat, InSeq

IsProper(b) == b[1] < b[3] /\ b[2] < b[4]

\* A piece of a record that lies in a box.
IsPieceOf(p, r, box) ==
    /\ p \in Records /\ IsProper(p.box) /\ Same(p, r)
    /\ Within(p.box, r.box) /\ Within(p.box, box)

\* Cutting a record to a box leaves a piece of it.
LEMMA ClipIs ==
    ASSUME NEW r \in Records, NEW box, IsBox(box), NEW j \in DOMAIN Clip(r, box)
    PROVE  IsPieceOf(Clip(r, box)[j], r, box)
  <1> DEFINE common == Common(r.box, box)
             piece == [r EXCEPT !.box = common]
  <1>1. r.box \in RecordBoxes /\ IsBox(r.box)
    BY RecordIsBox DEF Records
  <1>2. common \in RecordBoxes /\ Within(common, r.box) /\ Within(common, box)
    <2>1. /\ common[1] = Most(r.box[1], box[1]) /\ common[2] = Most(r.box[2], box[2])
          /\ common[3] = Least(r.box[3], box[3]) /\ common[4] = Least(r.box[4], box[4])
      BY DEF Common
    <2>2. common \in RecordBoxes
      BY <1>1, CommonHolds
    <2> HIDE DEF common
    <2>3. Within(common, r.box) /\ Within(common, box)
      BY <1>1, <2>1 DEF IsBox, Within, Most, Least
    <2> QED  BY <2>2, <2>3
  <1> HIDE DEF common
  <1>3. ValidBox(common) # NoBox
    <2>1. ASSUME ValidBox(common) = NoBox PROVE FALSE
      <3>1. Clip(r, box) = <<>>
        BY <2>1 DEF Clip, common
      <3> QED  BY <3>1
    <2> QED  BY <2>1
  <1>4. IsProper(common)
    BY <1>3 DEF ValidBox, IsProper
  <1>5. Clip(r, box) = <<piece>>
    BY <1>3, Zenon DEF Clip, ValidBox, common
  <1>6. Clip(r, box)[j] = piece
    <2> HIDE DEF piece
    <2> QED  BY <1>5
  <1>7. piece \in Records /\ piece.box = common /\ piece.source = r.source
        /\ piece.layer = r.layer /\ piece.kind = r.kind
    BY <1>2 DEF Records
  <1> HIDE DEF piece
  <1> QED  BY <1>2, <1>4, <1>6, <1>7 DEF IsPieceOf, Same

\* So it is for the records of a sequence whose index is in I.
LEMMA CutTells ==
    ASSUME NEW rects \in Seq(Records), NEW box, IsBox(box), NEW I,
           NEW parts, Cut(parts, rects, I, box), NEW j \in DOMAIN FlattenSeq(parts)
    PROVE  \E i \in DOMAIN rects : i \in I /\ IsPieceOf(FlattenSeq(parts)[j], rects[i], box)
  <1> DEFINE n == Len(rects)
  <1>1. n \in Nat /\ DOMAIN rects = 1..n /\ \A i \in 1..n : rects[i] \in Records
    BY LenProperties, ElementOfSeq
  <1>2. ASSUME NEW i \in 1..n
        PROVE  /\ parts[i] \in Seq(Records)
               /\ parts[i] = IF i \in I THEN Clip(rects[i], box) ELSE <<>>
    <2>1. rects[i] \in Records /\ parts[i] = IF i \in I THEN Clip(rects[i], box) ELSE <<>>
      BY <1>1 DEF Cut
    <2>2. Clip(rects[i], box) \in Seq(Records)
      BY <2>1, ClipTyped
    <2> QED  BY <2>1, <2>2, EmptySeq
  <1>3. AreParts(parts, n, Records)
    <2>1. parts = [i \in 1..n |-> parts[i]]
      BY <1>1 DEF Cut
    <2> HIDE DEF n
    <2> QED  BY <1>2, <2>1 DEF AreParts
  <1> HIDE DEF n
  <1>4. InParts(FlattenSeq(parts)[j], parts, n)
    BY <1>1, <1>3, FlatElement
  <1>5. PICK i \in 1..n : \E k \in DOMAIN parts[i] : FlattenSeq(parts)[j] = parts[i][k]
    BY <1>4 DEF InParts
  <1>50. PICK k \in DOMAIN parts[i] : FlattenSeq(parts)[j] = parts[i][k]
    BY <1>5
  <1>6. i \in I /\ parts[i] = Clip(rects[i], box)
    <2>1. ASSUME i \notin I PROVE FALSE
      <3>1. parts[i] = <<>>
        BY <1>2, <2>1
      <3> QED  BY <1>50, <3>1
    <2> QED  BY <1>2, <2>1
  <1>7. k \in DOMAIN Clip(rects[i], box) /\ rects[i] \in Records
    BY <1>1, <1>50, <1>6
  <1>8. IsPieceOf(Clip(rects[i], box)[k], rects[i], box)
    BY <1>7, ClipIs
  <1> QED  BY <1>1, <1>50, <1>6, <1>8

\* Picking leaves the records whose index is in I, all and no other.
LEMMA PickedTells ==
    ASSUME NEW rects \in Seq(Records), NEW I, NEW parts, Picked(parts, rects, I)
    PROVE  /\ \A j \in DOMAIN FlattenSeq(parts) :
                \E i \in DOMAIN rects : i \in I /\ FlattenSeq(parts)[j] = rects[i]
           /\ \A i \in DOMAIN rects : i \in I =>
                \E j \in DOMAIN FlattenSeq(parts) : FlattenSeq(parts)[j] = rects[i]
  <1> DEFINE n == Len(rects)
             flat == FlattenSeq(parts)
  <1>1. n \in Nat /\ DOMAIN rects = 1..n /\ \A i \in 1..n : rects[i] \in Records
    BY LenProperties, ElementOfSeq
  <1>2. ASSUME NEW i \in 1..n
        PROVE  /\ parts[i] \in Seq(Records)
               /\ parts[i] = IF i \in I THEN <<rects[i]>> ELSE <<>>
    <2>1. rects[i] \in Records /\ parts[i] = IF i \in I THEN <<rects[i]>> ELSE <<>>
      BY <1>1 DEF Picked
    <2>2. \A r \in Records : <<r>> \in Seq(Records)
      OBVIOUS
    <2> QED  BY <2>1, <2>2, EmptySeq
  <1>3. AreParts(parts, n, Records)
    <2>1. parts = [i \in 1..n |-> parts[i]]
      BY <1>1 DEF Picked
    <2> HIDE DEF n
    <2> QED  BY <1>2, <2>1 DEF AreParts
  <1> HIDE DEF n, flat
  <1>4. ASSUME NEW j \in DOMAIN flat
        PROVE  \E i \in DOMAIN rects : i \in I /\ flat[j] = rects[i]
    <2>1. InParts(FlattenSeq(parts)[j], parts, n)
      BY <1>1, <1>3, <1>4, FlatElement DEF flat
    <2>2. PICK i \in 1..n : \E k \in DOMAIN parts[i] : flat[j] = parts[i][k]
      BY <2>1 DEF InParts, flat
    <2>20. PICK k \in DOMAIN parts[i] : flat[j] = parts[i][k]
      BY <2>2
    <2>3. i \in I /\ parts[i] = <<rects[i]>>
      <3>1. ASSUME i \notin I PROVE FALSE
        <4>1. parts[i] = <<>>
          BY <1>2, <3>1
        <4> QED  BY <2>20, <4>1
      <3> QED  BY <1>2, <3>1
    <2>4. flat[j] = rects[i]
      BY <2>20, <2>3
    <2> QED  BY <1>1, <2>3, <2>4
  <1>5. ASSUME NEW i \in DOMAIN rects, i \in I PROVE \E j \in DOMAIN flat : flat[j] = rects[i]
    <2>1. i \in 1..n /\ parts[i] = <<rects[i]>>
      BY <1>1, <1>2, <1>5
    <2>2. 1 \in DOMAIN parts[i] /\ parts[i][1] = rects[i]
      BY <2>1
    <2>3. InSeq(parts[i][1], FlattenSeq(parts))
      BY <1>1, <1>3, <2>1, <2>2, FlatHolds
    <2> QED  BY <2>2, <2>3 DEF flat, InSeq
  <1> QED  BY <1>4, <1>5 DEF flat, InSeq

\* What is drawn and what is large, of the source.
LEMMA DrawnTells ==
    ASSUME NEW world, NEW rects \in Seq(Records)
    PROVE  /\ \A r : r \in Range(Drawn(rects)) <=>
                       \E i \in DOMAIN rects : r = rects[i] /\ ~IsShared(rects[i].kind)
           /\ \A r : r \in Range(LargeObjects(world, rects)) <=>
                       \E i \in DOMAIN rects : /\ r = rects[i] /\ ~IsShared(rects[i].kind)
                                               /\ IsLarge(world, rects[i])
  <1> DEFINE D == {i \in DOMAIN rects : ~IsShared(rects[i].kind)}
             L == {i \in DOMAIN rects : ~IsShared(rects[i].kind) /\ IsLarge(world, rects[i])}
             drawn == [i \in DOMAIN rects |-> IF i \in D THEN <<rects[i]>> ELSE <<>>]
             large == [i \in DOMAIN rects |-> IF i \in L THEN <<rects[i]>> ELSE <<>>]
  <1>1. drawn = [i \in DOMAIN rects |-> IF IsShared(rects[i].kind) THEN <<>> ELSE <<rects[i]>>]
    OBVIOUS
  <1>2. large = [i \in DOMAIN rects |->
                   IF ~IsShared(rects[i].kind) /\ IsLarge(world, rects[i]) THEN <<rects[i]>> ELSE <<>>]
    OBVIOUS
  <1>3. Drawn(rects) = FlattenSeq(drawn) /\ LargeObjects(world, rects) = FlattenSeq(large)
    BY <1>1, <1>2, Zenon DEF Drawn, LargeObjects
  <1>4. Picked(drawn, rects, D) /\ Picked(large, rects, L)
    BY Zenon DEF Picked
  <1> HIDE DEF drawn, large
  <1>5. /\ \A j \in DOMAIN FlattenSeq(drawn) :
             \E i \in DOMAIN rects : i \in D /\ FlattenSeq(drawn)[j] = rects[i]
        /\ \A i \in DOMAIN rects : i \in D =>
             \E j \in DOMAIN FlattenSeq(drawn) : FlattenSeq(drawn)[j] = rects[i]
    <2> HIDE DEF D
    <2> QED  BY <1>4, PickedTells
  <1>6. /\ \A j \in DOMAIN FlattenSeq(large) :
             \E i \in DOMAIN rects : i \in L /\ FlattenSeq(large)[j] = rects[i]
        /\ \A i \in DOMAIN rects : i \in L =>
             \E j \in DOMAIN FlattenSeq(large) : FlattenSeq(large)[j] = rects[i]
    <2> HIDE DEF L
    <2> QED  BY <1>4, PickedTells
  <1>7. ASSUME NEW r
        PROVE  r \in Range(Drawn(rects)) <=>
                 \E i \in DOMAIN rects : r = rects[i] /\ ~IsShared(rects[i].kind)
    BY <1>3, <1>5 DEF Range
  <1>8. ASSUME NEW r
        PROVE  r \in Range(LargeObjects(world, rects)) <=>
                 \E i \in DOMAIN rects : /\ r = rects[i] /\ ~IsShared(rects[i].kind)
                                         /\ IsLarge(world, rects[i])
    BY <1>3, <1>6 DEF Range
  <1> QED  BY <1>7, <1>8

\* A record of a tile is a piece of one that goes into tiles, and lies in the world.
IsSourced(p, world, rects) ==
    \E i \in DOMAIN rects : /\ ~IsShared(rects[i].kind) /\ ~IsLarge(world, rects[i])
                            /\ IsPieceOf(p, rects[i], PyramidWorld(world))
TellsSource(t, world, rects) ==
    IsTyped(t) /\ \A j \in DOMAIN t.rects : IsSourced(t.rects[j], world, rects)

\* The bucket of a cell holds pieces of the records that go to it.
LEMMA BucketTells ==
    ASSUME NEW world, IsBox(world), NEW rects \in Seq(Records), NEW cx \in Int, NEW cy \in Int,
           NEW j \in DOMAIN Bucket(world, rects, cx, cy)
    PROVE  \E i \in DOMAIN rects :
             /\ GoesTo(world, rects[i], cx, cy)
             /\ IsPieceOf(Bucket(world, rects, cx, cy)[j], rects[i], TileBox(world, cx, cy))
  <1> DEFINE I == {i \in DOMAIN rects : GoesTo(world, rects[i], cx, cy)}
             box == TileBox(world, cx, cy)
             parts == [i \in DOMAIN rects |-> IF i \in I THEN Clip(rects[i], box) ELSE <<>>]
  <1>1. Bucket(world, rects, cx, cy)
          = FlattenSeq([i \in DOMAIN rects |->
                          IF GoesTo(world, rects[i], cx, cy) THEN Clip(rects[i], box) ELSE <<>>])
    BY Zenon DEF Bucket, GoesTo
  <1>2. parts = [i \in DOMAIN rects |->
                   IF GoesTo(world, rects[i], cx, cy) THEN Clip(rects[i], box) ELSE <<>>]
    OBVIOUS
  <1>3. Cut(parts, rects, I, box)
    BY Zenon DEF Cut
  <1>4. IsBox(box)
    BY TileBoxTyped
  <1>5. j \in DOMAIN FlattenSeq(parts) /\ Bucket(world, rects, cx, cy) = FlattenSeq(parts)
    BY <1>1, <1>2
  <1> HIDE DEF parts, box
  <1>6. \E i \in DOMAIN rects : i \in I /\ IsPieceOf(FlattenSeq(parts)[j], rects[i], box)
    <2> HIDE DEF I
    <2> QED  BY <1>3, <1>4, <1>5, CutTells
  <1> QED  BY <1>5, <1>6 DEF box

\* A quadrant holds pieces of the records of its tile.
LEMMA ClipAllTells ==
    ASSUME NEW rects \in Seq(Records), NEW box, IsBox(box), NEW j \in DOMAIN ClipAll(rects, box)
    PROVE  \E i \in DOMAIN rects : IsPieceOf(ClipAll(rects, box)[j], rects[i], box)
  <1> DEFINE I == DOMAIN rects
             parts == [i \in DOMAIN rects |-> IF i \in I THEN Clip(rects[i], box) ELSE <<>>]
  <1>1. parts = [i \in DOMAIN rects |-> Clip(rects[i], box)]
    OBVIOUS
  <1>2. ClipAll(rects, box) = FlattenSeq(parts)
    BY <1>1, Zenon DEF ClipAll
  <1>3. Cut(parts, rects, I, box)
    BY Zenon DEF Cut
  <1>4. j \in DOMAIN FlattenSeq(parts)
    BY <1>2
  <1> HIDE DEF parts, I
  <1>5. \E i \in DOMAIN rects : i \in I /\ IsPieceOf(FlattenSeq(parts)[j], rects[i], box)
    BY <1>3, <1>4, CutTells
  <1> QED  BY <1>2, <1>5

\* The first and the last edge of a grid are those of the world, and the others lie between.
LEMMA EdgeEnds ==
    ASSUME NEW origin \in Int, NEW size \in Nat, NEW cells \in Nat \ {0}
    PROVE  /\ Edge(origin, size, cells, 0) = origin
           /\ Edge(origin, size, cells, cells) = origin + size
  <1>1. origin * cells \in Int /\ size * cells \in Int /\ size * 0 = 0
    BY ProductIsInt
  <1>2. RoundDiv(origin * cells, cells) = origin
    BY <1>1, RoundExact
  <1>3. origin * cells + size * cells = cells * (origin + size)
    BY Apart
  <1>4. RoundDiv(origin * cells + size * cells, cells) = origin + size
    BY <1>1, <1>3, RoundExact
  <1> QED  BY <1>1, <1>2, <1>4 DEF Edge

LEMMA EdgeWithin ==
    ASSUME NEW origin \in Int, NEW size \in Nat, NEW cells \in Nat \ {0}, NEW i \in 0..cells
    PROVE  /\ Edge(origin, size, cells, i) \in Int
           /\ origin <= Edge(origin, size, cells, i) /\ Edge(origin, size, cells, i) <= origin + size
  <1>1. i \in Int /\ 0 \in Int /\ cells \in Int /\ 0 <= i /\ i <= cells
    OBVIOUS
  <1>2. Edge(origin, size, cells, 0) = origin /\ Edge(origin, size, cells, cells) = origin + size
    BY EdgeEnds
  <1>3. Edge(origin, size, cells, 0) <= Edge(origin, size, cells, i) /\ Edge(origin, size, cells, i) \in Int
    BY <1>1, EdgesGrow
  <1>4. Edge(origin, size, cells, i) <= Edge(origin, size, cells, cells)
    BY <1>1, EdgesGrow
  <1> QED  BY <1>2, <1>3, <1>4

\* A cell lies in the world.
LEMMA TileBoxWithin ==
    ASSUME NEW world, IsBox(world), NEW cx \in 0..(GridColumns - 1), NEW cy \in 0..(GridRows - 1)
    PROVE  Within(TileBox(world, cx, cy), PyramidWorld(world))
  <1> DEFINE box == TileBox(world, cx, cy)
             eX(i) == Edge(world[1], Width(world), GridColumns, i)
             eY(i) == Edge(world[2], Height(world), GridRows, i)
  <1>1. /\ GridColumns \in Nat \ {0} /\ GridRows \in Nat \ {0} /\ cx \in Int /\ cy \in Int
        /\ 0 <= cx /\ cx + 1 <= GridColumns /\ 0 <= cy /\ cy + 1 <= GridRows
    BY GridAssumption
  <1>2. Width(world) \in Nat \ {0} /\ Height(world) \in Nat \ {0}
    BY SizesAre
  <1>3. /\ box[1] = eX(cx) /\ box[2] = eY(cy)
        /\ box[3] = IF cx + 1 = GridColumns THEN world[3] ELSE eX(cx + 1)
        /\ box[4] = IF cy + 1 = GridRows THEN world[4] ELSE eY(cy + 1)
    BY DEF TileBox, Edge
  <1> HIDE DEF box
  <1>4. world[1] <= eX(cx) /\ eX(cx + 1) <= world[1] + Width(world) /\ eX(cx) \in Int /\ eX(cx + 1) \in Int
    <2>1. world[1] \in Int
      BY DEF IsBox
    <2>2. cx \in 0..GridColumns /\ cx + 1 \in 0..GridColumns
      BY <1>1
    <2> QED  BY <1>1, <1>2, <2>1, <2>2, EdgeWithin
  <1>5. world[2] <= eY(cy) /\ eY(cy + 1) <= world[2] + Height(world) /\ eY(cy) \in Int /\ eY(cy + 1) \in Int
    <2>1. world[2] \in Int
      BY DEF IsBox
    <2>2. cy \in 0..GridRows /\ cy + 1 \in 0..GridRows
      BY <1>1
    <2> QED  BY <1>1, <1>2, <2>1, <2>2, EdgeWithin
  <1>6. world[3] <= world[1] + Width(world) /\ world[4] <= world[2] + Height(world)
    BY DEF Width, Height, Most, IsBox
  <1> HIDE DEF eX, eY
  <1>7. /\ world[1] <= box[1] /\ world[2] <= box[2]
        /\ box[3] <= world[1] + Width(world) /\ box[4] <= world[2] + Height(world)
    BY <1>3, <1>4, <1>5, <1>6
  <1> QED  BY <1>7 DEF Within, PyramidWorld, box

\* What is within a box that is within another is within that one.
LEMMA WithinBoth ==
    ASSUME NEW a, IsBox(a), NEW b, IsBox(b), NEW c, IsBox(c), Within(a, b), Within(b, c)
    PROVE  Within(a, c)
  BY DEF Within, IsBox

\* The records of a cell come from the source, and so do those of the tiles it is split into.
LEMMA CellTells ==
    ASSUME NEW world, IsBox(world), NEW rects \in Seq(Records), NEW c \in Cells(world, rects)
    PROVE  TellsSource(c, world, rects)
  <1>1. PICK cx \in 0..(GridColumns - 1), cy \in 0..(GridRows - 1) :
           c = Tile(cx, cy, 0, TileBox(world, cx, cy), Bucket(world, rects, cx, cy))
    BY DEF Cells
  <1>2. cx \in Int /\ cy \in Int
    BY GridAssumption
  <1>3. c.bbox = TileBox(world, cx, cy) /\ c.rects = Bucket(world, rects, cx, cy)
    BY <1>1 DEF Tile
  <1>4. IsBox(TileBox(world, cx, cy)) /\ Within(TileBox(world, cx, cy), PyramidWorld(world))
    BY <1>2, TileBoxTyped, TileBoxWithin
  <1>5. IsTyped(c)
    BY <1>2, <1>3, <1>4, BucketTyped DEF IsTyped
  <1>6. IsBox(PyramidWorld(world))
    BY PyramidWorldIs DEF IsWorld
  <1>7. ASSUME NEW j \in DOMAIN c.rects PROVE IsSourced(c.rects[j], world, rects)
    <2>1. PICK i \in DOMAIN rects : /\ GoesTo(world, rects[i], cx, cy)
                                    /\ IsPieceOf(c.rects[j], rects[i], TileBox(world, cx, cy))
      BY <1>2, <1>3, BucketTells
    <2>2. IsBox(c.rects[j].box)
      BY <2>1, RecordIsBox DEF IsPieceOf, Records
    <2>3. Within(c.rects[j].box, PyramidWorld(world))
      BY <1>4, <1>6, <2>1, <2>2, WithinBoth DEF IsPieceOf
    <2>4. IsPieceOf(c.rects[j], rects[i], PyramidWorld(world))
      BY <2>1, <2>3 DEF IsPieceOf
    <2> QED  BY <2>1, <2>4 DEF IsSourced, GoesTo
  <1> QED  BY <1>5, <1>7 DEF TellsSource

LEMMA QuadrantTells ==
    ASSUME NEW world, IsBox(world), NEW rects \in Seq(Records), NEW t, TellsSource(t, world, rects),
           NEW part \in Quadrants(t)
    PROVE  TellsSource(part, world, rects)
  <1>1. PICK q \in 1..4 : part = PartOf(t, q)
    BY QuadrantsAreParts
  <1>2. IsTyped(t) /\ t.rects \in Seq(Records)
    BY DEF TellsSource, IsTyped
  <1>3. IsTyped(part) /\ IsBox(Quarter(t.bbox, q))
    BY <1>2, QuadrantTyped, QuarterTyped DEF IsTyped
  <1>4. part.rects = ClipAll(t.rects, Quarter(t.bbox, q))
    BY <1>1 DEF PartOf
  <1>5. ASSUME NEW j \in DOMAIN part.rects PROVE IsSourced(part.rects[j], world, rects)
    <2>1. PICK k \in DOMAIN t.rects : IsPieceOf(part.rects[j], t.rects[k], Quarter(t.bbox, q))
      BY <1>2, <1>3, <1>4, ClipAllTells
    <2>2. IsSourced(t.rects[k], world, rects)
      BY DEF TellsSource
    <2>3. PICK i \in DOMAIN rects : /\ ~IsShared(rects[i].kind) /\ ~IsLarge(world, rects[i])
                                    /\ IsPieceOf(t.rects[k], rects[i], PyramidWorld(world))
      BY <2>2 DEF IsSourced
    <2> DEFINE p == part.rects[j]  s == t.rects[k]  r == rects[i]  w == PyramidWorld(world)
    <2>4. r \in Records
      BY ElementOfSeq
    <2>5. IsBox(p.box) /\ IsBox(s.box) /\ IsBox(r.box)
      BY <2>1, <2>3, <2>4, RecordIsBox DEF IsPieceOf, Records
    <2>6. IsBox(w)
      BY PyramidWorldIs DEF IsWorld
    <2> HIDE DEF p, s, r, w
    <2>7. /\ IsPieceOf(p, s, Quarter(t.bbox, q)) /\ IsPieceOf(s, r, w)
      BY <2>1, <2>3 DEF p, s, r, w
    <2>8. Within(p.box, r.box) /\ Within(p.box, w)
      BY <2>5, <2>6, <2>7, WithinBoth DEF IsPieceOf
    <2>9. IsPieceOf(p, r, w)
      BY <2>7, <2>8 DEF IsPieceOf, Same
    <2> QED  BY <2>3, <2>9 DEF IsSourced, p, r, w
  <1> QED  BY <1>3, <1>5 DEF TellsSource

LEMMA LevelsTell ==
    ASSUME NEW world, IsBox(world), NEW rects \in Seq(Records), NEW tiles,
           \A t \in tiles : TellsSource(t, world, rects),
           NEW m \in Nat, NEW f, IsLevels(f, tiles, m), NEW d \in 0..m
    PROVE  \A t \in f[d] : TellsSource(t, world, rects)
  <1> DEFINE Bad == {k \in 0..m : ~ \A t \in f[k] : TellsSource(t, world, rects)}
  <1> SUFFICES ASSUME Bad # {} PROVE FALSE  OBVIOUS
  <1>1. PICK k \in Bad : \A j \in Bad : k <= j
    <2>1. Bad \subseteq Nat  OBVIOUS
    <2> HIDE DEF Bad
    <2> QED  BY <2>1, Smallest
  <1>2. f[k] = IF k = 0 THEN tiles ELSE Deeper(f[k - 1])
    <2>1. k \in 0..m  OBVIOUS
    <2> HIDE DEF Bad
    <2> QED  BY <2>1 DEF IsLevels
  <1>3. CASE k = 0  BY <1>1, <1>2, <1>3
  <1>4. CASE k # 0
    <2>1. k - 1 \in 0..m /\ k - 1 \notin Bad  BY <1>1, <1>4
    <2>2. \A t \in f[k - 1] : TellsSource(t, world, rects)  BY <2>1
    <2>3. ASSUME NEW u \in Deeper(f[k - 1]) PROVE TellsSource(u, world, rects)
      <3>1. PICK t \in f[k - 1] : u \in Split(t, Quadrants(t))  BY DEF Deeper
      <3>2. u = t \/ u \in Quadrants(t)  BY <3>1 DEF Split
      <3> QED  BY <2>2, <3>2, QuadrantTells
    <2> QED  BY <1>1, <1>2, <1>4, <2>3
  <1> QED  BY <1>3, <1>4

LEMMA DetailTells ==
    ASSUME NEW world, IsBox(world), NEW rects \in Seq(Records), NEW t \in DetailSet(world, rects)
    PROVE  TellsSource(t, world, rects)
  <1>1. PICK c \in Cells(world, rects) : t \in Subdivide(c)
    BY DEF DetailSet
  <1>2. TellsSource(c, world, rects)
    BY CellTells
  <1>3. PICK f : IsLevels(f, {c}, MaxDepth) /\ Subdivide(c) = f[MaxDepth]
    BY SubdivideIs
  <1>4. \A u \in f[MaxDepth] : TellsSource(u, world, rects)
    <2>1. MaxDepth \in Nat /\ MaxDepth \in 0..MaxDepth  BY GridAssumption
    <2>2. \A u \in {c} : TellsSource(u, world, rects)  BY <1>2
    <2> QED  BY <1>3, <2>1, <2>2, LevelsTell
  <1> QED  BY <1>1, <1>3, <1>4

-----------------------------------------------------------------------------
(***************************************************************************)
(* What a query finds in what was loaded.                                  *)
(***************************************************************************)

\* The candidates of a query in the order it considers them, and one step of it.
HitsOf(rects, id) == [i \in DOMAIN rects |-> [hit |-> TRUE, rec |-> rects[i], tile |-> id]]
AllHits(batch) ==
    FlattenSeq([i \in DOMAIN batch.tiles |-> HitsOf(batch.tiles[i].rects, batch.tiles[i].id)])
    \o HitsOf(batch.large, <<>>)

IsClicked(rec, box) == IsQueryable(rec.kind) /\ Meets(Ordered(rec.box), box)
Consider(x, y, box, best, c) ==
    IF /\ IsQueryable(c.rec.kind)
       /\ Meets(Ordered(c.rec.box), box)
       /\ best = NoHit \/ RankBefore(Rank(c.rec, x, y), Rank(best.rec, x, y))
    THEN c ELSE best

\* f[t] is the best of the candidates whose index is in t.
IsFold(f, all, x, y, box, m) ==
    f = [t \in SUBSET (1..m) |->
           IF t = {} THEN NoHit ELSE Consider(x, y, box, f[t \ {Max(t)}], all[Max(t)])]

\* There is such a function, and a query returns its value at all candidates.
LEMMA FoldExists ==
    ASSUME NEW all, NEW x, NEW y, NEW box, NEW m \in Nat
    PROVE  \E f : IsFold(f, all, x, y, box, m)
  <1> DEFINE L(f, k) == IsFold(f, all, x, y, box, k)
             Bad == {k \in Nat : ~ \E f : L(f, k)}
  <1> SUFFICES ASSUME Bad # {} PROVE FALSE  OBVIOUS
  <1>1. PICK k \in Bad : \A j \in Bad : k <= j
    <2>1. Bad \subseteq Nat  OBVIOUS
    <2> HIDE DEF Bad
    <2> QED  BY <2>1, Smallest
  <1>2. CASE k = 0
    <2> DEFINE g == [t \in {{}} |-> NoHit]
    <2>1. SUBSET (1..k) = {{}}
      BY <1>2
    <2>2. L(g, k)
      BY <2>1, Zenon DEF IsFold
    <2> QED  BY <1>1, <2>2
  <1>3. CASE k > 0
    <2>1. k - 1 \in Nat /\ k - 1 \notin Bad /\ k \in Nat
      BY <1>1, <1>3
    <2>2. PICK f : L(f, k - 1)
      BY <2>1
    <2> DEFINE g == [t \in SUBSET (1..k) |->
                       IF k \in t THEN Consider(x, y, box, f[t \ {k}], all[k]) ELSE f[t]]
    <2>3. ASSUME NEW t \in SUBSET (1..k)
          PROVE  g[t] = IF t = {} THEN NoHit
                        ELSE Consider(x, y, box, g[t \ {Max(t)}], all[Max(t)])
      <3>0. ASSUME NEW u \in SUBSET (1..k), k \notin u
            PROVE  u \in SUBSET (1..(k - 1)) /\ g[u] = f[u]
        BY <2>1, <3>0
      <3>1. CASE k \in t
        <4>1. Max(t) = k  BY <2>1, <3>1, MaxIs
        <4>2. t \ {k} \in SUBSET (1..k) /\ k \notin t \ {k} /\ t # {}  BY <3>1
        <4>3. g[t \ {k}] = f[t \ {k}]  BY <3>0, <4>2
        <4>4. g[t] = Consider(x, y, box, f[t \ {k}], all[k])  BY <3>1
        <4> HIDE DEF g
        <4> QED  BY <4>1, <4>2, <4>3, <4>4
      <3>2. CASE k \notin t
        <4>1. t \in SUBSET (1..(k - 1)) /\ g[t] = f[t]  BY <3>0, <3>2
        <4>2. f[t] = IF t = {} THEN NoHit
                     ELSE Consider(x, y, box, f[t \ {Max(t)}], all[Max(t)])
          BY <2>2, <4>1 DEF IsFold
        <4>3. t \ {Max(t)} \in SUBSET (1..k) /\ k \notin t \ {Max(t)}  BY <3>2
        <4>4. g[t \ {Max(t)}] = f[t \ {Max(t)}]  BY <3>0, <4>3
        <4> HIDE DEF g
        <4> QED  BY <4>1, <4>2, <4>4
      <3> QED  BY <3>1, <3>2
    <2>4. L(g, k)
      BY <2>3, Zenon DEF IsFold
    <2> QED  BY <1>1, <2>4
  <1> QED  BY <1>1, <1>2, <1>3

LEMMA QueryPointIs ==
    ASSUME NEW batch, NEW x, NEW y, NEW tolerance, NEW all, all = AllHits(batch),
           Len(all) \in Nat, DOMAIN all = 1..Len(all)
    PROVE  \E f : /\ IsFold(f, all, x, y, QueryBox(x, y, tolerance), Len(all))
                  /\ QueryPoint(batch, x, y, tolerance) = f[1..Len(all)]
  <1> DEFINE box == QueryBox(x, y, tolerance)
             F == CHOOSE f : f = [t \in SUBSET DOMAIN all |->
                    IF t = {} THEN NoHit
                    ELSE Consider(x, y, box, f[t \ {Max(t)}], all[Max(t)])]
  <1>1. F = [t \in SUBSET DOMAIN all |->
               IF t = {} THEN NoHit
               ELSE Consider(x, y, box, F[t \ {Max(t)}], all[Max(t)])]
    <2>1. \E f : IsFold(f, all, x, y, box, Len(all))
      BY FoldExists
    <2> HIDE DEF box
    <2> QED  BY <2>1, Zenon DEF IsFold
  <1>2. QueryPoint(batch, x, y, tolerance) = F[DOMAIN all]
    BY Zenon DEF QueryPoint, FoldLeft, MapThenFoldSet, AllHits, HitsOf, Consider
  <1> HIDE DEF F, box
  <1>3. IsFold(F, all, x, y, box, Len(all))
    BY <1>1, Zenon DEF IsFold
  <1> QED  BY <1>2, <1>3 DEF box

\* Among the first k candidates h is one that was clicked, and is one if there is one.
AreHits(all) == \A j \in DOMAIN all : all[j].hit = TRUE
IsBest(h, all, box, k) ==
    /\ h = NoHit \/ \E j \in 1..k : h = all[j] /\ IsClicked(all[j].rec, box)
    /\ (\E j \in 1..k : IsClicked(all[j].rec, box)) => h # NoHit

\* What has been considered last is the best of all.
LEMMA FoldIsBest ==
    ASSUME NEW all, Len(all) \in Nat, DOMAIN all = 1..Len(all), AreHits(all), NEW x, NEW y, NEW box,
           NEW f, IsFold(f, all, x, y, box, Len(all))
    PROVE  IsBest(f[1..Len(all)], all, box, Len(all))
  <1> DEFINE n == Len(all)
             Bad == {k \in 0..n : ~IsBest(f[1..k], all, box, k)}
  <1> SUFFICES ASSUME Bad # {} PROVE FALSE
    <2>1. n \in 0..n  OBVIOUS
    <2> QED  BY <2>1
  <1>1. PICK k \in Bad : \A j \in Bad : k <= j
    <2>1. Bad \subseteq Nat  OBVIOUS
    <2> HIDE DEF Bad
    <2> QED  BY <2>1, Smallest
  <1>2. k \in 0..n /\ n \in Nat
    OBVIOUS
  <1>3. ASSUME NEW t \in SUBSET (1..n)
        PROVE  f[t] = IF t = {} THEN NoHit ELSE Consider(x, y, box, f[t \ {Max(t)}], all[Max(t)])
    <2> HIDE DEF n, Bad
    <2> QED  BY <1>3 DEF IsFold, n
  <1>4. CASE k = 0
    <2>1. 1..k = {} /\ {} \in SUBSET (1..n)
      BY <1>4
    <2>2. f[1..k] = NoHit
      BY <1>3, <2>1
    <2>3. IsBest(f[1..k], all, box, k)
      BY <2>1, <2>2 DEF IsBest
    <2> QED  BY <1>1, <2>3
  <1>5. CASE k # 0
    <2>1. k - 1 \in 0..n /\ k - 1 \notin Bad /\ k \in Nat
      BY <1>1, <1>2, <1>5
    <2>2. IsBest(f[1..(k - 1)], all, box, k - 1)
      BY <2>1
    <2> HIDE DEF n
    <2>3. 1..k \in SUBSET (1..n) /\ k \in 1..k /\ 1..k # {} /\ (1..k) \ {k} = 1..(k - 1)
      <3>1. n \in Nat /\ k \in 1..n
        BY <1>2, <1>5 DEF n
      <3>2. \A i : i \in (1..k) \ {k} <=> i \in 1..(k - 1)
        BY <3>1
      <3>3. (1..k) \ {k} = 1..(k - 1)
        BY <3>2, Zenon
      <3>4. k \in 1..k /\ 1..k \subseteq 1..n
        BY <3>1
      <3> QED  BY <3>3, <3>4
    <2>4. Max(1..k) = k
      BY <2>1, <2>3, MaxIs
    <2>5. f[1..k] = Consider(x, y, box, f[1..(k - 1)], all[k])
      BY <1>3, <2>3, <2>4
    <2> DEFINE h == f[1..k]  g == f[1..(k - 1)]
    <2>6. \A j \in 1..k : j \in 1..(k - 1) \/ j = k
      BY <1>2
    <2>7. k \in 1..k /\ 1..(k - 1) \subseteq 1..k
      BY <2>3
    <2>8. all[k] # NoHit
      BY <1>2, <2>3 DEF AreHits, NoHit, n
    <2> HIDE DEF h, g
    <2>9. (h = all[k] /\ IsClicked(all[k].rec, box)) \/ h = g
      BY <2>5 DEF Consider, IsClicked, h, g
    <2>10. IsClicked(all[k].rec, box) /\ h = g => g # NoHit
      BY <2>5, <2>8 DEF Consider, IsClicked, h, g
    <2>11. IsBest(g, all, box, k - 1)
      BY <2>2 DEF g
    <2>12. IsBest(h, all, box, k)
      BY <2>6, <2>7, <2>8, <2>9, <2>10, <2>11 DEF IsBest
    <2> QED  BY <1>1, <2>12 DEF h
  <1> QED  BY <1>4, <1>5

\* The candidates are the records of the tiles and the large objects.
FromBatch(r, batch) ==
    (\E i \in DOMAIN batch.tiles : InSeq(r, batch.tiles[i].rects)) \/ InSeq(r, batch.large)
IsBatch(batch, m) ==
    /\ DOMAIN batch.tiles = 1..m
    /\ \A i \in 1..m : batch.tiles[i].rects \in Seq(Records)
    /\ batch.large \in Seq(Records)
HitRecords(ids) == [hit : {TRUE}, rec : Records, tile : ids]

\* The candidates of one tile.
LEMMA HitsTyped ==
    ASSUME NEW rects \in Seq(Records), NEW ids, NEW id \in ids
    PROVE  /\ HitsOf(rects, id) \in Seq(HitRecords(ids)) /\ DOMAIN HitsOf(rects, id) = DOMAIN rects
           /\ \A i \in DOMAIN rects : HitsOf(rects, id)[i].hit = TRUE /\ HitsOf(rects, id)[i].rec = rects[i]
  <1> DEFINE n == Len(rects)
  <1>1. n \in Nat /\ DOMAIN rects = 1..n /\ \A i \in 1..n : rects[i] \in Records
    BY LenProperties, ElementOfSeq
  <1>2. HitsOf(rects, id) \in [1..n -> HitRecords(ids)]
    <2> HIDE DEF n
    <2> QED  BY <1>1 DEF HitsOf, HitRecords
  <1>3. HitsOf(rects, id) \in Seq(HitRecords(ids))
    <2> HIDE DEF n
    <2> QED  BY <1>1, <1>2, SeqDef
  <1> QED  BY <1>1, <1>3 DEF HitsOf

LEMMA AllHitsAre ==
    ASSUME NEW batch, NEW m \in Nat, IsBatch(batch, m), NEW all, all = AllHits(batch)
    PROVE  /\ Len(all) \in Nat /\ DOMAIN all = 1..Len(all) /\ AreHits(all)
           /\ \A j \in DOMAIN all : FromBatch(all[j].rec, batch)
           /\ \A r : FromBatch(r, batch) => \E j \in DOMAIN all : all[j].rec = r
  <1> DEFINE ids == {batch.tiles[i].id : i \in 1..m} \cup {<<>>}
             S == HitRecords(ids)
             parts == [i \in DOMAIN batch.tiles |-> HitsOf(batch.tiles[i].rects, batch.tiles[i].id)]
             tiled == FlattenSeq(parts)
             large == HitsOf(batch.large, <<>>)
  <1>1. all = tiled \o large
    BY Zenon DEF AllHits
  <1>2. ASSUME NEW i \in 1..m
        PROVE  /\ parts[i] \in Seq(S) /\ DOMAIN parts[i] = DOMAIN batch.tiles[i].rects
               /\ \A k \in DOMAIN batch.tiles[i].rects :
                    parts[i][k].hit = TRUE /\ parts[i][k].rec = batch.tiles[i].rects[k]
    <2>1. parts[i] = HitsOf(batch.tiles[i].rects, batch.tiles[i].id)
      BY DEF IsBatch
    <2> DEFINE own == batch.tiles[i].rects  id == batch.tiles[i].id
    <2>2. own \in Seq(Records) /\ id \in ids
      BY DEF IsBatch
    <2> HIDE DEF parts, ids, own, id
    <2>3. /\ HitsOf(own, id) \in Seq(S) /\ DOMAIN HitsOf(own, id) = DOMAIN own
          /\ \A k \in DOMAIN own : HitsOf(own, id)[k].hit = TRUE /\ HitsOf(own, id)[k].rec = own[k]
      BY <2>2, HitsTyped
    <2> HIDE DEF S
    <2>4. parts[i] = HitsOf(own, id)
      BY <2>1 DEF own, id
    <2> QED  BY <2>3, <2>4 DEF own
  <1>3. AreParts(parts, m, S)
    <2>1. parts = [i \in 1..m |-> parts[i]]
      BY DEF IsBatch
    <2> HIDE DEF parts, S
    <2> QED  BY <1>2, <2>1 DEF AreParts
  <1>4. /\ large \in Seq(S) /\ DOMAIN large = DOMAIN batch.large
        /\ \A k \in DOMAIN batch.large : large[k].hit = TRUE /\ large[k].rec = batch.large[k]
    <2>1. batch.large \in Seq(Records) /\ <<>> \in ids
      BY DEF IsBatch
    <2> HIDE DEF ids
    <2>2. ASSUME NEW id \in ids
          PROVE  /\ HitsOf(batch.large, id) \in Seq(S) /\ DOMAIN HitsOf(batch.large, id) = DOMAIN batch.large
                 /\ \A k \in DOMAIN batch.large :
                      HitsOf(batch.large, id)[k].hit = TRUE /\ HitsOf(batch.large, id)[k].rec = batch.large[k]
      BY <2>1, HitsTyped
    <2> HIDE DEF S
    <2> QED  BY <2>1, <2>2
  <1> HIDE DEF S, parts, large
  <1>5. tiled \in Seq(S)
    BY <1>3, PartsTyped
  <1> DEFINE p == Len(tiled)  q == Len(large)
  <1>6. /\ p \in Nat /\ q \in Nat /\ DOMAIN tiled = 1..p /\ DOMAIN large = 1..q
    BY <1>4, <1>5, LenProperties
  <1> HIDE DEF tiled
  <1>7. /\ Len(all) = p + q /\ all \in Seq(S)
        /\ \A i \in 1..(p + q) : all[i] = IF i <= p THEN tiled[i] ELSE large[i - p]
    BY <1>1, <1>4, <1>5, ConcatProperties
  <1>8. DOMAIN all = 1..(p + q)
    BY <1>7, LenProperties
  <1> HIDE DEF p, q
  <1>9. ASSUME NEW j \in DOMAIN tiled
        PROVE  tiled[j].hit = TRUE /\ FromBatch(tiled[j].rec, batch)
    <2>1. InParts(tiled[j], parts, m)
      BY <1>3, <1>9, FlatElement DEF tiled
    <2>2. PICK i \in 1..m : \E k \in DOMAIN parts[i] : tiled[j] = parts[i][k]
      BY <2>1 DEF InParts
    <2>3. PICK k \in DOMAIN parts[i] : tiled[j] = parts[i][k]
      BY <2>2
    <2>4. k \in DOMAIN batch.tiles[i].rects /\ tiled[j].hit = TRUE /\ tiled[j].rec = batch.tiles[i].rects[k]
      <3>1. k \in DOMAIN batch.tiles[i].rects
        BY <1>2, <2>3
      <3>2. parts[i][k].hit = TRUE /\ parts[i][k].rec = batch.tiles[i].rects[k]
        BY <1>2, <3>1
      <3> QED  BY <2>3, <3>1, <3>2
    <2>5. InSeq(tiled[j].rec, batch.tiles[i].rects) /\ i \in DOMAIN batch.tiles
      BY <2>4 DEF InSeq, IsBatch
    <2> QED  BY <2>4, <2>5 DEF FromBatch
  <1>10. ASSUME NEW j \in DOMAIN large
         PROVE  large[j].hit = TRUE /\ FromBatch(large[j].rec, batch)
    BY <1>4 DEF FromBatch, InSeq
  <1>11. ASSUME NEW j \in DOMAIN all PROVE all[j].hit = TRUE /\ FromBatch(all[j].rec, batch)
    <2>1. CASE j <= p
      <3>1. j \in 1..p /\ all[j] = tiled[j]
        BY <1>6, <1>7, <1>8, <2>1
      <3> QED  BY <1>6, <1>9, <3>1
    <2>2. CASE ~(j <= p)
      <3>1. j - p \in 1..q /\ all[j] = large[j - p]
        BY <1>6, <1>7, <1>8, <2>2
      <3> QED  BY <1>6, <1>10, <3>1
    <2> QED  BY <2>1, <2>2
  <1>12. ASSUME NEW r, FromBatch(r, batch) PROVE \E j \in DOMAIN all : all[j].rec = r
    <2>1. CASE \E i \in DOMAIN batch.tiles : InSeq(r, batch.tiles[i].rects)
      <3>1. PICK i \in 1..m : InSeq(r, batch.tiles[i].rects)
        BY <2>1 DEF IsBatch
      <3>2. PICK k \in DOMAIN batch.tiles[i].rects : batch.tiles[i].rects[k] = r
        BY <3>1 DEF InSeq
      <3>3. k \in DOMAIN parts[i] /\ parts[i][k].rec = r
        BY <1>2, <3>2
      <3>4. InSeq(parts[i][k], FlattenSeq(parts))
        BY <1>3, <3>3, FlatHolds
      <3>5. PICK j \in DOMAIN tiled : tiled[j] = parts[i][k]
        BY <3>4 DEF InSeq, tiled
      <3>6. j \in 1..(p + q) /\ all[j] = tiled[j]
        BY <1>6, <1>7
      <3> QED  BY <1>8, <3>3, <3>5, <3>6
    <2>2. CASE InSeq(r, batch.large)
      <3>1. PICK k \in DOMAIN large : large[k].rec = r
        BY <1>4, <2>2 DEF InSeq
      <3>2. p + k \in 1..(p + q) /\ ~(p + k <= p) /\ (p + k) - p = k
        BY <1>6
      <3>3. all[p + k] = large[k]
        BY <1>7, <3>2
      <3> QED  BY <1>8, <3>1, <3>2, <3>3
    <2> QED  BY <1>12, <2>1, <2>2 DEF FromBatch
  <1>13. Len(all) \in Nat /\ DOMAIN all = 1..Len(all)
    BY <1>6, <1>7, <1>8
  <1>14. AreHits(all)
    BY <1>11 DEF AreHits
  <1> QED  BY <1>11, <1>12, <1>13, <1>14

\* A query finds what was clicked of the batch, if anything was.
LEMMA QueryFinds ==
    ASSUME NEW batch, NEW m \in Nat, IsBatch(batch, m), NEW x, NEW y, NEW tolerance,
           NEW box, box = QueryBox(x, y, tolerance), NEW h, h = QueryPoint(batch, x, y, tolerance)
    PROVE  /\ h.hit \in BOOLEAN
           /\ h.hit => IsClicked(h.rec, box) /\ FromBatch(h.rec, batch)
           /\ \A r : FromBatch(r, batch) /\ IsClicked(r, box) => h.hit
  <1> DEFINE all == AllHits(batch)
  <1>1. /\ Len(all) \in Nat /\ DOMAIN all = 1..Len(all) /\ AreHits(all)
        /\ \A j \in DOMAIN all : FromBatch(all[j].rec, batch)
        /\ \A r : FromBatch(r, batch) => \E j \in DOMAIN all : all[j].rec = r
    BY AllHitsAre
  <1> HIDE DEF all
  <1>2. PICK f : IsFold(f, all, x, y, box, Len(all)) /\ h = f[1..Len(all)]
    BY <1>1, QueryPointIs DEF all
  <1>3. IsBest(h, all, box, Len(all))
    BY <1>1, <1>2, FoldIsBest
  <1>4. h = NoHit \/ \E j \in 1..Len(all) : h = all[j] /\ IsClicked(all[j].rec, box)
    BY <1>3 DEF IsBest
  <1>5. \A j \in 1..Len(all) : all[j].hit = TRUE
    BY <1>1 DEF AreHits
  <1>6. NoHit.hit = FALSE
    BY DEF NoHit
  <1>7. ASSUME NEW r, FromBatch(r, batch), IsClicked(r, box) PROVE h.hit
    <2>1. PICK j \in DOMAIN all : all[j].rec = r
      BY <1>1, <1>7
    <2>2. h # NoHit
      BY <1>1, <1>3, <1>7, <2>1 DEF IsBest
    <2> QED  BY <1>4, <1>5, <2>2
  <1> QED  BY <1>1, <1>4, <1>5, <1>6, <1>7

\* What a query of a viewer that opened export v finds it in, and the answer it gives.
IsLoaded(batch, v, box) ==
    RightTiles(batch.tiles, World[v], Rects[v], box) /\ batch.large = LargeObjects(World[v], Rects[v])
Found(a, v) ==
    LET p == a.point
    IN  a.ok /\ \E batch : /\ IsLoaded(batch, v, QueryBox(p[1], p[2], p[3]))
                           /\ a.hit = QueryPoint(batch, p[1], p[2], p[3])
LastQuery ==
    answer.op = "query" =>
        /\ answer.point \in Points
        /\ \A v \in Exports : Shows(v) /\ reader.index = disk["index"] => Found(answer, v)
Queried == ~rewritten /\ reader # Closed => LastQuery
QueryInv == LoadInv /\ Queried

\* A query leaves what it found in the package that the viewer shows; nothing else changes that.
LEMMA QueryKeeps ==
    ASSUME LoadInv, NEW p \in Points, NEW capacity \in Capacities, Query(p, capacity)
    PROVE  Queried'
  <1> SUFFICES ASSUME ~rewritten PROVE LastQuery'
    BY DEF Query, Queried
  <1> DEFINE box == QueryBox(p[1], p[2], p[3])
             read == LoadViewport(disk, reader, box, capacity)
             hit == IF read.ok THEN QueryPoint(read, p[1], p[2], p[3]) ELSE NoHit
  <1>1. /\ reader # Closed /\ reader' = read.pkg /\ UNCHANGED <<disk, rewritten>>
        /\ answer' = [op |-> "query", point |-> p, ok |-> read.ok, hit |-> hit]
    BY DEF Query
  <1>2. reader'.index = reader.index
    <2> HIDE DEF box
    <2> QED  BY <1>1, LargeKept
  <1>3. ASSUME NEW v \in Exports, Shows(v)', reader'.index = disk'["index"]
        PROVE  Found(answer', v)
    <2>1. Shows(v) /\ reader.index = disk["index"]
      BY <1>1, <1>2, <1>3 DEF Shows, HoldsOnly
    <2>2. /\ read.ok
          /\ RightTiles(read.tiles, World[v], Rects[v], box)
          /\ read.large = LargeObjects(World[v], Rects[v])
      <3> HIDE DEF box
      <3> QED  BY <1>1, <2>1, LoadReturns
    <2> HIDE DEF read, box
    <2>3. IsLoaded(read, v, box) /\ hit = QueryPoint(read, p[1], p[2], p[3])
      BY <2>2 DEF IsLoaded
    <2> HIDE DEF hit
    <2>4. answer'.ok = read.ok /\ answer'.point = p /\ answer'.hit = hit
      BY <1>1
    <2> QED  BY <2>2, <2>3, <2>4 DEF Found, box
  <1>4. answer'.point \in Points
    BY <1>1
  <1> QED  BY <1>3, <1>4 DEF LastQuery, Found

LEMMA QueryInvHolds == QueryInv /\ [Next]_vars => QueryInv'
  <1> SUFFICES ASSUME QueryInv, [Next]_vars PROVE Queried'
    BY LoadInvHolds DEF QueryInv
  <1>0. Queried /\ LoadInv
    BY DEF QueryInv
  <1>1. CASE Export \/ (\E rebuild \in BOOLEAN : Launch(rebuild)) \/ ReadHierarchy \/ ReadGeometry
             \/ Crash \/ UNCHANGED vars
    <2>1. UNCHANGED <<disk, reader, answer, rewritten>>
      BY <1>1 DEF Export, Launch, ReadHierarchy, ReadGeometry, Crash, vars
    <2> QED  BY <1>0, <2>1 DEF Queried, LastQuery, Shows, HoldsOnly, HasFile
  <1>2. CASE ClearDirectories \/ WriteDetail \/ WriteIndex \/ WriteOverview \/ WriteRest \/ WriteManifest
    <2>1. reader' = reader /\ rewritten' = (reader # Closed)
      BY <1>2 DEF ClearDirectories, WriteDetail, WriteIndex, WriteOverview, WriteRest, WriteManifest,
         WriteFiles, FilesChange
    <2> QED  BY <2>1 DEF Queried
  <1>3. CASE Open
    <2>1. answer' = Nothing
      BY <1>3 DEF Open
    <2> QED  BY <2>1 DEF Queried, LastQuery, Nothing
  <1>4. ASSUME NEW v \in Viewports, NEW c \in Capacities, Load(v, c) PROVE Queried'
    <2>1. answer'.op = "load"  BY <1>4 DEF Load
    <2> QED  BY <2>1 DEF Queried, LastQuery
  <1>5. ASSUME NEW p \in Points, NEW c \in Capacities, Query(p, c) PROVE Queried'
    BY <1>0, <1>5, QueryKeeps
  <1>6. ASSUME NEW z \in Zooms, Overview(z) PROVE Queried'
    <2>1. answer'.op = "overview"  BY <1>6 DEF Overview
    <2> QED  BY <2>1 DEF Queried, LastQuery
  <1> QED
    BY <1>1, <1>2, <1>3, <1>4, <1>5, <1>6 DEF Next

\* The tiles that were loaded are those of the tileset that meet the box.
LEMMA LoadedAre ==
    ASSUME NEW world, NEW rects, NEW box, NEW got, RightTiles(got, world, rects, box)
    PROVE  /\ Len(got) \in Nat /\ DOMAIN got = 1..Len(got)
           /\ \A i \in 1..Len(got) : \E t \in DetailSet(world, rects) : got[i] = Piece(t)
           /\ \A t \in DetailSet(world, rects) :
                Meets(Ordered(t.bbox), box) => \E i \in 1..Len(got) : got[i] = Piece(t)
  <1> DEFINE T == DetailSet(world, rects)
             tiles == DetailTiles(world, rects)
             pieces == PiecesOf(tiles, box, Len(tiles))
             m == Len(got)
  <1>1. /\ Len(tiles) \in Nat /\ DOMAIN tiles = 1..Len(tiles)
        /\ \A i \in DOMAIN tiles : tiles[i] \in T
        /\ \A t \in T : \E i \in DOMAIN tiles : tiles[i] = t
    BY DetailTilesAre
  <1>2. got \in Seq(pieces) /\ IsInjective(got) /\ Range(got) = pieces
    BY DEF RightTiles, Orders
  <1> HIDE DEF T, tiles
  <1>3. ASSUME NEW p \in pieces PROVE \E t \in T : p = Piece(t)
    BY <1>1 DEF PiecesOf, Asked
  <1>4. ASSUME NEW t \in T, Meets(Ordered(t.bbox), box) PROVE Piece(t) \in pieces
    BY <1>1, <1>4 DEF PiecesOf, Asked
  <1> HIDE DEF pieces
  <1>5. m \in Nat /\ DOMAIN got = 1..m /\ \A i \in 1..m : got[i] \in pieces
    BY <1>2, LenProperties, ElementOfSeq
  <1>6. ASSUME NEW p \in pieces PROVE \E i \in 1..m : got[i] = p
    BY <1>2, <1>5 DEF Range
  <1> QED  BY <1>3, <1>4, <1>5, <1>6 DEF T

\* What it was found in is typed, and all of it comes from the source.
LEMMA LoadedTells ==
    ASSUME NEW v \in Exports, NEW box, NEW batch, IsLoaded(batch, v, box)
    PROVE  /\ Len(batch.tiles) \in Nat /\ IsBatch(batch, Len(batch.tiles))
           /\ \A r : FromBatch(r, batch) => \/ IsSourced(r, World[v], Rects[v])
                                            \/ r \in Range(LargeObjects(World[v], Rects[v]))
           /\ \A t \in DetailSet(World[v], Rects[v]) : Meets(Ordered(t.bbox), box) =>
                \A j \in DOMAIN t.rects : FromBatch(t.rects[j], batch)
           /\ \A r \in Range(LargeObjects(World[v], Rects[v])) : FromBatch(r, batch)
  <1> DEFINE world == World[v]  rects == Rects[v]  T == DetailSet(world, rects)
             got == batch.tiles  large == LargeObjects(world, rects)  m == Len(got)
  <1>1. IsBox(world) /\ rects \in Seq(Records)
    BY SourceAssumption, RecordIsBox DEF World, Rects
  <1>2. RightTiles(got, world, rects, box) /\ batch.large = large
    BY DEF IsLoaded
  <1> HIDE DEF world, rects
  <1>3. \A t \in T : TellsSource(t, world, rects)
    BY <1>1, DetailTells
  <1>4. /\ m \in Nat /\ DOMAIN got = 1..m
        /\ \A i \in 1..m : \E t \in T : got[i] = Piece(t)
        /\ \A t \in T : Meets(Ordered(t.bbox), box) => \E i \in 1..m : got[i] = Piece(t)
    BY <1>2, LoadedAre
  <1>5. large \in Seq(Records)
    BY <1>1, DrawnIsBoth
  <1> HIDE DEF T, got, large
  <1>6. ASSUME NEW i \in 1..m
        PROVE  /\ got[i].rects \in Seq(Records)
               /\ \A j \in DOMAIN got[i].rects : IsSourced(got[i].rects[j], world, rects)
    <2>1. PICK t \in T : got[i] = Piece(t)
      BY <1>4
    <2>2. got[i].rects = t.rects
      BY <2>1 DEF Piece
    <2> QED  BY <1>3, <2>2 DEF TellsSource, IsTyped
  <1> HIDE DEF m
  <1>7. IsBatch(batch, m)
    BY <1>2, <1>4, <1>5, <1>6 DEF IsBatch, got
  <1>8. ASSUME NEW r, FromBatch(r, batch)
        PROVE  IsSourced(r, world, rects) \/ r \in Range(large)
    <2>1. CASE \E i \in DOMAIN got : InSeq(r, got[i].rects)
      <3>1. PICK i \in 1..m : InSeq(r, got[i].rects)
        BY <1>4, <2>1
      <3> QED  BY <1>6, <3>1 DEF InSeq
    <2>2. CASE InSeq(r, batch.large)
      BY <1>2, <2>2 DEF InSeq, Range
    <2> QED  BY <1>8, <2>1, <2>2 DEF FromBatch, got
  <1>9. ASSUME NEW t \in T, Meets(Ordered(t.bbox), box), NEW j \in DOMAIN t.rects
        PROVE  FromBatch(t.rects[j], batch)
    <2>1. PICK i \in 1..m : got[i] = Piece(t)
      BY <1>4, <1>9
    <2>2. got[i].rects = t.rects /\ i \in DOMAIN got
      BY <1>4, <2>1 DEF Piece
    <2>3. InSeq(t.rects[j], got[i].rects)
      BY <2>2 DEF InSeq
    <2> QED  BY <2>2, <2>3 DEF FromBatch, got
  <1>10. ASSUME NEW r \in Range(large) PROVE FromBatch(r, batch)
    <2>1. InSeq(r, batch.large)
      BY <1>2 DEF InSeq, Range
    <2> QED  BY <2>1 DEF FromBatch
  <1> QED  BY <1>4, <1>7, <1>8, <1>9, <1>10 DEF world, rects, T, got, large, m

\* The box a query asks for is the one around the click.
LEMMA QueryBoxIs ==
    ASSUME NEW x \in Int, NEW y \in Int, NEW tolerance \in Int
    PROVE  LET t == Most(tolerance, 0)  box == QueryBox(x, y, tolerance)
           IN  IsBox(box) /\ IsProper(box) /\ box = <<x - t, y - t, x + t + 1, y + t + 1>>
  BY DEF QueryBox, Most, IsBox, IsProper

\* A box with area that meets another shares a square with it, and with any box around the first.
LEMMA SquaresMeet ==
    ASSUME NEW b, IsBox(b), IsProper(b), NEW box, IsBox(box), IsProper(box), Meets(Ordered(b), box),
           NEW world, NEW r, IsBox(Kept(world, r)), Within(b, Kept(world, r))
    PROVE  Meets(b, box) /\ Squares(world, r, box) # {}
  <1> DEFINE k == Kept(world, r)
             c == Common(k, box)
             x == Most(b[1], box[1])  y == Most(b[2], box[2])
  <1>1. Meets(b, box)
    BY DEF Meets, Ordered, IsBox, IsProper, Least, Most
  <1>2. /\ c[1] = Most(k[1], box[1]) /\ c[2] = Most(k[2], box[2])
        /\ c[3] = Least(k[3], box[3]) /\ c[4] = Least(k[4], box[4])
    BY DEF Common
  <1>3. IsBox(k) /\ Within(b, k)
    OBVIOUS
  <1> HIDE DEF k, c
  <1>4. x \in c[1]..(c[3] - 1) /\ y \in c[2]..(c[4] - 1)
    BY <1>1, <1>2, <1>3 DEF IsBox, IsProper, Within, Meets, Least, Most
  <1>5. Squares(world, r, box) = (c[1]..(c[3] - 1)) \X (c[2]..(c[4] - 1))
    BY DEF Squares, c, k
  <1> HIDE DEF x, y
  <1>6. <<x, y>> \in Squares(world, r, box)
    BY <1>4, <1>5
  <1> QED  BY <1>1, <1>6

\* A square of a record is held by what is kept of it and by the box.
LEMMA SquareMeans ==
    ASSUME NEW world, NEW r, IsBox(Kept(world, r)), NEW box, IsBox(box), NEW s \in Squares(world, r, box)
    PROVE  s[1] \in Int /\ s[2] \in Int /\ Holds(Kept(world, r), s[1], s[2]) /\ Holds(box, s[1], s[2])
  <1> DEFINE k == Kept(world, r)
  <1>1. s[1] \in Common(k, box)[1]..(Common(k, box)[3] - 1)
        /\ s[2] \in Common(k, box)[2]..(Common(k, box)[4] - 1)
    BY DEF Squares
  <1> HIDE DEF k
  <1> QED  BY <1>1, SquareIs DEF k

-----------------------------------------------------------------------------
(***************************************************************************)
(* What a click finds is what the source has there.                        *)
(***************************************************************************)

\* What the source has of an export.
LEMMA SourceIs ==
    ASSUME NEW v \in Exports
    PROVE  /\ IsBox(World[v]) /\ Rects[v] \in Seq(Records) /\ Visible[v] = Drawn(Rects[v])
           /\ \A i \in DOMAIN Rects[v] : /\ Rects[v][i] \in Records /\ IsBox(Rects[v][i].box)
                                         /\ IsProper(Rects[v][i].box)
           /\ IsBox(PyramidWorld(World[v]))
  <1>1. /\ World[v] = WorldBox(Sources[v]) /\ Rects[v] = Dataset(Sources[v])
        /\ Visible[v] = Drawn(Rects[v])
    BY DEF World, Rects, Visible
  <1>2. IsBox(World[v]) /\ Rects[v] \in Seq(Records)
    BY <1>1, SourceAssumption, RecordIsBox
  <1>3. ASSUME NEW i \in DOMAIN Rects[v]
        PROVE  Rects[v][i] \in Records /\ IsBox(Rects[v][i].box) /\ IsProper(Rects[v][i].box)
    <2>1. Rects[v][i] \in Records
      BY <1>2, ElementOfSeq
    <2>2. ValidBox(Rects[v][i].box) # NoBox
      BY <1>1, <1>3, BoxAssumption
    <2>3. IsProper(Rects[v][i].box)
      BY <2>2 DEF ValidBox, IsProper
    <2> QED  BY <2>1, <2>3, RecordIsBox DEF Records
  <1> QED  BY <1>1, <1>2, <1>3, PyramidWorldIs DEF IsWorld

\* What is kept of a record.
LEMMA KeptIs ==
    ASSUME NEW world, IsBox(PyramidWorld(world)), NEW r \in Records
    PROVE  /\ IsBox(Kept(world, r))
           /\ \A x, y \in Int : Holds(Kept(world, r), x, y) => Holds(r.box, x, y)
  <1>1. IsBox(r.box)
    BY RecordIsBox DEF Records
  <1>2. CASE IsLarge(world, r)
    BY <1>1, <1>2 DEF Kept
  <1>3. CASE ~IsLarge(world, r)
    <2>1. Kept(world, r) = Common(r.box, PyramidWorld(world))
      BY <1>3 DEF Kept
    <2>2. IsBox(Common(r.box, PyramidWorld(world)))
      BY <1>1, CommonIs
    <2>3. ASSUME NEW x \in Int, NEW y \in Int, Holds(Common(r.box, PyramidWorld(world)), x, y)
          PROVE  Holds(r.box, x, y)
      BY <1>1, <2>3, CommonHolds
    <2> QED  BY <2>1, <2>2, <2>3
  <1> QED  BY <1>2, <1>3

\* What is found is a piece of what the source has there.
LEMMA FoundIsThere ==
    ASSUME NEW v \in Exports, NEW box, IsBox(box), IsProper(box), NEW batch, IsLoaded(batch, v, box),
           NEW r, FromBatch(r, batch), IsClicked(r, box)
    PROVE  /\ Meets(r.box, box)
           /\ \E s \in Clickable(v, box) : Same(r, s) /\ Within(r.box, s.box)
  <1> DEFINE world == World[v]  rects == Rects[v]  w == PyramidWorld(world)
  <1>1. /\ IsBox(w) /\ rects \in Seq(Records) /\ Visible[v] = Drawn(rects)
        /\ \A i \in DOMAIN rects : /\ rects[i] \in Records /\ IsBox(rects[i].box)
                                   /\ IsProper(rects[i].box)
    BY SourceIs
  <1> HIDE DEF world, rects, w
  <1>2. \/ IsSourced(r, world, rects)
        \/ r \in Range(LargeObjects(world, rects))
    BY LoadedTells DEF world, rects
  <1>3. CASE IsSourced(r, world, rects)
    <2>1. PICK i \in DOMAIN rects : /\ ~IsShared(rects[i].kind) /\ ~IsLarge(world, rects[i])
                                    /\ IsPieceOf(r, rects[i], w)
      BY <1>3 DEF IsSourced, w
    <2> DEFINE s == rects[i]  k == Kept(world, s)
    <2>2. s \in Records /\ IsBox(s.box) /\ s \in Range(Visible[v])
      BY <1>1, <2>1, DrawnTells
    <2>3. k = Common(s.box, w)
      BY <2>1 DEF Kept, w
    <2>4. /\ ~IsLarge(world, s) /\ IsPieceOf(r, s, w)
      BY <2>1
    <2> HIDE DEF s, k
    <2>5. r \in Records /\ IsBox(r.box) /\ IsProper(r.box) /\ Within(r.box, s.box) /\ Within(r.box, w)
          /\ Same(r, s)
      BY <2>4, RecordIsBox DEF IsPieceOf, Records
    <2>6. IsBox(k)
      BY <1>1, <2>2, <2>3, CommonIs
    <2>7. Within(r.box, k)
      <3>1. /\ k[1] = Most(s.box[1], w[1]) /\ k[2] = Most(s.box[2], w[2])
            /\ k[3] = Least(s.box[3], w[3]) /\ k[4] = Least(s.box[4], w[4])
        BY <2>3 DEF Common
      <3> QED  BY <2>5, <3>1 DEF Within, Most, Least
    <2>8. Meets(r.box, box) /\ Squares(world, s, box) # {}
      <3>1. Meets(Ordered(r.box), box)
        BY DEF IsClicked
      <3>2. IsBox(Kept(world, s)) /\ Within(r.box, Kept(world, s))
        BY <2>6, <2>7 DEF k
      <3> QED  BY <2>5, <3>1, <3>2, SquaresMeet
    <2>9. IsQueryable(s.kind)
      BY <2>5 DEF IsClicked, Same
    <2>10. s \in Clickable(v, box)
      BY <2>2, <2>8, <2>9 DEF Clickable, world
    <2> QED  BY <2>5, <2>8, <2>10
  <1>4. CASE r \in Range(LargeObjects(world, rects))
    <2>1. PICK i \in DOMAIN rects : /\ r = rects[i] /\ ~IsShared(rects[i].kind)
                                    /\ IsLarge(world, rects[i])
      BY <1>1, <1>4, DrawnTells
    <2>2. r \in Range(Visible[v])
      BY <1>1, <2>1, DrawnTells
    <2>3. IsBox(r.box) /\ IsProper(r.box) /\ IsLarge(world, r)
      BY <1>1, <2>1
    <2>4. Kept(world, r) = r.box /\ Within(r.box, r.box)
      BY <2>3 DEF Kept, Within, IsBox
    <2>5. Meets(r.box, box) /\ Squares(world, r, box) # {}
      <3>1. Meets(Ordered(r.box), box)
        BY DEF IsClicked
      <3>2. IsBox(Kept(world, r)) /\ Within(r.box, Kept(world, r))
        BY <2>3, <2>4
      <3> QED  BY <2>3, <3>1, <3>2, SquaresMeet
    <2>6. r \in Clickable(v, box)
      BY <2>2, <2>5 DEF Clickable, IsClicked, world
    <2> QED  BY <2>4, <2>5, <2>6 DEF Same
  <1> QED  BY <1>2, <1>3, <1>4

\* What the source has there is among what was loaded, but in the strips beside a tile's edge.
LEMMA ThereIsLoaded ==
    ASSUME NEW v \in Exports, NEW box, IsBox(box), IsProper(box), NEW batch, IsLoaded(batch, v, box),
           NEW r \in Clickable(v, box),
           \/ IsLarge(World[v], r)
           \/ \E s \in Squares(World[v], r, box) : Settled(World[v], s[1], s[2])
    PROVE  \E p : FromBatch(p, batch) /\ IsClicked(p, box)
  <1> DEFINE world == World[v]  rects == Rects[v]  w == PyramidWorld(world)
  <1>1. /\ IsBox(w) /\ IsBox(world) /\ rects \in Seq(Records) /\ Visible[v] = Drawn(rects)
        /\ \A i \in DOMAIN rects : /\ rects[i] \in Records /\ IsBox(rects[i].box)
                                   /\ IsProper(rects[i].box)
    BY SourceIs
  <1>2. r \in Range(Visible[v]) /\ IsQueryable(r.kind) /\ Squares(world, r, box) # {}
    BY DEF Clickable
  <1> HIDE DEF world, rects, w
  <1>3. PICK i \in DOMAIN rects : r = rects[i] /\ ~IsShared(rects[i].kind)
    BY <1>1, <1>2, DrawnTells
  <1>4. r \in Records /\ IsBox(r.box)
    BY <1>1, <1>3
  <1>5. /\ IsBox(Kept(world, r))
        /\ \A x, y \in Int : Holds(Kept(world, r), x, y) => Holds(r.box, x, y)
    BY <1>1, <1>4, KeptIs DEF w
  <1>6. ASSUME NEW s \in Squares(world, r, box)
        PROVE  s[1] \in Int /\ s[2] \in Int /\ Holds(r.box, s[1], s[2]) /\ Holds(box, s[1], s[2])
    <2>1. s[1] \in Int /\ s[2] \in Int /\ Holds(Kept(world, r), s[1], s[2]) /\ Holds(box, s[1], s[2])
      BY <1>5, SquareMeans
    <2> QED  BY <1>5, <2>1
  <1>7. CASE IsLarge(world, r)
    <2>1. r \in Range(LargeObjects(world, rects))
      BY <1>1, <1>3, <1>7, DrawnTells
    <2>2. FromBatch(r, batch)
      BY <2>1, LoadedTells DEF world, rects
    <2>3. PICK s \in Squares(world, r, box) : TRUE
      BY <1>2
    <2>4. Meets(Ordered(r.box), box)
      BY <1>4, <1>6, HeldMeets
    <2> QED  BY <1>2, <2>2, <2>4 DEF IsClicked
  <1>8. CASE ~IsLarge(world, r)
    <2>1. PICK s \in Squares(world, r, box) : Settled(world, s[1], s[2])
      BY <1>8 DEF world
    <2> DEFINE x == s[1]  y == s[2]  R == At(r, x, y)  all == Small(world, rects, R)
               T == DetailSet(world, rects)
    <2>2. x \in Int /\ y \in Int /\ Holds(r.box, x, y) /\ Holds(box, x, y)
      BY <1>6
    <2>3. r \in R
      BY <1>4, <2>2 DEF At, Same
    <2>4. i \in all
      BY <1>3, <1>8, <2>3 DEF Small
    <2>5. IsFiniteSet(all) /\ Cardinality(all) \in Nat
      BY <1>1, DrawnIsBoth
    <2>6. Settled(world, x, y)
      BY <2>1
    <2> HIDE DEF x, y
    <2>7. PICK n : TruthfulCount(n, world, rects, x, y, r) /\ Covers(T, r, x, y, n)
      BY <1>1, <2>2, DetailCovers
    <2>8. n = Cardinality(all)
      BY <2>6, <2>7 DEF TruthfulCount
    <2> HIDE DEF all
    <2>9. n # 0
      BY <2>4, <2>5, <2>8, FS_EmptySet
    <2> HIDE DEF T
    <2>10. PICK t \in T : Holds(t.bbox, x, y)
      BY <2>7, <2>9 DEF Covers
    <2>11. IsTyped(t) /\ Shown(t, r, x, y) = n
      BY <2>7, <2>10 DEF Covers
    <2>12. Meets(Ordered(t.bbox), box)
      BY <2>2, <2>10, <2>11, HeldMeets DEF IsTyped
    <2>13. Where(t.rects, R) # {}
      <3>1. Cardinality(Where(t.rects, R)) = n
        BY <2>11 DEF Shown, Count
      <3> HIDE DEF R
      <3> QED  BY <2>9, <3>1, FS_EmptySet
    <2>14. PICK j \in DOMAIN t.rects : t.rects[j] \in R
      BY <2>13 DEF Where
    <2> DEFINE p == t.rects[j]
    <2>15. FromBatch(p, batch)
      BY <2>12, LoadedTells DEF T, world, rects
    <2>16. p \in Records /\ Same(p, r) /\ Holds(p.box, x, y)
      BY <2>14 DEF At
    <2>17. IsBox(p.box)
      BY <2>16, RecordIsBox DEF Records
    <2> HIDE DEF p
    <2>18. Meets(Ordered(p.box), box)
      BY <2>2, <2>16, <2>17, HeldMeets
    <2>19. IsClicked(p, box)
      BY <1>2, <2>16, <2>18 DEF IsClicked, Same
    <2> QED  BY <2>15, <2>19
  <1> QED  BY <1>7, <1>8

\* Whatever the grid, the splitting, the threshold of large objects and the cache: unless the files
\* changed under the open viewer, what a click finds is a piece of a queryable object that the
\* source has in the box around the click, and a click misses such an object only where a viewport
\* may miss it.
THEOREM QueryAlwaysTruthful == Spec => [](~rewritten => QueryTruthful)
  <1>1. ASSUME QueryInv, ~rewritten PROVE QueryTruthful
    <2> SUFFICES ASSUME NEW v \in Exports, Steady(v), answer.op = "query"
                 PROVE  LET x == answer.point[1]  y == answer.point[2]  t == Most(answer.point[3], 0)
                            box == <<x - t, y - t, x + t + 1, y + t + 1>>
                            shown(r) == \/ IsLarge(World[v], r)
                                        \/ \E s \in Squares(World[v], r, box) :
                                             Settled(World[v], s[1], s[2])
                        IN  /\ answer.ok
                            /\ (\E r \in Clickable(v, box) : shown(r)) => answer.hit.hit
                            /\ answer.hit.hit =>
                                 LET found == answer.hit.rec
                                 IN  /\ Meets(found.box, box)
                                     /\ \E r \in Clickable(v, box) :
                                          Same(found, r) /\ Within(found.box, r.box)
      BY Zenon DEF QueryTruthful
    <2> DEFINE x == answer.point[1]  y == answer.point[2]  t == Most(answer.point[3], 0)
               box == <<x - t, y - t, x + t + 1, y + t + 1>>
               asked == QueryBox(x, y, answer.point[3])
    <2>1. answer.point \in Points /\ Found(answer, v)
      BY <1>1 DEF QueryInv, Queried, LastQuery, Steady
    <2>2. x \in Int /\ y \in Int /\ answer.point[3] \in Int
      BY <2>1, ViewportAssumption
    <2>3. IsBox(asked) /\ IsProper(asked) /\ box = asked
      BY <2>2, QueryBoxIs
    <2>4. PICK batch : IsLoaded(batch, v, asked) /\ answer.hit = QueryPoint(batch, x, y, answer.point[3])
      BY <2>1 DEF Found
    <2> DEFINE m == Len(batch.tiles)
    <2>5. m \in Nat /\ IsBatch(batch, m)
      BY <2>4, LoadedTells
    <2> HIDE DEF m
    <2>6. /\ answer.hit.hit \in BOOLEAN
          /\ answer.hit.hit => IsClicked(answer.hit.rec, asked) /\ FromBatch(answer.hit.rec, batch)
          /\ \A r : FromBatch(r, batch) /\ IsClicked(r, asked) => answer.hit.hit
      BY <2>4, <2>5, QueryFinds
    <2> HIDE DEF box, asked, x, y, t
    <2>7. answer.ok
      BY <2>1 DEF Found
    <2>8. ASSUME NEW r \in Clickable(v, asked),
                 \/ IsLarge(World[v], r)
                 \/ \E s \in Squares(World[v], r, asked) : Settled(World[v], s[1], s[2])
          PROVE  answer.hit.hit
      <3>1. PICK p : FromBatch(p, batch) /\ IsClicked(p, asked)
        BY <2>3, <2>4, <2>8, ThereIsLoaded
      <3> QED  BY <2>6, <3>1
    <2>9. ASSUME answer.hit.hit
          PROVE  /\ Meets(answer.hit.rec.box, asked)
                 /\ \E r \in Clickable(v, asked) : /\ Same(answer.hit.rec, r)
                                                   /\ Within(answer.hit.rec.box, r.box)
      BY <2>3, <2>4, <2>6, <2>9, FoundIsThere
    <2> QED  BY <2>3, <2>7, <2>8, <2>9 DEF box, x, y, t
  <1>2. Init => QueryInv
    BY InitLoadInv DEF Init, QueryInv, Queried
  <1> QED  BY <1>1, <1>2, QueryInvHolds, PTL DEF Spec

\* QueryFaithful: a click finds something exactly where there is something to find.
QueryFaithful ==
    \A v \in Exports : Steady(v) /\ answer.op = "query" =>
        LET x == answer.point[1]  y == answer.point[2]  t == Most(answer.point[3], 0)
            box == <<x - t, y - t, x + t + 1, y + t + 1>>
        IN  answer.ok /\ (answer.hit.hit <=> Clickable(v, box) # {})

WorldsAreThere == \A v \in Exports : IsWorld(World[v])

\* Where the grid divides a world with area every object that can be clicked is in some tile.
LEMMA ExactGridShows ==
    ASSUME GridDivides, WorldsAreThere, NEW v \in Exports, NEW box, IsBox(box),
           NEW r \in Clickable(v, box)
    PROVE  \/ IsLarge(World[v], r)
           \/ \E s \in Squares(World[v], r, box) : Settled(World[v], s[1], s[2])
  <1> SUFFICES ASSUME ~IsLarge(World[v], r)
               PROVE  \E s \in Squares(World[v], r, box) : Settled(World[v], s[1], s[2])
    OBVIOUS
  <1> DEFINE world == World[v]  w == PyramidWorld(world)
  <1>1. /\ IsBox(w) /\ IsBox(world) /\ Rects[v] \in Seq(Records) /\ Visible[v] = Drawn(Rects[v])
        /\ \A i \in DOMAIN Rects[v] : Rects[v][i] \in Records /\ IsBox(Rects[v][i].box)
    BY SourceIs
  <1>2. PICK s \in Squares(world, r, box) : TRUE
    BY DEF Clickable
  <1>3. IsBox(r.box)
    <2> DEFINE rects == Rects[v]
    <2>1. r \in Range(Drawn(rects)) /\ rects \in Seq(Records)
      BY <1>1 DEF Clickable
    <2>2. \A i \in DOMAIN rects : IsBox(rects[i].box)
      BY <1>1
    <2> HIDE DEF rects, world, w
    <2>3. \E i \in DOMAIN rects : r = rects[i]
      BY <2>1, DrawnTells
    <2> QED  BY <2>2, <2>3
  <1>4. Kept(world, r) = Common(r.box, w) /\ IsBox(Common(r.box, w))
    <2>1. Kept(world, r) = Common(r.box, w)
      BY DEF Kept
    <2> HIDE DEF w
    <2> QED  BY <1>1, <1>3, <2>1, CommonIs
  <1>5. s[1] \in Int /\ s[2] \in Int /\ Holds(Kept(world, r), s[1], s[2])
    <2> HIDE DEF world
    <2> QED  BY <1>2, <1>4, SquareMeans
  <1>6. Holds(w, s[1], s[2])
    <2> HIDE DEF w, world
    <2> QED  BY <1>1, <1>3, <1>4, <1>5, CommonHolds
  <1>7. Holds(world, s[1], s[2])
    <2>1. IsWorld(world)
      BY DEF WorldsAreThere
    <2>2. /\ w[1] = world[1] /\ w[2] = world[2]
          /\ w[3] = world[1] + Width(world) /\ w[4] = world[2] + Height(world)
      BY DEF PyramidWorld
    <2> HIDE DEF w, world
    <2>3. w[3] = world[3] /\ w[4] = world[4]
      BY <2>1, <2>2 DEF IsWorld, IsBox, Width, Height, Most
    <2> QED  BY <1>6, <2>2, <2>3 DEF Holds
  <1>8. Settled(world, s[1], s[2])
    <2>1. Width(world) % GridColumns = 0 /\ Height(world) % GridRows = 0
      BY DEF GridDivides
    <2> HIDE DEF world
    <2> QED  BY <1>1, <1>5, <1>7, <2>1, ExactGridSettles
  <1> QED  BY <1>2, <1>8

\* On a grid that divides a world with area, a click finds something if and only if there is a
\* queryable object in the box around it.
THEOREM QueryFaithfulOnExactGrids ==
    ASSUME GridDivides, WorldsAreThere PROVE Spec => [](~rewritten => QueryFaithful)
  <1>1. ASSUME QueryInv, ~rewritten, QueryTruthful PROVE QueryFaithful
    <2> SUFFICES ASSUME NEW v \in Exports, Steady(v), answer.op = "query"
                 PROVE  LET x == answer.point[1]  y == answer.point[2]  t == Most(answer.point[3], 0)
                            box == <<x - t, y - t, x + t + 1, y + t + 1>>
                        IN  answer.ok /\ (answer.hit.hit <=> Clickable(v, box) # {})
      BY Zenon DEF QueryFaithful
    <2> DEFINE x == answer.point[1]  y == answer.point[2]  t == Most(answer.point[3], 0)
               box == <<x - t, y - t, x + t + 1, y + t + 1>>
    <2>1. answer.point \in Points
      BY <1>1 DEF QueryInv, Queried, LastQuery, Steady
    <2>2. x \in Int /\ y \in Int /\ answer.point[3] \in Int
      BY <2>1, ViewportAssumption
    <2>3. IsBox(box)
      BY <2>2, QueryBoxIs
    <2>4. /\ answer.ok
          /\ (\E r \in Clickable(v, box) :
                \/ IsLarge(World[v], r)
                \/ \E s \in Squares(World[v], r, box) : Settled(World[v], s[1], s[2]))
               => answer.hit.hit
          /\ answer.hit.hit => \E r \in Clickable(v, box) :
                                 Same(answer.hit.rec, r) /\ Within(answer.hit.rec.box, r.box)
      BY <1>1, Zenon DEF QueryTruthful
    <2> HIDE DEF box, x, y, t
    <2>5. ASSUME NEW r \in Clickable(v, box)
          PROVE  \/ IsLarge(World[v], r)
                 \/ \E s \in Squares(World[v], r, box) : Settled(World[v], s[1], s[2])
      BY <2>3, ExactGridShows
    <2>6. answer.hit.hit \in BOOLEAN
      <3>1. Found(answer, v)
        BY <1>1 DEF QueryInv, Queried, LastQuery, Steady
      <3>2. PICK batch : IsLoaded(batch, v, QueryBox(answer.point[1], answer.point[2], answer.point[3]))
                         /\ answer.hit = QueryPoint(batch, answer.point[1], answer.point[2], answer.point[3])
        BY <3>1 DEF Found
      <3>3. Len(batch.tiles) \in Nat /\ IsBatch(batch, Len(batch.tiles))
        BY <3>2, LoadedTells
      <3> QED  BY <3>2, <3>3, QueryFinds
    <2>7. answer.ok /\ (answer.hit.hit <=> Clickable(v, box) # {})
      BY <2>4, <2>5, <2>6
    <2> QED  BY <2>7 DEF box, x, y, t
  <1>2. Init => QueryInv
    BY InitLoadInv DEF Init, QueryInv, Queried
  <1> QED  BY <1>1, <1>2, QueryInvHolds, QueryAlwaysTruthful, PTL DEF Spec
==============================================================================
