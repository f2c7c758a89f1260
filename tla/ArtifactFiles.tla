---------------------------- MODULE ArtifactFiles ----------------------------
(***************************************************************************)
(* Full artifacts on disk.  The offline builder (tools/offline) writes a   *)
(* directory with a schema file and one file per shard, or a program calls *)
(* WriteArtifact (src/src/artifact/artifact_writer.cc) for one file with   *)
(* every shard; the index maps and validates the files and then reads rows *)
(* straight from the mappings (mmap_snapshot_backing.cc), while later      *)
(* builds go on, into other paths or the same.  Builders die and lose what *)
(* they wrote, and copies are damaged.  OfflineBuilder and ArtifactImage   *)
(* say what is in the files.                                               *)
(* Only the control flow of a load that matters for its files is here;     *)
(* module AsyncLoad has the rest.                                          *)
(***************************************************************************)
EXTENDS OfflineBuilder

CONSTANTS
  Keys,               \* the primary keys that are looked up
  Index,              \* the index's [shard_count, hash_seed, hash_version]
  RealtimeModes,      \* a subset of BOOLEAN: whether the index uses Kafka
  Invocations,        \* command lines of the offline builder, by name
  LibraryCalls,       \* calls of WriteArtifact [name, spec, output]
  Artifacts,          \* the Catalogue of these builds, below
  Paths,              \* paths of artifacts
  MaxBuilds,          \* bound on the builds that are run
  MaxDamages          \* bound on the files that a failing write or a bad copy
                      \* damages

ASSUME FilesAssumption ==
  /\ Index.shard_count \in Nat \ {0} /\ IsPowerOfTwo(Index.shard_count)
  /\ RealtimeModes \subseteq BOOLEAN
  /\ MaxBuilds \in Nat /\ MaxDamages \in Nat
  /\ DOMAIN Invocations \cap {c.name : c \in LibraryCalls} = {}

Shards == 0 .. Index.shard_count - 1

AllShards == -1

-----------------------------------------------------------------------------
(* What the builds write. *)

(* Every build has a name, where it writes, the specification that it      *)
(* gives to the writer, and its files in the order of their writing.       *)
LibraryBuilds ==
  {[name |-> c.name, output |-> c.output, spec |-> c.spec, parts |-> <<AllShards>>,
    given |-> <<>>] : c \in LibraryCalls}

(* main: a command line that is not refused. *)
CommandBuilds ==
  UNION {UNION {{[name |-> n, output |-> o.given["--output"], spec |-> spec,
                  parts |-> [i \in 1 .. spec.shard_count |-> i - 1],
                  given |-> o.given] : spec \in PlanBuild(o.given)} :
                o \in {p \in {ParseArgs(Invocations[n])} :
                         p.ok /\ ~p.help /\ ValidateRequired(p.given)}} :
         n \in DOMAIN Invocations}

WrittenFile(spec, p) ==
  IF p = AllShards THEN WriteArtifact(spec) ELSE WriteArtifactShard(spec, p)

(* What may be wrong with a file: it ends early, a section was never       *)
(* written out, or a field of the directory or of the header changed.      *)
Damage(kind, at, field) == [kind |-> kind, at |-> at, field |-> field]

NoField == ""

NoDamage == Damage("none", 0, NoField)

Cuts(file) ==
  LET sections == file.directory
      ends == {sections[i].offset + sections[i].length : i \in DOMAIN sections}
  IN {Damage("cut", n, NoField) :
        n \in {0, 1, kArtifactHeaderSize - 1, kArtifactHeaderSize, file.start - 1, file.start}
              \cup (ends \ {file.size}) \cup {n - 1 : n \in ends}}

Unwritten(file) ==
  {Damage("section", i, NoField) : i \in {j \in DOMAIN file.directory :
                                       file.directory[j].length > 0}}

Changes(file) ==
  {Damage("entry", i, f) : i \in DOMAIN file.directory, f \in DOMAIN file.directory[1]}
  \cup {Damage("header", 0, f) : f \in DOMAIN file.header}

(* Another value of a field. *)
Changed(value, field) ==
  CASE field = "type" -> IF value = "kSourceProgress" THEN "kStringPools"
                         ELSE "kSourceProgress"
    [] field \in {"checksum", "artifact_id"} -> Append(value, 0)
    [] field = "layout_fingerprint" -> [value EXCEPT !.row_slot_size = @ + 8]
    [] OTHER -> value + 1

Damaged(file, damage) ==
  LET section == file.directory[damage.at]
      at == section.offset - file.start + 1
  IN CASE damage.kind = "none" -> file
       [] damage.kind = "cut" -> [file EXCEPT !.size = damage.at]
       [] damage.kind = "section" -> [file EXCEPT !.contents[at] = @ + 1]
       [] damage.kind = "entry" ->
            [file EXCEPT !.directory[damage.at][damage.field] = Changed(@, damage.field)]
       [] damage.kind = "header" ->
            [file EXCEPT !.header[damage.field] = Changed(@, damage.field)]

(* A file that build n left as the run-th build of all. *)
File(n, run, part, damage) == [build |-> n, run |-> run, part |-> part, damage |-> damage]

(* Everything that a file may turn into. *)
Damages(file) == {NoDamage} \cup Cuts(file) \cup Unwritten(file) \cup Changes(file)

Read(layout, encoded) ==
  [i \in DOMAIN layout.fields |-> ReadValue(layout.fields[i], encoded)]

LoadOptions(kafka) ==
  [shard_count |-> Index.shard_count, hash_seed |-> Index.hash_seed,
   hash_version |-> Index.hash_version,
   source_progress_policy |-> IF kafka THEN "kRequired" ELSE "kOptional"]

(* What a load finds in a file that it validates: nothing if it refuses    *)
(* it, else the layout, the source progress, and what reading the fields   *)
(* of each row yields.                                                     *)
ViewOf(file, s, kafka) ==
  {[layout |-> b.artifact.layout, source_progress |-> b.artifact.source_progress,
    rows |-> [k \in Keys |-> {Read(b.artifact.layout, r) : r \in GetRow(b, k)}]] :
   b \in LoadShard(file, s, LoadOptions(kafka), "kept")}

(* The rows of each shard, as they were given to the writer. *)
WrittenRows(b) ==
  [s \in DOMAIN b.spec.shards |-> [k \in Keys |->
     {Read(b.spec.layout, r.encoded) :
        r \in {x \in ToSet(b.spec.shards[s]) : x.primary_key = k}}]]

(* The rows of a table that have a key, each as the cells of the fields.   *)
TableRows(table, name, layout, k) ==
  LET Cells(spec, row) == UNION {LocateArray(c, row) : c \in Column(table, spec.name)}
      Known(cells) == IF cells \subseteq {None} THEN Error("kNotFound")
                      ELSE Ok(CHOOSE v \in cells : TRUE)
  IN UNION {{[i \in DOMAIN layout.fields |-> Known(Cells(layout.fields[i].spec, row))] :
               row \in {j \in DOMAIN FlattenSeq(key.chunks) :
                          LocateArray(key, j) = {<<k>>}}} :
            key \in Column(table, name)}

(* What a lookup of a key must yield once a build is served: the row of    *)
(* the input, or of the specification given to WriteArtifact, or nothing.  *)
InputRows(b) ==
  [k \in Keys |->
     IF b.given = <<>> THEN UNION {WrittenRows(b)[s][k] : s \in DOMAIN b.spec.shards}
     ELSE UNION {TableRows(e.table, config.primary_key.name, b.spec.layout, k) :
                   e \in {f \in Inputs[b.given["--input"]] : f.parquet /\ ~f.hidden},
                   config \in ParseSchemaFile(SchemaFiles[b.given["--schema"]])}]

(* What the schema file says that a build writes; WriteArtifact writes     *)
(* none.                                                                   *)
Described(b) ==
  IF b.given = <<>> THEN {}
  ELSE {[fingerprint |-> BuildFingerprint(Compile(ToSet(c.fields))), top |-> c.top] :
          c \in ParseSchemaFile(b.spec.schema)}

(* The files of a build by part, each unless the writer refuses it, and    *)
(* what loads find in them, whole or damaged.                              *)
WrittenFiles(b) ==
  [p \in ToSet(b.parts) |->
     {[image |-> f,
       views |-> [damage \in Damages(f) |-> [s \in Shards |->
                    [kafka \in RealtimeModes |->
                       ViewOf(Damaged(f, damage), s, kafka)]]]] :
      f \in WrittenFile(b.spec, p)}]

(* The builds by name, with what comes of each. *)
Catalogue ==
  LET all == LibraryBuilds \cup CommandBuilds
      Of(b) == [output |-> b.output, spec |-> b.spec, parts |-> b.parts,
                files |-> WrittenFiles(b), written |-> WrittenRows(b),
                input |-> InputRows(b), described |-> Described(b)]
  IN [n \in {b.name : b \in all} |-> Of(CHOOSE b \in all : b.name = n)]

ASSUME ArtifactsAssumption == Artifacts = Catalogue

Images(n, p) == {w.image : w \in Artifacts[n].files[p]}

(* Every build has a path to write to and writes each of its files once. *)
ASSUME BuildsAssumption ==
  \A n \in DOMAIN Artifacts :
    LET parts == Artifacts[n].parts IN
    /\ Artifacts[n].output \in Paths
    /\ parts \in Seq(Int) /\ parts # <<>>
    /\ \A i, j \in 1 .. Len(parts) : parts[i] = parts[j] => i = j

(* What FileOf lays out: the directory has every section, the sections lie *)
(* behind it with the checksums that the directory states, and nothing     *)
(* lies behind the last one.                                               *)
ASSUME ImagesAssumption ==
  \A n \in DOMAIN Artifacts : \A p \in ToSet(Artifacts[n].parts) :
    \A f \in Images(n, p) :
      /\ f.size \in Nat \ {0}
      /\ f.start \in Nat /\ kArtifactHeaderSize < f.start /\ f.start < f.size
      /\ f.contents \in Seq(Int) /\ f.size = f.start + Len(f.contents)
      /\ f.directory \in Seq(ToSet(f.directory))
      /\ f.header.section_count = Len(f.directory)
      /\ \A i \in 1 .. Len(f.directory) :
           /\ f.directory[i].offset \in Nat /\ f.directory[i].length \in Nat
           /\ f.start <= f.directory[i].offset
           /\ f.directory[i].offset + f.directory[i].length <= f.size
      /\ \E i \in 1 .. Len(f.directory) :
           /\ f.directory[i].offset \in Nat /\ f.directory[i].length \in Nat
           /\ f.directory[i].offset + f.directory[i].length = f.size
      /\ ChecksumsMatch(f, f.directory)

-----------------------------------------------------------------------------
(* What a catalogue has to have so that the files can be relied on, apart  *)
(* from the order in which they are written, damaged and loaded.           *)

(* A load that accepts a file that is whole, or has a changed field in its *)
(* header or directory, reads back what was given to the writer.           *)
ReadsBack ==
  \A n \in DOMAIN Artifacts : \A p \in ToSet(Artifacts[n].parts) :
    \A w \in Artifacts[n].files[p] : \A damage \in {NoDamage} \cup Changes(w.image) :
      \A s \in Shards, kafka \in RealtimeModes : \A v \in w.views[damage][s][kafka] :
        /\ v.layout = Artifacts[n].spec.layout
        /\ kafka => v.source_progress = Artifacts[n].spec.source_progress
        /\ v.rows = Artifacts[n].written[s]

(* The schema file that a build writes is read as the schema and the       *)
(* configuration of the build.  Not so for every build: a name with a '#', *)
(* which the input may quote, is written without quotes.                   *)
SchemaReadsBack ==
  \A n \in DOMAIN Artifacts : Artifacts[n].parts # <<AllShards>> =>
    LET spec == Artifacts[n].spec IN
    \E c \in Artifacts[n].described :
      /\ c.fingerprint = BuildFingerprint(spec.layout)
      /\ c.top["schema_version"] = spec.schema_version
      /\ c.top["shard_count"] = spec.shard_count
      /\ c.top["hash_seed"] = spec.hash_seed
      /\ c.top["hash_version"] = spec.hash_version

(* The writer is given the input, each row in the shard of its key.        *)
RoutesInput ==
  \A n \in DOMAIN Artifacts : \A k \in Keys :
    LET written == Artifacts[n].written
        s == ShardFor(Artifacts[n].spec, k)
    IN /\ s \in 0 .. Artifacts[n].spec.shard_count - 1
       /\ Artifacts[n].input[k] = written[s][k]

-----------------------------------------------------------------------------

VARIABLES
  realtime,  \* whether the index uses Kafka; never changes
  dirs,      \* the paths that are directories
  schemas,   \* schemas[d]: the schema file in directory d, or None
  files,     \* files[d]: the files of directory d by shard, or d itself
  builds,    \* builds begun so far; the last one is the builder's
  builder,   \* [pc, name, output, parts], the parts that are left to write
  finished,  \* history: finished[d]: the build that ended well in d, if no
             \* other has begun there since, or None
  damages,   \* files damaged so far
  load,      \* [pc, path, shard, backings]
  serving    \* serving[s]: the mapped file behind shard s, or None

buildVars == <<dirs, schemas, files, builds, builder, finished>>

vars == <<realtime, buildVars, damages, load, serving>>

NoBuilder == [pc |-> "idle", name |-> None, output |-> None, parts |-> <<>>]

NoLoad == [pc |-> "idle", path |-> None, shard |-> 0, backings |-> [s \in Shards |-> None]]

Init ==
  /\ realtime \in RealtimeModes
  /\ dirs = {}
  /\ schemas = [d \in Paths |-> None]
  /\ files = [d \in Paths |-> <<>>]
  /\ builds = 0
  /\ builder = NoBuilder
  /\ finished = [d \in Paths |-> None]
  /\ damages = 0
  /\ load = NoLoad
  /\ serving = [s \in Shards |-> None]

-----------------------------------------------------------------------------
(* The builders.  A command line that is refused writes nothing; every     *)
(* other one writes into its output path only.                             *)

Here == builder.output

Part == Head(builder.parts)

(* The program ends with an error, whatever it has written. *)
Exit == builder' = NoBuilder /\ UNCHANGED finished

(* Everything has been read before the output is touched; nobody looks     *)
(* whether an earlier build has written there or an index reads from it.   *)
BeginBuild(n) ==
  /\ builder.pc = "idle"
  /\ builds < MaxBuilds
  /\ builds' = builds + 1
  /\ \E b \in {Artifacts[n]} :
       /\ builder' = [pc |-> IF b.parts = <<AllShards>> THEN "open" ELSE "make_dirs",
                      name |-> n, output |-> b.output, parts |-> b.parts]
       /\ finished' = [finished EXCEPT ![b.output] = None]
  /\ UNCHANGED <<realtime, dirs, schemas, files, damages, load, serving>>

(* MakeDirs takes a directory that is already there, and no file. *)
MakeDirs ==
  /\ builder.pc = "make_dirs"
  /\ \/ /\ AllShards \notin DOMAIN files[Here]
        /\ dirs' = dirs \cup {Here}
        /\ builder' = [builder EXCEPT !.pc = "write_schema"]
        /\ UNCHANGED finished
     \/ Exit /\ UNCHANGED dirs
  /\ UNCHANGED <<realtime, schemas, files, builds, damages, load, serving>>

SetSchema(whole) ==
  schemas' = [schemas EXCEPT ![Here] = [build |-> builder.name, run |-> builds,
                                        whole |-> whole]]

(* WriteSchemaFile; what is lost when the stream is closed goes unnoticed. *)
WriteSchema ==
  /\ builder.pc = "write_schema"
  /\ \/ /\ builder' = [builder EXCEPT !.pc = "open"]
        /\ \E whole \in BOOLEAN : SetSchema(whole)
        /\ UNCHANGED finished
     \/ Exit /\ (SetSchema(FALSE) \/ UNCHANGED schemas)
  /\ UNCHANGED <<realtime, dirs, files, builds, damages, load, serving>>

SetFile(damage) ==
  files' = [files EXCEPT ![Here] =
              [p \in DOMAIN files[Here] \cup {Part} |->
                 IF p = Part THEN File(builder.name, builds, Part, damage)
                 ELSE files[Here][p]]]

ToWrite == Images(builder.name, Part)

(* What others see of a file while it grows: it is empty, or lacks its     *)
(* last byte.                                                              *)
Growing(f) == {Damage("cut", n, NoField) : n \in {0, f.size - 1}}

(* std::ofstream(path, trunc): once its contents are complete in memory,   *)
(* the file is written in place, over what an earlier build left there.    *)
(* It may not open, as it does not where a directory has its path.         *)
OpenFile ==
  /\ builder.pc = "open"
  /\ \/ /\ Part = AllShards => Here \notin dirs
        /\ \E f \in ToWrite : \E damage \in Growing(f) : SetFile(damage)
        /\ builder' = [builder EXCEPT !.pc = "write"]
        /\ UNCHANGED finished
     \/ Exit /\ UNCHANGED files
  /\ UNCHANGED <<realtime, dirs, schemas, builds, damages, load, serving>>

(* Mutant: the loop over the shards ends before the last one. *)
FileWrittenTooSoon ==
  IF Len(builder.parts) <= 2
  THEN /\ builder' = NoBuilder
       /\ finished' = [finished EXCEPT ![Here] = [build |-> builder.name, run |-> builds]]
  ELSE /\ builder' = [builder EXCEPT !.pc = "open", !.parts = Tail(@)]
       /\ UNCHANGED finished

(* The next file, or the program ends with 0. *)
FileWritten ==
  IF Len(builder.parts) = 1
  THEN /\ builder' = NoBuilder
       /\ finished' = [finished EXCEPT ![Here] = [build |-> builder.name, run |-> builds]]
  ELSE /\ builder' = [builder EXCEPT !.pc = "open", !.parts = Tail(@)]
       /\ UNCHANGED finished

WriteFile ==
  /\ builder.pc = "write"
  /\ SetFile(NoDamage)
  /\ FileWritten
  /\ UNCHANGED <<realtime, dirs, schemas, builds, damages, load, serving>>

(* The builder or its machine dies in the middle or the write fails; or    *)
(* the write of the last bytes, when the stream is closed, fails unnoticed. *)
WriteFileFails ==
  /\ builder.pc = "write"
  /\ damages < MaxDamages
  /\ damages' = damages + 1
  /\ \E f \in ToWrite :
       \/ (\E damage \in Cuts(f) \cup Unwritten(f) : SetFile(damage)) /\ Exit
       \/ (\E damage \in Cuts(f) : SetFile(damage)) /\ FileWritten
  /\ UNCHANGED <<realtime, dirs, schemas, builds, load, serving>>

-----------------------------------------------------------------------------
(* Loading *)

(* ResolveArtifactFilePath: a regular file has every shard. *)
ResolveArtifactFilePath(d, s) == IF AllShards \in DOMAIN files[d] THEN AllShards ELSE s

View(file, s) ==
  UNION {w.views[file.damage][s][realtime] : w \in Artifacts[file.build].files[file.part]}

BeginLoad(d) ==
  /\ load.pc = "idle"
  /\ load' = [NoLoad EXCEPT !.pc = "loading", !.path = d]
  /\ UNCHANGED <<realtime, buildVars, damages, serving>>

(* A mapping names its file and remembers what was validated. *)
Mappings(d, s) ==
  {[path |-> d, name |-> name, file |-> files[d][name]] :
     name \in {ResolveArtifactFilePath(d, s)} \cap DOMAIN files[d]}

MapShard ==
  /\ load.pc = "loading"
  /\ \E m \in Mappings(load.path, load.shard) :
       /\ View(m.file, load.shard) # {}
       /\ load' = [load EXCEPT
            !.backings[load.shard] = m,
            !.shard = (load.shard + 1) % Index.shard_count,
            !.pc = IF load.shard + 1 = Index.shard_count THEN "progress" ELSE "loading"]
  /\ UNCHANGED <<realtime, buildVars, damages, serving>>

LoadFails ==
  /\ load.pc = "loading"
  /\ \A m \in Mappings(load.path, load.shard) : View(m.file, load.shard) = {}
  /\ load' = NoLoad
  /\ UNCHANGED <<realtime, buildVars, damages, serving>>

(* With Kafka an empty source progress of shard 0 fails the load. *)
CheckProgress ==
  /\ load.pc = "progress"
  /\ load' = IF realtime /\ \E v \in View(load.backings[0].file, 0) :
                              v.source_progress = <<>>
             THEN NoLoad ELSE [load EXCEPT !.pc = "cutover"]
  /\ UNCHANGED <<realtime, buildVars, damages, serving>>

(* Shards are published one after the other. *)
PublishShard ==
  /\ load.pc = "cutover"
  /\ serving' = [serving EXCEPT ![load.shard] = load.backings[load.shard]]
  /\ load' = IF load.shard + 1 = Index.shard_count THEN NoLoad
             ELSE [load EXCEPT !.shard = @ + 1]
  /\ UNCHANGED <<realtime, buildVars, damages>>

(* A file that no load has mapped is damaged, as copies may be, which are  *)
(* made when the build has ended.                                          *)
DamageFile(d, p) ==
  LET mapped == {serving[s] : s \in Shards} \cup {load.backings[s] : s \in Shards} IN
  /\ damages < MaxDamages
  /\ builder.pc = "idle"
  /\ p \in DOMAIN files[d] /\ files[d][p].damage = NoDamage
  /\ ~\E m \in mapped : m # None /\ m.path = d /\ m.name = p
  /\ \E f \in Images(files[d][p].build, p) :
       \E damage \in Changes(f) \cup Unwritten(f) :
         files' = [files EXCEPT ![d][p].damage = damage]
  /\ damages' = damages + 1
  /\ UNCHANGED <<realtime, dirs, schemas, builds, builder, finished, load, serving>>

Next ==
  \/ \E n \in DOMAIN Artifacts : BeginBuild(n)
  \/ MakeDirs \/ WriteSchema \/ OpenFile \/ WriteFile \/ WriteFileFails
  \/ \E d \in Paths : BeginLoad(d)
  \/ MapShard \/ LoadFails \/ CheckProgress \/ PublishShard
  \/ \E d \in Paths : \E p \in DOMAIN files[d] : DamageFile(d, p)

Spec == Init /\ [][Next]_vars

-----------------------------------------------------------------------------
(* Reading.  The mapping is private and never written, so that its pages   *)
(* are the pages of the file as it is now.                                 *)

Mapped(m) == files[m.path][m.name]

(* Mutant: the index leaves its hash version out when it routes a key. *)
GetUnversioned(k) ==
  LET s == ShardFor([Index EXCEPT !.hash_version = 0], k)
  IN UNION {v.rows[k] : v \in View(Mapped(serving[s]), s)}

Get(k) ==
  LET s == ShardFor(Index, k)
  IN UNION {v.rows[k] : v \in View(Mapped(serving[s]), s)}

-----------------------------------------------------------------------------
(* Properties *)

(* The file behind shard s is of the build run whose file was validated:   *)
(* no later run has opened it, which would truncate it under the mapping.  *)
NotReopened(s) == Mapped(serving[s]).run = serving[s].file.run

(* As long as no later build opens its file, a shard that serves lookups   *)
(* reads from the very contents that were validated, also if it was loaded *)
(* while the build was still writing, wherever builders die and whatever   *)
(* other builds do (WriteArtifactWithShards writes in place, MapFile maps  *)
(* the file).                                                              *)
LookupSeesWholeRows ==
  \A s \in Shards :
    serving[s] # None /\ NotReopened(s) => Mapped(serving[s]) = serving[s].file

(* A file that was cut, lost sections or changed in a field is refused, or *)
(* the load gets from it the layout and the rows that were written, and    *)
(* the source progress if it needs one (ParseArtifact, LoadShard).         *)
AcceptedFileIsAsWritten ==
  \A s \in Shards :
    load.backings[s] # None =>
      LET file == load.backings[s].file
          build == Artifacts[file.build]
      IN \A v \in View(file, s) :
           /\ v.layout = build.spec.layout
           /\ realtime => v.source_progress = build.spec.source_progress
           /\ v.rows = build.written[s]

(* Damage that makes a file state another routing of keys than its build   *)
(* used; the header has no checksum.                                       *)
RoutingDamage ==
  {Damage("header", 0, field) : field \in {"shard_count", "hash_seed", "hash_version"}}

(* Every shard serves from a file of one build run, which no later build   *)
(* has opened and whose header states the routing of the build; and the    *)
(* index has a hash version, without which it does not compare it.         *)
ServesOneRun ==
  \A s \in Shards :
    /\ serving[s] # None /\ NotReopened(s)
    /\ serving[s].file.build = serving[0].file.build
    /\ serving[s].file.run = serving[0].file.run
    /\ serving[s].file.damage \notin RoutingDamage
    /\ Index.hash_version = 0 => Artifacts[serving[s].file.build].spec.hash_version = 0

(* Then a lookup yields, field by field, the row that was in the builder's *)
(* input, and nothing for other keys: builder and index encode and route   *)
(* alike, or the load was refused (ReadParquetFileIntoSpec,                *)
(* BuildArtifactDirectory, ParseArtifact, EncodedRowAt).                   *)
LoadedBuildIsServed ==
  ServesOneRun =>
    \A k \in Keys : Get(k) = Artifacts[serving[0].file.build].input[k]

(* Path d has the file of part p, the schema file, or all files, of the    *)
(* run-th build, whose name is n.                                          *)
HasFile(d, p, n, run) ==
  p \in DOMAIN files[d] /\ files[d][p].build = n /\ files[d][p].run = run

HasSchema(d, n, run) ==
  \E whole \in BOOLEAN : schemas[d] = [build |-> n, run |-> run, whole |-> whole]

HoldsRun(d, n, run) ==
  LET parts == Artifacts[n].parts
  IN /\ \A p \in ToSet(parts) : HasFile(d, p, n, run)
     /\ parts # <<AllShards>> => HasSchema(d, n, run)

(* When a build has ended with success and none has begun there since, its *)
(* path has all its files and none of an earlier build in their place, and *)
(* the schema file is its own: what a load maps is of one build, although  *)
(* earlier builds may have died there between any two files                *)
(* (BuildArtifactDirectory).                                               *)
FinishedBuildIsWhole ==
  \A d \in Paths :
    finished[d] # None => HoldsRun(d, finished[d].build, finished[d].run)

(* What WriteArtifact wrote and nothing has damaged is accepted by an      *)
(* index with the configuration of the artifact, however std::sort orders  *)
(* sections that begin at the same offset (ParseArtifact).                 *)
WrittenArtifactIsAccepted ==
  \A d \in Paths : \A p \in DOMAIN files[d] :
    files[d][p].damage = NoDamage =>
      LET build == Artifacts[files[d][p].build]
      IN \A w \in build.files[p] : \A ties \in TieOrders(Len(w.image.directory)) :
           ParseArtifact(w.image, [source_progress_policy |-> "kOptional"] @@ build.spec,
                         ties) # {}

===============================================================================
