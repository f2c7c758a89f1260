-------------------------- MODULE ArtifactFilesProofs --------------------------
(***************************************************************************)
(* Proofs about artifacts on disk: no file changes under a mapping unless  *)
(* a later build opens it, a build that ends well leaves all its files,    *)
(* and what a load accepts is what was given to the writer.  What the      *)
(* provers cannot compute, how the bytes of a whole file are read back, is *)
(* a hypothesis of the theorems that need it; TLC evaluates these on the   *)
(* builds of MCArtifactFiles.                                              *)
(***************************************************************************)
EXTENDS ArtifactFiles, TLAPS

-----------------------------------------------------------------------------
(* Files that ended early or lost a section are refused, and so is one    *)
(* that is being written.                                                  *)

(* The parts of a file's image. *)
IsImage(f) ==
  f = [header |-> f.header, directory |-> f.directory, start |-> f.start,
       contents |-> f.contents, size |-> f.size]

(* The parser refuses a file that ends before its header or before one of  *)
(* its sections does.                                                      *)
LEMMA ShortIsRefused ==
  ASSUME NEW f, IsImage(f), NEW options, NEW ties, NEW size \in Nat,
         f.directory \in Seq(ToSet(f.directory)),
         f.header.section_count = Len(f.directory),
         \/ size = 0
         \/ \E i \in 1 .. Len(f.directory) :
              /\ f.directory[i].offset \in Nat /\ f.directory[i].length \in Nat
              /\ f.directory[i].offset + f.directory[i].length > size
  PROVE  ParseArtifact([f EXCEPT !.size = size], options, ties) = {}
<1> DEFINE cut == [f EXCEPT !.size = size]
           sections == SubSeq(f.directory, 1, Len(f.directory))
<1>1. cut.size = size /\ cut.directory = f.directory /\ cut.header = f.header
  BY DEF IsImage
<1>2. sections = f.directory
  OBVIOUS
<1> HIDE DEF cut
<1>3. CASE size = 0
  <2>1. ~ValidHeader(cut, options)
    BY <1>1, <1>3 DEF ValidHeader, kArtifactHeaderSize
  <2>2. QED
    BY <2>1 DEF ParseArtifact, cut
<1>4. CASE size # 0
  <2>1. PICK i \in 1 .. Len(f.directory) :
              /\ f.directory[i].offset \in Nat /\ f.directory[i].length \in Nat
              /\ f.directory[i].offset + f.directory[i].length > size
    BY <1>4
  <2>2. i \in DOMAIN f.directory
    BY <2>1
  <2>3. ~CheckBounds(cut, f.directory[i].offset, f.directory[i].length)
    BY <1>1, <2>1 DEF CheckBounds
  <2>4. ~ValidSections(cut, f.directory, ties)
    BY <2>2, <2>3 DEF ValidSections
  <2>5. SubSeq(cut.directory, 1, cut.header.section_count) = f.directory
    BY <1>1, <1>2
  <2>6. ~ValidSections(cut, SubSeq(cut.directory, 1, cut.header.section_count), ties)
    BY <2>4, <2>5
  <2>7. ParseArtifact(cut, options, ties) = {}
    BY <2>6 DEF ParseArtifact
  <2>8. QED
    BY <2>7 DEF cut
<1>5. QED
  BY <1>3, <1>4

LEMMA RefusedHasNoView ==
  ASSUME NEW f, NEW s, NEW kafka,
         \A options, ties : ParseArtifact(f, options, ties) = {}
  PROVE  ViewOf(f, s, kafka) = {}
<1>1. LoadShard(f, s, LoadOptions(kafka), "kept") = {}
  BY DEF LoadShard
<1>2. QED
  BY <1>1 DEF ViewOf

(* What the catalogue has of a part of a build. *)
LEMMA CatalogueEntry ==
  ASSUME NEW n \in DOMAIN Artifacts, NEW p \in ToSet(Artifacts[n].parts),
         NEW w \in Artifacts[n].files[p]
  PROVE  /\ IsImage(w.image)
         /\ \A v \in Artifacts[n].files[p] : v = w
         /\ \A damage \in Damages(w.image), s \in Shards, kafka \in RealtimeModes :
              w.views[damage][s][kafka] = ViewOf(Damaged(w.image, damage), s, kafka)
<1>1. PICK b : Artifacts[n].parts = b.parts /\ Artifacts[n].files = WrittenFiles(b)
  BY ArtifactsAssumption DEF Catalogue
<1>2. PICK spec, selected : WrittenFile(b.spec, p) = WriteArtifactWithShards(spec, selected)
  BY DEF WrittenFile, WriteArtifact, WriteArtifactShard
<1>3. \A f, g \in WrittenFile(b.spec, p) : f = g /\ IsImage(f)
  <2>1. PICK sections :
          \A f \in WrittenFile(b.spec, p) : f = FileOf(spec, sections)
    BY <1>2 DEF WriteArtifactWithShards
  <2>2. IsImage(FileOf(spec, sections))
    BY DEF FileOf, IsImage
  <2>3. QED
    BY <2>1, <2>2
<1> DEFINE Views(f) == [damage \in Damages(f) |-> [s \in Shards |->
                          [kafka \in RealtimeModes |->
                             ViewOf(Damaged(f, damage), s, kafka)]]]
<1>4. Artifacts[n].files[p] = {[image |-> f, views |-> Views(f)] : f \in WrittenFile(b.spec, p)}
  BY <1>1 DEF WrittenFiles
<1> HIDE DEF Views
<1>5. PICK f \in WrittenFile(b.spec, p) : w = [image |-> f, views |-> Views(f)]
  BY <1>4
<1>6. \A v \in Artifacts[n].files[p] : v = w
  BY <1>3, <1>4, <1>5
<1>7. w.image = f /\ w.views = Views(f) /\ IsImage(f)
  BY <1>3, <1>5
<1>8. \A damage \in Damages(f), s \in Shards, kafka \in RealtimeModes :
        Views(f)[damage][s][kafka] = ViewOf(Damaged(f, damage), s, kafka)
  BY DEF Views
<1>9. QED
  BY <1>6, <1>7, <1>8

(* What is known of the image of a part of a build. *)
LEMMA ImageFacts ==
  ASSUME NEW n \in DOMAIN Artifacts, NEW p \in ToSet(Artifacts[n].parts),
         NEW w \in Artifacts[n].files[p]
  PROVE  LET f == w.image IN
         /\ IsImage(f)
         /\ f.size \in Nat \ {0}
         /\ f.start \in Nat /\ kArtifactHeaderSize < f.start /\ f.start < f.size
         /\ f.contents \in Seq(Int) /\ f.size = f.start + Len(f.contents)
         /\ f.directory \in Seq(ToSet(f.directory))
         /\ f.header.section_count = Len(f.directory)
         /\ \A i \in 1 .. Len(f.directory) :
              /\ f.directory[i].offset \in Nat /\ f.directory[i].length \in Nat
              /\ f.start <= f.directory[i].offset
              /\ f.directory[i].offset + f.directory[i].length <= f.size
         /\ \E i \in 1 .. Len(f.directory) :
              f.directory[i].offset + f.directory[i].length = f.size
         /\ ChecksumsMatch(f, f.directory)
<1>1. w.image \in Images(n, p)
  BY DEF Images
<1>2. IsImage(w.image)
  BY CatalogueEntry
<1>3. PICK f : f = w.image /\ f \in Images(n, p) /\ IsImage(f)
  BY <1>1, <1>2
<1>4. /\ f.size \in Nat \ {0}
      /\ f.start \in Nat /\ kArtifactHeaderSize < f.start /\ f.start < f.size
      /\ f.contents \in Seq(Int) /\ f.size = f.start + Len(f.contents)
  BY <1>3, ImagesAssumption
<1>5. /\ f.directory \in Seq(ToSet(f.directory))
      /\ f.header.section_count = Len(f.directory)
      /\ ChecksumsMatch(f, f.directory)
  BY <1>3, ImagesAssumption
<1>6. \A i \in 1 .. Len(f.directory) :
        /\ f.directory[i].offset \in Nat /\ f.directory[i].length \in Nat
        /\ f.start <= f.directory[i].offset
        /\ f.directory[i].offset + f.directory[i].length <= f.size
  BY <1>3, ImagesAssumption
<1>7. \E i \in 1 .. Len(f.directory) :
        f.directory[i].offset + f.directory[i].length = f.size
  BY <1>3, ImagesAssumption
<1>8. QED
  BY <1>3, <1>4, <1>5, <1>6, <1>7

LEMMA WithinFile ==
  ASSUME NEW offset \in Nat, NEW length \in Nat, NEW start \in Nat, NEW size \in Nat,
         start <= offset, offset + length <= size
  PROVE  /\ offset + length \in Nat /\ start <= offset + length
         /\ length > 0 =>
              /\ offset - start + 1 \in 1 .. size - start
              /\ offset - start + 1 + length - 1 \in offset - start + 1 .. size - start
OBVIOUS

(* A file that ends early is refused. *)
LEMMA CutIsRefused ==
  ASSUME NEW n \in DOMAIN Artifacts, NEW p \in ToSet(Artifacts[n].parts),
         NEW w \in Artifacts[n].files[p], NEW damage \in Cuts(w.image),
         NEW s \in Shards, NEW kafka \in RealtimeModes
  PROVE  w.views[damage][s][kafka] = {}
<1>0. PICK f : f = w.image
  OBVIOUS
<1>1. /\ IsImage(f) /\ f.size \in Nat /\ f.start \in Nat
      /\ kArtifactHeaderSize < f.start /\ f.start < f.size
      /\ f.directory \in Seq(ToSet(f.directory)) /\ f.header.section_count = Len(f.directory)
  BY <1>0, ImageFacts
<1>2. /\ \A i \in 1 .. Len(f.directory) :
           /\ f.directory[i].offset \in Nat /\ f.directory[i].length \in Nat
           /\ f.start <= f.directory[i].offset
           /\ f.directory[i].offset + f.directory[i].length <= f.size
      /\ DOMAIN f.directory = 1 .. Len(f.directory)
  BY <1>0, <1>1, ImageFacts
<1>3. PICK i \in 1 .. Len(f.directory) :
        f.directory[i].offset + f.directory[i].length = f.size
  BY <1>0, ImageFacts
<1> DEFINE ends == {f.directory[j].offset + f.directory[j].length : j \in DOMAIN f.directory}
           sizes == {0, 1, kArtifactHeaderSize - 1, kArtifactHeaderSize, f.start - 1, f.start}
                      \cup (ends \ {f.size}) \cup {m - 1 : m \in ends}
<1>4. ASSUME NEW m \in ends PROVE m \in Nat /\ f.start <= m /\ m <= f.size
  <2>1. PICK j \in 1 .. Len(f.directory) : m = f.directory[j].offset + f.directory[j].length
    BY <1>2
  <2>2. /\ f.directory[j].offset \in Nat /\ f.directory[j].length \in Nat
        /\ f.start <= f.directory[j].offset
        /\ f.directory[j].offset + f.directory[j].length <= f.size
    BY <1>2
  <2>3. QED
    BY <1>1, <2>1, <2>2, WithinFile
<1>5. PICK size \in sizes : damage = Damage("cut", size, NoField)
  BY <1>0 DEF Cuts
<1> HIDE DEF ends
<1>6. size \in Nat /\ size < f.size
  <2>1. CASE size \in {0, 1, kArtifactHeaderSize - 1, kArtifactHeaderSize, f.start - 1, f.start}
    BY <1>1, <2>1 DEF kArtifactHeaderSize
  <2>2. CASE size \in ends \ {f.size}
    BY <1>1, <1>4, <2>2
  <2>3. CASE \E m \in ends : size = m - 1
    <3>1. PICK m \in ends : size = m - 1
      BY <2>3
    <3>2. m \in Nat /\ f.start <= m /\ m <= f.size
      BY <1>4, <3>1
    <3>3. QED
      BY <1>1, <3>1, <3>2 DEF kArtifactHeaderSize
  <2>4. QED
    BY <1>5, <2>1, <2>2, <2>3
<1>7. Damaged(f, damage) = [f EXCEPT !.size = size]
  BY <1>5 DEF Damaged, Damage
<1>8. ASSUME NEW options, NEW ties
      PROVE  ParseArtifact([f EXCEPT !.size = size], options, ties) = {}
  <2>1. /\ f.directory[i].offset \in Nat /\ f.directory[i].length \in Nat
        /\ f.directory[i].offset + f.directory[i].length > size
    BY <1>1, <1>2, <1>3, <1>6
  <2>2. QED
    BY <1>1, <1>6, <2>1, ShortIsRefused
<1>9. ViewOf(Damaged(f, damage), s, kafka) = {}
  BY <1>7, <1>8, RefusedHasNoView
<1>10. QED
  BY <1>0, <1>9, CatalogueEntry DEF Damages

LEMMA FirstOfSubSeq ==
  ASSUME NEW bytes \in Seq(Int), NEW i \in 1 .. Len(bytes), NEW j \in i .. Len(bytes)
  PROVE  SubSeq(bytes, i, j)[1] = bytes[i] /\ bytes[i] \in Int
OBVIOUS

LEMMA ChangedByte ==
  ASSUME NEW bytes \in Seq(Int), NEW i \in 1 .. Len(bytes)
  PROVE  /\ [bytes EXCEPT ![i] = @ + 1] \in Seq(Int)
         /\ Len([bytes EXCEPT ![i] = @ + 1]) = Len(bytes)
         /\ [bytes EXCEPT ![i] = @ + 1][i] = bytes[i] + 1
OBVIOUS

LEMMA SmallerOfTwo ==
  ASSUME NEW i \in Nat, NEW j \in Nat, i <= j
  PROVE  Min({i, j}) = i
BY DEF Min

(* So is a file with a section that was not written out: its first byte    *)
(* differs, and with it the checksum.                                      *)
LEMMA UnwrittenIsRefused ==
  ASSUME NEW n \in DOMAIN Artifacts, NEW p \in ToSet(Artifacts[n].parts),
         NEW w \in Artifacts[n].files[p], NEW damage \in Unwritten(w.image),
         NEW s \in Shards, NEW kafka \in RealtimeModes
  PROVE  w.views[damage][s][kafka] = {}
<1>0. PICK f : f = w.image
  OBVIOUS
<1>1. /\ IsImage(f) /\ f.size \in Nat /\ f.start \in Nat
      /\ f.contents \in Seq(Int) /\ f.size = f.start + Len(f.contents)
      /\ f.directory \in Seq(ToSet(f.directory)) /\ f.header.section_count = Len(f.directory)
      /\ ChecksumsMatch(f, f.directory)
  BY <1>0, ImageFacts
<1>2. PICK i \in DOMAIN f.directory :
        damage = Damage("section", i, NoField) /\ f.directory[i].length > 0
  BY <1>0 DEF Unwritten
<1>3. PICK section, at, size, lost :
        /\ section = f.directory[i] /\ at = section.offset - f.start + 1
        /\ size = Len(f.contents) /\ lost = Damaged(f, damage)
  OBVIOUS
<1>4. /\ section.offset \in Nat /\ section.length \in Nat /\ section.length > 0
      /\ f.start <= section.offset /\ section.offset + section.length <= f.size
  <2>1. i \in 1 .. Len(f.directory)
    BY <1>1, <1>2
  <2>2. QED
    BY <1>0, <1>2, <1>3, <2>1, ImageFacts
<1>5. /\ at \in 1 .. size /\ size \in Nat
      /\ at + section.length - 1 \in at .. size
  <2>1. size \in Nat /\ size = f.size - f.start
    BY <1>1, <1>3
  <2>2. QED
    BY <1>1, <1>3, <1>4, <2>1, WithinFile
<1>6. /\ lost.contents = [f.contents EXCEPT ![at] = @ + 1] /\ lost.start = f.start
      /\ lost.directory = f.directory /\ lost.header = f.header
  BY <1>1, <1>2, <1>3 DEF Damaged, Damage, IsImage
<1>7. /\ lost.contents \in Seq(Int) /\ Len(lost.contents) = size
      /\ lost.contents[at] = f.contents[at] + 1
  <2>1. f.contents \in Seq(Int) /\ at \in 1 .. Len(f.contents)
    BY <1>1, <1>3, <1>5
  <2>2. QED
    BY <1>3, <1>6, <2>1, ChangedByte
<1>8. Min({at + section.length - 1, size}) = at + section.length - 1
  BY <1>4, <1>5, SmallerOfTwo
<1>9. SectionBytes(f, section) = SubSeq(f.contents, at, at + section.length - 1)
  BY <1>3, <1>8 DEF SectionBytes
<1>10. SectionBytes(lost, section) = SubSeq(lost.contents, at, at + section.length - 1)
  BY <1>3, <1>6, <1>7, <1>8 DEF SectionBytes
<1>11. SectionBytes(f, section)[1] = f.contents[at] /\ f.contents[at] \in Int
  BY <1>1, <1>3, <1>5, <1>9, FirstOfSubSeq
<1>12. SectionBytes(lost, section)[1] = lost.contents[at]
  BY <1>5, <1>7, <1>10, FirstOfSubSeq
<1>13. SectionBytes(lost, section) # SectionBytes(f, section)
  BY <1>7, <1>11, <1>12
<1>14. SectionBytes(f, section) = section.checksum
  BY <1>1, <1>2, <1>3 DEF ChecksumsMatch
<1>15. ~ChecksumsMatch(lost, f.directory)
  BY <1>2, <1>3, <1>13, <1>14 DEF ChecksumsMatch
<1>16. SubSeq(lost.directory, 1, lost.header.section_count) = f.directory
  BY <1>1, <1>6
<1>17. ASSUME NEW options, NEW ties PROVE ParseArtifact(lost, options, ties) = {}
  <2>1. ~ChecksumsMatch(lost, SubSeq(lost.directory, 1, lost.header.section_count))
    BY <1>15, <1>16
  <2>2. QED
    BY <2>1 DEF ParseArtifact
<1>18. ViewOf(lost, s, kafka) = {}
  BY <1>17, RefusedHasNoView
<1>19. QED
  BY <1>0, <1>3, <1>18, CatalogueEntry DEF Damages

(* Growing files are among the cut ones. *)
LEMMA GrowingIsCut ==
  ASSUME NEW n \in DOMAIN Artifacts, NEW p \in ToSet(Artifacts[n].parts),
         NEW w \in Artifacts[n].files[p], NEW damage \in Growing(w.image)
  PROVE  damage \in Cuts(w.image)
<1>0. PICK f : f = w.image
  OBVIOUS
<1>1. PICK size \in {0, f.size - 1} : damage = Damage("cut", size, NoField)
  BY <1>0 DEF Growing
<1>2. /\ f.directory \in Seq(ToSet(f.directory))
      /\ \E i \in 1 .. Len(f.directory) :
           f.directory[i].offset + f.directory[i].length = f.size
  BY <1>0, ImageFacts
<1> DEFINE ends == {f.directory[j].offset + f.directory[j].length : j \in DOMAIN f.directory}
           sizes == {0, 1, kArtifactHeaderSize - 1, kArtifactHeaderSize, f.start - 1, f.start}
                      \cup (ends \ {f.size}) \cup {m - 1 : m \in ends}
<1>3. f.size \in ends
  BY <1>2
<1>4. size \in sizes
  BY <1>1, <1>3
<1> HIDE DEF sizes
<1>5. Cuts(f) = {Damage("cut", m, NoField) : m \in sizes}
  BY DEF Cuts, sizes
<1>6. QED
  BY <1>0, <1>1, <1>4, <1>5

LEMMA FileFields ==
  ASSUME NEW n, NEW run, NEW p, NEW damage
  PROVE  /\ File(n, run, p, damage).build = n /\ File(n, run, p, damage).run = run
         /\ File(n, run, p, damage).part = p /\ File(n, run, p, damage).damage = damage
BY DEF File

(* No load accepts a file that is being written. *)
LEMMA GrowingIsRefused ==
  ASSUME NEW n \in DOMAIN Artifacts, NEW p \in ToSet(Artifacts[n].parts),
         NEW f \in Images(n, p), NEW damage \in Growing(f), NEW run,
         NEW s \in Shards, realtime \in RealtimeModes
  PROVE  View(File(n, run, p, damage), s) = {}
<1>1. PICK w \in Artifacts[n].files[p] : w.image = f
  BY DEF Images
<1>2. w.views[damage][s][realtime] = {}
  BY <1>1, GrowingIsCut, CutIsRefused
<1>3. \A v \in Artifacts[n].files[p] : v = w
  BY CatalogueEntry
<1>4. QED
  BY <1>2, <1>3, FileFields DEF View

-----------------------------------------------------------------------------
(* The invariant. *)

BuilderPcs == {"idle", "make_dirs", "write_schema", "open", "write"}

(* The files that a build has still to write are not there or are those of *)
(* an earlier run; the file it is writing is refused by loads.             *)
BuilderOK ==
  /\ DOMAIN files = Paths
  /\ realtime \in RealtimeModes
  /\ builds \in Nat
  /\ builder.pc \in BuilderPcs
  /\ builder = [pc |-> builder.pc, name |-> builder.name, output |-> builder.output,
                parts |-> builder.parts]
  /\ builder.pc # "idle" =>
       /\ builder.name \in DOMAIN Artifacts
       /\ Here \in Paths
       /\ builder.parts \in Seq(ToSet(Artifacts[builder.name].parts))
       /\ builder.parts # <<>>
       /\ \A i, j \in 1 .. Len(builder.parts) : builder.parts[i] = builder.parts[j] => i = j
       /\ \A i \in 2 .. Len(builder.parts) :
            builder.parts[i] \in DOMAIN files[Here] =>
              files[Here][builder.parts[i]].run # builds
       /\ builder.pc # "write" =>
            (Part \in DOMAIN files[Here] => files[Here][Part].run # builds)
       /\ builder.pc = "write" =>
            /\ Part \in DOMAIN files[Here]
            /\ files[Here][Part].build = builder.name /\ files[Here][Part].run = builds
            /\ \A s \in Shards : View(files[Here][Part], s) = {}

(* A file that a build has written, or has begun to write, damaged or not. *)
WrittenBy(file, p) ==
  /\ file.build \in DOMAIN Artifacts /\ p \in ToSet(Artifacts[file.build].parts)
  /\ file = File(file.build, file.run, p, file.damage)
  /\ \E w \in Artifacts[file.build].files[p] : file.damage \in Damages(w.image)

DirectoriesOK ==
  \A d \in Paths : \A p \in DOMAIN files[d] :
    WrittenBy(files[d][p], p) /\ files[d][p].run \in 0 .. builds

(* A mapping of shard s is of a file that some build wrote and that a load *)
(* accepted.  What is there now is the same file or that of a later run.   *)
Reads(m, s) ==
  m # None =>
    /\ m.path \in Paths
    /\ m.name \in DOMAIN files[m.path]
    /\ m.file.run \in Nat /\ m.file.run <= files[m.path][m.name].run
    /\ files[m.path][m.name].run = m.file.run => files[m.path][m.name] = m.file
    /\ WrittenBy(m.file, m.name)
    /\ View(m.file, s) # {}

LoadOK ==
  /\ load = [pc |-> load.pc, path |-> load.path, shard |-> load.shard,
             backings |-> load.backings]
  /\ load.pc \in {"idle", "loading", "progress", "cutover"}
  /\ load.pc # "idle" => load.path \in Paths
  /\ load.shard \in Shards
  /\ DOMAIN load.backings = Shards
  /\ DOMAIN serving = Shards

MappingsOK == \A s \in Shards : Reads(load.backings[s], s) /\ Reads(serving[s], s)

FilesInv == BuilderOK /\ DirectoriesOK /\ LoadOK /\ MappingsOK

LEMMA InitFilesInv == Init => FilesInv
<1> SUFFICES ASSUME Init PROVE FilesInv
  OBVIOUS
<1>1. BuilderOK
  BY DEF Init, BuilderOK, BuilderPcs, NoBuilder
<1>2. 0 \in Shards
  BY FilesAssumption DEF Shards
<1>3. LoadOK
  BY <1>2 DEF Init, LoadOK, NoLoad
<1>4. \A s \in Shards : load.backings[s] = None /\ serving[s] = None
  BY DEF Init, NoLoad
<1>5. MappingsOK
  BY <1>4 DEF MappingsOK, Reads
<1>6. DirectoriesOK
  <2>1. \A d \in Paths : DOMAIN files[d] = {}
    BY DEF Init
  <2>2. QED
    BY <2>1 DEF DirectoriesOK
<1>7. QED
  BY <1>1, <1>3, <1>5, <1>6 DEF FilesInv

(* The files after one was set. *)
LEMMA SetFileChanges ==
  ASSUME FilesInv, builder.pc \in {"open", "write"}, NEW damage, SetFile(damage)
  PROVE  /\ DOMAIN files' = Paths
         /\ DOMAIN files'[Here] = DOMAIN files[Here] \cup {Part}
         /\ files'[Here][Part] = File(builder.name, builds, Part, damage)
         /\ \A q \in DOMAIN files[Here] : q # Part => files'[Here][q] = files[Here][q]
         /\ \A e \in Paths : e # Here => files'[e] = files[e]
<1>1. DOMAIN files = Paths /\ Here \in Paths
  BY DEF FilesInv, BuilderOK
<1>2. PICK d, p, file : d = Here /\ p = Part /\ file = File(builder.name, builds, Part, damage)
  OBVIOUS
<1>3. files' = [files EXCEPT ![d] = [q \in DOMAIN files[d] \cup {p} |->
                                      IF q = p THEN file ELSE files[d][q]]]
  BY <1>2 DEF SetFile
<1>4. files'[d] = [q \in DOMAIN files[d] \cup {p} |-> IF q = p THEN file ELSE files[d][q]]
  BY <1>1, <1>2, <1>3
<1>5. DOMAIN files' = Paths /\ \A e \in Paths : e # d => files'[e] = files[e]
  BY <1>1, <1>3
<1>6. QED
  BY <1>2, <1>4, <1>5

(* A mapping goes on reading what was validated when a build sets a file:  *)
(* the file is another one, or no load has accepted what this run wrote.   *)
LEMMA MappingsSurvive ==
  ASSUME FilesInv, builder.pc \in {"open", "write"}, NEW damage, SetFile(damage),
         UNCHANGED <<realtime, builds, load, serving>>
  PROVE  MappingsOK' /\ LoadOK'
<1>0. /\ Here \in Paths /\ builds \in Nat /\ DirectoriesOK
      /\ builder.pc # "write" =>
            (Part \in DOMAIN files[Here] => files[Here][Part].run # builds)
      /\ builder.pc = "write" => \A s \in Shards : View(files[Here][Part], s) = {}
  BY DEF FilesInv, BuilderOK
<1>1. ASSUME NEW s \in Shards, NEW m, Reads(m, s) PROVE Reads(m, s)'
  <2> SUFFICES ASSUME m # None
               PROVE  /\ m.path \in Paths
                      /\ m.name \in DOMAIN files'[m.path]
                      /\ m.file.run \in Nat /\ m.file.run <= files'[m.path][m.name].run
                      /\ files'[m.path][m.name].run = m.file.run =>
                           files'[m.path][m.name] = m.file
                      /\ WrittenBy(m.file, m.name)
                      /\ View(m.file, s)' # {}
    BY DEF Reads
  <2>1. /\ m.path \in Paths /\ m.name \in DOMAIN files[m.path]
        /\ m.file.run \in Nat /\ m.file.run <= files[m.path][m.name].run
        /\ files[m.path][m.name].run = m.file.run => files[m.path][m.name] = m.file
        /\ WrittenBy(m.file, m.name) /\ View(m.file, s) # {}
    BY <1>1 DEF Reads
  <2>2. View(m.file, s)' = View(m.file, s)
    BY DEF View
  <2>3. CASE ~(m.path = Here /\ m.name = Part)
    <3>1. m.name \in DOMAIN files'[m.path] /\ files'[m.path][m.name] = files[m.path][m.name]
      BY <2>1, <2>3, SetFileChanges
    <3>2. QED
      BY <2>1, <2>2, <3>1
  <2>4. CASE m.path = Here /\ m.name = Part
    <3>1. files[Here][Part].run \in 0 .. builds
      BY <1>0, <2>1, <2>4 DEF DirectoriesOK
    <3>2. m.file.run # builds
      <4>1. CASE builder.pc = "write"
        <5>1. files[Here][Part] # m.file
          BY <1>0, <2>1, <4>1
        <5>2. files[Here][Part].run # m.file.run
          BY <2>1, <2>4, <5>1
        <5>3. QED
          BY <1>0, <2>1, <2>4, <3>1, <5>2
      <4>2. CASE builder.pc # "write"
        BY <1>0, <2>1, <2>4, <3>1, <4>2
      <4>3. QED
        BY <4>1, <4>2
    <3>3. m.name \in DOMAIN files'[m.path] /\ files'[m.path][m.name].run = builds
      BY <2>4, SetFileChanges, FileFields
    <3>4. m.file.run <= builds
      BY <1>0, <2>1, <2>4, <3>1
    <3>5. QED
      BY <2>1, <2>2, <3>2, <3>3, <3>4
  <2>5. QED
    BY <2>3, <2>4
<1>2. ASSUME NEW s \in Shards
      PROVE  Reads(load.backings[s], s)' /\ Reads(serving[s], s)'
  <2>1. PICK m : m = load.backings[s]
    OBVIOUS
  <2>2. PICK q : q = serving[s]
    OBVIOUS
  <2>3. Reads(m, s) /\ Reads(q, s)
    BY <2>1, <2>2 DEF FilesInv, MappingsOK
  <2>4. Reads(m, s)' /\ Reads(q, s)'
    BY <1>1, <2>3
  <2>5. m = load'.backings[s] /\ q = serving'[s]
    BY <2>1, <2>2
  <2>6. QED
    BY <2>4, <2>5 DEF Reads
<1>3. MappingsOK'
  BY <1>2 DEF MappingsOK
<1>4. LoadOK'
  BY DEF FilesInv, LoadOK
<1>5. QED
  BY <1>3, <1>4

(* A file that is set is one of the build that sets it. *)
LEMMA SetFileDirectories ==
  ASSUME FilesInv, builder.pc \in {"open", "write"}, builds' = builds,
         NEW w \in Artifacts[builder.name].files[Part], NEW damage \in Damages(w.image),
         SetFile(damage)
  PROVE  DirectoriesOK'
<1>1. PICK file : file = File(builder.name, builds, Part, damage)
  OBVIOUS
<1>2. /\ builder.name \in DOMAIN Artifacts /\ Part \in ToSet(Artifacts[builder.name].parts)
      /\ builds \in Nat /\ Here \in Paths
  BY DEF FilesInv, BuilderOK, Part
<1>3. WrittenBy(file, Part) /\ file.run \in 0 .. builds
  BY <1>1, <1>2, FileFields DEF WrittenBy
<1>4. ASSUME NEW d \in Paths, NEW q \in DOMAIN files'[d]
      PROVE  WrittenBy(files'[d][q], q) /\ files'[d][q].run \in 0 .. builds
  <2>1. CASE d = Here /\ q = Part
    BY <1>1, <1>3, <2>1, SetFileChanges
  <2>2. CASE ~(d = Here /\ q = Part)
    <3>1. q \in DOMAIN files[d] /\ files'[d][q] = files[d][q]
      BY <1>2, <1>4, <2>2, SetFileChanges
    <3>2. QED
      BY <3>1 DEF FilesInv, DirectoriesOK
  <2>3. QED
    BY <2>1, <2>2
<1>5. QED
  BY <1>4 DEF DirectoriesOK

(* Where no file changes, directories and mappings stay in order. *)
LEMMA MappingsStay ==
  ASSUME FilesInv, UNCHANGED <<realtime, files, load, serving>>,
         builds' \in {builds, builds + 1}
  PROVE  DirectoriesOK' /\ MappingsOK' /\ LoadOK'
<1>1. LoadOK'
  BY DEF FilesInv, LoadOK
<1>2. \A s \in Shards : \A m : Reads(m, s) => Reads(m, s)'
  <2>1. \A s, file : View(file, s)' = View(file, s)
    BY DEF View
  <2>2. QED
    BY <2>1 DEF Reads
<1>3. \A s \in Shards : Reads(load.backings[s], s)' /\ Reads(serving[s], s)'
  <2> SUFFICES ASSUME NEW s \in Shards
               PROVE  Reads(load.backings[s], s)' /\ Reads(serving[s], s)'
    OBVIOUS
  <2>1. PICK m, q : m = load.backings[s] /\ q = serving[s]
    OBVIOUS
  <2>2. Reads(m, s)' /\ Reads(q, s)'
    BY <1>2, <2>1 DEF FilesInv, MappingsOK
  <2>3. m = load'.backings[s] /\ q = serving'[s]
    BY <2>1
  <2>4. QED
    BY <2>2, <2>3 DEF Reads
<1>4. DirectoriesOK'
  <2>1. builds \in Nat /\ \A run \in 0 .. builds : run \in 0 .. builds'
    BY DEF FilesInv, BuilderOK
  <2>2. QED
    BY <2>1 DEF FilesInv, DirectoriesOK
<1>5. QED
  BY <1>1, <1>3, <1>4 DEF MappingsOK

(* The same for the builder. *)
LEMMA BuilderStays ==
  ASSUME FilesInv, UNCHANGED <<realtime, files, builds, builder>>
  PROVE  BuilderOK'
<1>1. Here' = Here /\ Part' = Part
  BY DEF Here, Part
<1>2. \A s \in Shards : View(files[Here][Part], s)' = View(files[Here][Part], s)
  BY <1>1 DEF View
<1>3. QED
  BY <1>1, <1>2 DEF FilesInv, BuilderOK

-----------------------------------------------------------------------------
(* The steps of a build. *)

LEMMA BeginBuildFilesInv ==
  ASSUME FilesInv, NEW n \in DOMAIN Artifacts, BeginBuild(n)
  PROVE  FilesInv'
<1> DEFINE parts == Artifacts[n].parts
           output == Artifacts[n].output
<1>1. /\ UNCHANGED <<realtime, files, load, serving>> /\ builds' = builds + 1
      /\ builder' = [pc |-> IF parts = <<AllShards>> THEN "open" ELSE "make_dirs",
                     name |-> n, output |-> output, parts |-> parts]
  BY DEF BeginBuild
<1>2. /\ output \in Paths /\ parts \in Seq(Int) /\ parts # <<>>
      /\ \A i, j \in 1 .. Len(parts) : parts[i] = parts[j] => i = j
  BY BuildsAssumption
<1>3. parts \in Seq(ToSet(parts))
  <2>1. DOMAIN parts = 1 .. Len(parts) /\ Len(parts) \in Nat
    BY <1>2
  <2>2. \A i \in 1 .. Len(parts) : parts[i] \in ToSet(parts)
    BY <2>1 DEF ToSet
  <2>3. QED
    BY <1>2, <2>1, <2>2
<1>4. \A q \in DOMAIN files[output] : files[output][q].run # builds + 1
  <2>1. \A q \in DOMAIN files[output] : files[output][q].run \in 0 .. builds
    BY <1>2 DEF FilesInv, DirectoriesOK
  <2>2. builds \in Nat
    BY DEF FilesInv, BuilderOK
  <2>3. QED
    BY <2>1, <2>2
<1>5. BuilderOK'
  <2>1. /\ builder'.name = n /\ builder'.output = output /\ builder'.parts = parts
        /\ builder'.pc \in {"open", "make_dirs"}
    BY <1>1
  <2>2. \A q \in DOMAIN files'[output] : files'[output][q].run # builds'
    BY <1>1, <1>4
  <2>3. /\ DOMAIN files' = Paths /\ realtime' \in RealtimeModes /\ builds' \in Nat
        /\ builder' = [pc |-> builder'.pc, name |-> builder'.name,
                       output |-> builder'.output, parts |-> builder'.parts]
    BY <1>1 DEF FilesInv, BuilderOK
  <2> HIDE DEF parts, output
  <2>4. QED
    BY <1>2, <1>3, <2>1, <2>2, <2>3 DEF BuilderOK, BuilderPcs, Here, Part, parts
<1>6. QED
  BY <1>1, <1>5, MappingsStay DEF FilesInv

LEMMA ExitFilesInv ==
  ASSUME FilesInv, Exit, UNCHANGED <<realtime, files, builds, load, serving>>
  PROVE  FilesInv'
<1>1. BuilderOK'
  BY DEF FilesInv, BuilderOK, BuilderPcs, Exit, NoBuilder
<1>2. QED
  BY <1>1, MappingsStay DEF FilesInv

(* A build goes on to its next step and has written nothing. *)
LEMMA AdvanceFilesInv ==
  ASSUME FilesInv, builder.pc \in {"make_dirs", "write_schema"},
         NEW next \in {"write_schema", "open"}, builder' = [builder EXCEPT !.pc = next],
         UNCHANGED <<realtime, files, builds, load, serving>>
  PROVE  FilesInv'
<1>1. /\ builder'.pc = next /\ builder'.name = builder.name
      /\ builder'.output = builder.output /\ builder'.parts = builder.parts
      /\ builder' = [pc |-> builder'.pc, name |-> builder'.name,
                     output |-> builder'.output, parts |-> builder'.parts]
  BY DEF FilesInv, BuilderOK
<1>2. BuilderOK'
  BY <1>1 DEF FilesInv, BuilderOK, BuilderPcs, Here, Part, View
<1>3. QED
  BY <1>2, MappingsStay DEF FilesInv

LEMMA MakeDirsFilesInv == ASSUME FilesInv, MakeDirs PROVE FilesInv'
<1>1. builder.pc = "make_dirs" /\ UNCHANGED <<realtime, files, builds, load, serving>>
  BY DEF MakeDirs
<1>2. CASE builder' = [builder EXCEPT !.pc = "write_schema"]
  BY <1>1, <1>2, AdvanceFilesInv
<1>3. CASE Exit
  BY <1>1, <1>3, ExitFilesInv
<1>4. QED
  BY <1>2, <1>3 DEF MakeDirs

LEMMA WriteSchemaFilesInv == ASSUME FilesInv, WriteSchema PROVE FilesInv'
<1>1. builder.pc = "write_schema" /\ UNCHANGED <<realtime, files, builds, load, serving>>
  BY DEF WriteSchema
<1>2. CASE builder' = [builder EXCEPT !.pc = "open"]
  BY <1>1, <1>2, AdvanceFilesInv
<1>3. CASE Exit
  BY <1>1, <1>3, ExitFilesInv
<1>4. QED
  BY <1>2, <1>3 DEF WriteSchema

LEMMA OpenFileFilesInv == ASSUME FilesInv, OpenFile PROVE FilesInv'
<1>1. builder.pc = "open" /\ UNCHANGED <<realtime, builds, load, serving>>
  BY DEF OpenFile
<1>2. CASE Exit /\ UNCHANGED files
  BY <1>1, <1>2, ExitFilesInv
<1>3. ASSUME NEW f \in ToWrite, NEW damage \in Growing(f), SetFile(damage),
             builder' = [builder EXCEPT !.pc = "write"]
      PROVE  FilesInv'
  <2>1. MappingsOK' /\ LoadOK'
    BY <1>1, <1>3, MappingsSurvive
  <2>2. /\ builder.name \in DOMAIN Artifacts /\ Part \in ToSet(Artifacts[builder.name].parts)
        /\ realtime \in RealtimeModes
    BY <1>1 DEF FilesInv, BuilderOK, Part
  <2>3. \A s \in Shards : View(File(builder.name, builds, Part, damage), s) = {}
    BY <1>3, <2>2, GrowingIsRefused DEF ToWrite
  <2>4. /\ builder'.pc = "write" /\ builder'.name = builder.name
        /\ builder'.output = builder.output /\ builder'.parts = builder.parts
        /\ builder' = [pc |-> builder'.pc, name |-> builder'.name,
                       output |-> builder'.output, parts |-> builder'.parts]
    BY <1>3 DEF FilesInv, BuilderOK
  <2>5. /\ DOMAIN files' = Paths
        /\ DOMAIN files'[Here] = DOMAIN files[Here] \cup {Part}
        /\ files'[Here][Part] = File(builder.name, builds, Part, damage)
        /\ \A q \in DOMAIN files[Here] : q # Part => files'[Here][q] = files[Here][q]
    BY <1>1, <1>3, SetFileChanges
  <2>6. Here' = Here /\ Part' = Part
    BY <2>4 DEF Here, Part
  <2>7. \A s \in Shards : View(files[Here][Part], s)' = {}
    <3>1. PICK file : file = File(builder.name, builds, Part, damage)
      OBVIOUS
    <3>2. files'[Here'][Part'] = file
      BY <2>5, <2>6, <3>1
    <3>3. \A s \in Shards : View(file, s)' = {}
      BY <1>1, <2>3, <3>1 DEF View
    <3>4. QED
      BY <3>2, <3>3 DEF View
  <2>8. \A i \in 2 .. Len(builder.parts) : builder.parts[i] \in DOMAIN files'[Here] =>
          files'[Here][builder.parts[i]].run # builds
    <3> SUFFICES ASSUME NEW i \in 2 .. Len(builder.parts)
                 PROVE  /\ builder.parts[i] \in DOMAIN files[Here] =>
                             files[Here][builder.parts[i]].run # builds
                        /\ builder.parts[i] # Part
      BY <2>5
    <3>1. /\ Len(builder.parts) \in Nat /\ builder.parts # <<>> /\ Part = builder.parts[1]
          /\ builder.parts[i] \in DOMAIN files[Here] =>
               files[Here][builder.parts[i]].run # builds
          /\ builder.parts[i] = builder.parts[1] => i = 1
      BY <1>1 DEF FilesInv, BuilderOK, Part
    <3>2. QED
      BY <3>1
  <2>9. files'[Here][Part].build = builder.name /\ files'[Here][Part].run = builds
    BY <2>5, FileFields
  <2>10. BuilderOK'
    BY <1>1, <2>4, <2>5, <2>6, <2>7, <2>8, <2>9 DEF FilesInv, BuilderOK, BuilderPcs
  <2>11. DirectoriesOK'
    <3>1. PICK w \in Artifacts[builder.name].files[Part] : w.image = f
      BY <1>3 DEF ToWrite, Images
    <3>2. damage \in Damages(w.image)
      BY <1>3, <2>2, <3>1, GrowingIsCut DEF Damages
    <3>3. QED
      BY <1>1, <1>3, <3>2, SetFileDirectories
  <2>12. QED
    BY <2>1, <2>10, <2>11 DEF FilesInv
<1>4. QED
  BY <1>2, <1>3 DEF OpenFile

(* What is left of a sequence of several elements. *)
LEMMA TailOf ==
  ASSUME NEW S, NEW seq \in Seq(S), seq # <<>>, Len(seq) # 1
  PROVE  /\ Len(seq) \in Nat /\ Len(seq) > 1
         /\ Tail(seq) \in Seq(S) /\ Tail(seq) # <<>>
         /\ Len(Tail(seq)) = Len(seq) - 1
         /\ \A i \in 1 .. Len(seq) - 1 : Tail(seq)[i] = seq[i + 1]
<1>1. Len(seq) \in Nat /\ Len(seq) # 0
  OBVIOUS
<1>2. Len(seq) > 1
  <2>1. PICK n \in Nat : n = Len(seq)
    BY <1>1
  <2>2. n # 0 /\ n # 1
    BY <1>1, <2>1
  <2>3. n > 1
    BY <2>2
  <2>4. QED
    BY <2>1, <2>3
<1>3. Tail(seq) \in Seq(S) /\ Len(Tail(seq)) = Len(seq) - 1
  BY <1>2
<1>4. Tail(seq) # <<>>
  <2>1. PICK n \in Nat : n = Len(seq) - 1 /\ n # 0
    BY <1>1, <1>2
  <2>2. PICK rest : rest = Tail(seq)
    OBVIOUS
  <2>3. Len(rest) = n
    BY <1>3, <2>1, <2>2
  <2>4. rest # <<>>
    BY <2>1, <2>3
  <2>5. QED
    BY <2>2, <2>4
<1>5. \A i \in 1 .. Len(seq) - 1 : Tail(seq)[i] = seq[i + 1]
  BY <1>2
<1>6. QED
  BY <1>1, <1>2, <1>3, <1>4, <1>5

(* The end of the writing of a file, well or badly: the build goes on to   *)
(* its next file, or ends.                                                 *)
LEMMA FileWrittenFilesInv ==
  ASSUME FilesInv, builder.pc = "write",
         NEW w \in Artifacts[builder.name].files[Part], NEW damage \in Damages(w.image),
         SetFile(damage), FileWritten \/ Exit, UNCHANGED <<realtime, builds, load, serving>>
  PROVE  FilesInv'
<1> DEFINE parts == builder.parts
<1>1. MappingsOK' /\ LoadOK' /\ DirectoriesOK'
  BY MappingsSurvive, SetFileDirectories
<1>2. /\ DOMAIN files' = Paths
      /\ DOMAIN files'[Here] = DOMAIN files[Here] \cup {Part}
      /\ \A q \in DOMAIN files[Here] : q # Part => files'[Here][q] = files[Here][q]
  BY SetFileChanges
<1>3. CASE builder' = NoBuilder
  <2>1. BuilderOK'
    BY <1>2, <1>3 DEF FilesInv, BuilderOK, BuilderPcs, NoBuilder
  <2>2. QED
    BY <1>1, <2>1 DEF FilesInv
<1>4. CASE Len(parts) # 1 /\ builder' = [builder EXCEPT !.pc = "open", !.parts = Tail(@)]
  <2>1. /\ builder'.pc = "open" /\ builder'.name = builder.name
        /\ builder'.output = builder.output /\ builder'.parts = Tail(parts)
        /\ builder' = [pc |-> builder'.pc, name |-> builder'.name,
                       output |-> builder'.output, parts |-> builder'.parts]
    BY <1>4 DEF FilesInv, BuilderOK
  <2>2. /\ builder.name \in DOMAIN Artifacts /\ Here \in Paths
        /\ parts \in Seq(ToSet(Artifacts[builder.name].parts)) /\ parts # <<>>
        /\ \A i, j \in 1 .. Len(parts) : parts[i] = parts[j] => i = j
        /\ \A i \in 2 .. Len(parts) : parts[i] \in DOMAIN files[Here] =>
             files[Here][parts[i]].run # builds
        /\ Part = parts[1] /\ realtime' \in RealtimeModes /\ builds' \in Nat
    BY DEF FilesInv, BuilderOK, Part
  <2> HIDE DEF parts
  <2>3. /\ Len(parts) \in Nat /\ Len(parts) > 1
        /\ Tail(parts) \in Seq(ToSet(Artifacts[builder.name].parts))
        /\ Tail(parts) # <<>>
        /\ Len(Tail(parts)) = Len(parts) - 1
        /\ \A i \in 1 .. Len(parts) - 1 : Tail(parts)[i] = parts[i + 1]
    BY <1>4, <2>2, TailOf
  <2>4. \A i, j \in 1 .. Len(Tail(parts)) : Tail(parts)[i] = Tail(parts)[j] => i = j
    BY <2>2, <2>3
  <2>5. \A i \in 1 .. Len(Tail(parts)) : Tail(parts)[i] \in DOMAIN files'[Here] =>
          files'[Here][Tail(parts)[i]].run # builds
    <3> SUFFICES ASSUME NEW i \in 1 .. Len(Tail(parts))
                 PROVE  /\ Tail(parts)[i] \in DOMAIN files[Here] =>
                             files[Here][Tail(parts)[i]].run # builds
                        /\ Tail(parts)[i] # Part
      BY <1>2
    <3>1. i \in 1 .. Len(parts) - 1 /\ i + 1 \in 2 .. Len(parts) /\ i + 1 # 1
          /\ 1 \in 1 .. Len(parts) /\ i + 1 \in 1 .. Len(parts)
      BY <2>3
    <3>2. Tail(parts)[i] = parts[i + 1]
      BY <2>3, <3>1
    <3>3. QED
      BY <2>2, <3>1, <3>2
  <2>6. Here' = Here /\ Part' = Tail(parts)[1]
    BY <2>1, <2>3 DEF Here, Part
  <2>7. BuilderOK'
    <3>1. 1 \in 1 .. Len(Tail(parts)) /\ \A i \in 2 .. Len(Tail(parts)) : i \in 1 .. Len(Tail(parts))
      BY <2>3
    <3>2. /\ builder'.name \in DOMAIN Artifacts /\ Here' \in Paths
          /\ builder'.parts \in Seq(ToSet(Artifacts[builder'.name].parts))
          /\ builder'.parts # <<>>
      BY <2>1, <2>2, <2>3, <2>6
    <3>3. /\ \A i, j \in 1 .. Len(builder'.parts) :
               builder'.parts[i] = builder'.parts[j] => i = j
          /\ \A i \in 2 .. Len(builder'.parts) : builder'.parts[i] \in DOMAIN files'[Here'] =>
               files'[Here'][builder'.parts[i]].run # builds'
      BY <2>1, <2>4, <2>5, <2>6, <3>1
    <3>4. Part' \in DOMAIN files'[Here'] => files'[Here'][Part'].run # builds'
      BY <2>5, <2>6, <3>1
    <3>5. QED
      BY <1>2, <2>1, <2>2, <3>2, <3>3, <3>4 DEF BuilderOK, BuilderPcs
  <2>8. QED
    BY <1>1, <2>7 DEF FilesInv
<1>5. QED
  BY <1>3, <1>4 DEF FileWritten, Exit

LEMMA WriteFileFilesInv == ASSUME FilesInv, WriteFile PROVE FilesInv'
<1>1. /\ builder.pc = "write" /\ SetFile(NoDamage) /\ FileWritten
      /\ UNCHANGED <<realtime, builds, load, serving>>
  BY DEF WriteFile
<1>2. /\ Here \in Paths /\ Part \in DOMAIN files[Here]
      /\ files[Here][Part].build = builder.name
  BY <1>1 DEF FilesInv, BuilderOK
<1>3. PICK w \in Artifacts[builder.name].files[Part] : TRUE
  BY <1>2 DEF FilesInv, DirectoriesOK, WrittenBy
<1>4. NoDamage \in Damages(w.image)
  BY DEF Damages
<1>5. QED
  BY <1>1, <1>4, FileWrittenFilesInv

LEMMA WriteFileFailsFilesInv == ASSUME FilesInv, WriteFileFails PROVE FilesInv'
<1>1. builder.pc = "write" /\ UNCHANGED <<realtime, builds, load, serving>>
  BY DEF WriteFileFails
<1>2. PICK f \in ToWrite : \E damage \in Cuts(f) \cup Unwritten(f) :
        SetFile(damage) /\ (FileWritten \/ Exit)
  BY DEF WriteFileFails
<1>3. PICK damage \in Cuts(f) \cup Unwritten(f) : SetFile(damage) /\ (FileWritten \/ Exit)
  BY <1>2
<1>4. PICK w \in Artifacts[builder.name].files[Part] : w.image = f
  BY <1>2 DEF ToWrite, Images
<1>5. damage \in Damages(w.image)
  BY <1>3, <1>4 DEF Damages
<1>6. QED
  BY <1>1, <1>3, <1>5, FileWrittenFilesInv

-----------------------------------------------------------------------------
(* The steps of a load. *)

LEMMA NoLoadIsOK ==
  /\ NoLoad.pc = "idle" /\ NoLoad.shard = 0 /\ 0 \in Shards
  /\ NoLoad = [pc |-> NoLoad.pc, path |-> NoLoad.path, shard |-> NoLoad.shard,
               backings |-> NoLoad.backings]
  /\ DOMAIN NoLoad.backings = Shards
  /\ \A s \in Shards : NoLoad.backings[s] = None
BY FilesAssumption DEF NoLoad, Shards

(* While files and builders stay as they are, it is enough that the        *)
(* mappings of the load and of the shards were in order before.            *)
LEMMA NewMappings ==
  ASSUME FilesInv, UNCHANGED <<realtime, files, builds, builder>>, LoadOK',
         \A s \in Shards : Reads(load'.backings[s], s) /\ Reads(serving'[s], s)
  PROVE  FilesInv'
<1>1. BuilderOK'
  BY BuilderStays
<1>2. ASSUME NEW s \in Shards
      PROVE  Reads(load.backings[s], s)' /\ Reads(serving[s], s)'
  <2>1. PICK m : m = load'.backings[s]
    OBVIOUS
  <2>2. PICK q : q = serving'[s]
    OBVIOUS
  <2>3. Reads(m, s) /\ Reads(q, s)
    BY <2>1, <2>2
  <2>4. Reads(m, s)' /\ Reads(q, s)'
    <3>1. \A file : View(file, s)' = View(file, s)
      BY DEF View
    <3>2. QED
      BY <2>3, <3>1 DEF Reads
  <2>5. QED
    BY <2>1, <2>2, <2>4 DEF Reads
<1>3. MappingsOK'
  BY <1>2 DEF MappingsOK
<1>4. DirectoriesOK'
  BY DEF FilesInv, DirectoriesOK
<1>5. QED
  BY <1>1, <1>3, <1>4 DEF FilesInv

(* The load ends, or has not begun. *)
LEMMA LoadEndsFilesInv ==
  ASSUME FilesInv, UNCHANGED <<realtime, files, builds, builder, serving>>, load' = NoLoad
  PROVE  FilesInv'
<1>1. LoadOK'
  BY NoLoadIsOK DEF FilesInv, LoadOK
<1>2. \A s \in Shards : Reads(load'.backings[s], s) /\ Reads(serving'[s], s)
  BY NoLoadIsOK DEF FilesInv, MappingsOK, Reads
<1>3. QED
  BY <1>1, <1>2, NewMappings

LEMMA BeginLoadFilesInv ==
  ASSUME FilesInv, NEW d \in Paths, BeginLoad(d) PROVE FilesInv'
<1>1. /\ UNCHANGED <<realtime, files, builds, builder, serving>>
      /\ load' = [NoLoad EXCEPT !.pc = "loading", !.path = d]
  BY DEF BeginLoad, buildVars
<1>2. /\ load'.pc = "loading" /\ load'.path = d /\ load'.shard = NoLoad.shard
      /\ load'.backings = NoLoad.backings
      /\ load' = [pc |-> load'.pc, path |-> load'.path, shard |-> load'.shard,
                  backings |-> load'.backings]
  BY <1>1 DEF NoLoad
<1>3. LoadOK'
  BY <1>1, <1>2, NoLoadIsOK DEF FilesInv, LoadOK
<1>4. \A s \in Shards : Reads(load'.backings[s], s) /\ Reads(serving'[s], s)
  BY <1>1, <1>2, NoLoadIsOK DEF FilesInv, MappingsOK, Reads
<1>5. QED
  BY <1>1, <1>3, <1>4, NewMappings

LEMMA MapShardFilesInv == ASSUME FilesInv, MapShard PROVE FilesInv'
<1>1. load.pc = "loading" /\ UNCHANGED <<realtime, files, builds, builder, serving>>
  BY DEF MapShard, buildVars
<1>2. PICK m \in Mappings(load.path, load.shard) :
        /\ View(m.file, load.shard) # {}
        /\ load' = [load EXCEPT
             !.backings[load.shard] = m,
             !.shard = (load.shard + 1) % Index.shard_count,
             !.pc = IF load.shard + 1 = Index.shard_count THEN "progress" ELSE "loading"]
  BY DEF MapShard
<1>3. /\ load = [pc |-> load.pc, path |-> load.path, shard |-> load.shard,
                 backings |-> load.backings]
      /\ load.path \in Paths /\ load.shard \in Shards /\ DOMAIN load.backings = Shards
  BY <1>1 DEF FilesInv, LoadOK
<1>4. /\ load'.backings = [load.backings EXCEPT ![load.shard] = m]
      /\ load'.shard = (load.shard + 1) % Index.shard_count
      /\ load'.pc \in {"progress", "loading"}
      /\ load'.path = load.path
      /\ load' = [pc |-> load'.pc, path |-> load'.path, shard |-> load'.shard,
                  backings |-> load'.backings]
  BY <1>2, <1>3
<1>5. load'.shard \in Shards
  BY <1>3, <1>4, FilesAssumption DEF Shards
<1>6. Reads(m, load.shard)
  <2>1. PICK name \in DOMAIN files[load.path] :
          m = [path |-> load.path, name |-> name, file |-> files[load.path][name]]
    BY <1>2 DEF Mappings
  <2>2. /\ WrittenBy(files[load.path][name], name)
        /\ files[load.path][name].run \in 0 .. builds
    BY <1>3, <2>1 DEF FilesInv, DirectoriesOK
  <2>3. m.path = load.path /\ m.name = name /\ m.file = files[load.path][name]
    BY <2>1
  <2>4. files[load.path][name].run \in Nat
        /\ files[load.path][name].run <= files[load.path][name].run
    BY <2>2
  <2>5. QED
    BY <1>2, <1>3, <2>1, <2>2, <2>3, <2>4 DEF Reads
<1>7. LoadOK'
  BY <1>1, <1>3, <1>4, <1>5 DEF FilesInv, LoadOK
<1>8. ASSUME NEW s \in Shards
      PROVE  Reads(load'.backings[s], s) /\ Reads(serving'[s], s)
  <2>1. Reads(load.backings[s], s) /\ Reads(serving[s], s)
    BY DEF FilesInv, MappingsOK
  <2>2. load'.backings[s] = IF s = load.shard THEN m ELSE load.backings[s]
    BY <1>3, <1>4
  <2>3. CASE s = load.shard
    BY <1>1, <1>6, <2>1, <2>2, <2>3
  <2>4. CASE s # load.shard
    BY <1>1, <2>1, <2>2, <2>4
  <2>5. QED
    BY <2>3, <2>4
<1>9. QED
  BY <1>1, <1>7, <1>8, NewMappings

LEMMA CheckProgressFilesInv == ASSUME FilesInv, CheckProgress PROVE FilesInv'
<1>1. load.pc = "progress" /\ UNCHANGED <<realtime, files, builds, builder, serving>>
  BY DEF CheckProgress, buildVars
<1>2. CASE load' = NoLoad
  BY <1>1, <1>2, LoadEndsFilesInv
<1>3. CASE load' = [load EXCEPT !.pc = "cutover"]
  <2>1. /\ load'.pc = "cutover" /\ load'.path = load.path /\ load'.shard = load.shard
        /\ load'.backings = load.backings
        /\ load' = [pc |-> load'.pc, path |-> load'.path, shard |-> load'.shard,
                    backings |-> load'.backings]
    BY <1>3 DEF FilesInv, LoadOK
  <2>2. LoadOK'
    BY <1>1, <2>1 DEF FilesInv, LoadOK
  <2>3. \A s \in Shards : Reads(load'.backings[s], s) /\ Reads(serving'[s], s)
    BY <1>1, <2>1 DEF FilesInv, MappingsOK
  <2>4. QED
    BY <1>1, <2>2, <2>3, NewMappings
<1>4. QED
  BY <1>2, <1>3 DEF CheckProgress

LEMMA PublishShardFilesInv == ASSUME FilesInv, PublishShard PROVE FilesInv'
<1>1. /\ load.pc = "cutover" /\ UNCHANGED <<realtime, files, builds, builder>>
      /\ serving' = [serving EXCEPT ![load.shard] = load.backings[load.shard]]
      /\ \/ load' = NoLoad
         \/ /\ load.shard + 1 # Index.shard_count
            /\ load' = [load EXCEPT !.shard = @ + 1]
  BY DEF PublishShard, buildVars
<1>2. /\ load = [pc |-> load.pc, path |-> load.path, shard |-> load.shard,
                 backings |-> load.backings]
      /\ load.shard \in Shards /\ DOMAIN load.backings = Shards /\ DOMAIN serving = Shards
      /\ load.path \in Paths
  BY <1>1 DEF FilesInv, LoadOK
<1>3. ASSUME NEW s \in Shards PROVE Reads(load.backings[s], s) /\ Reads(serving'[s], s)
  <2>1. Reads(load.backings[s], s) /\ Reads(serving[s], s)
    BY DEF FilesInv, MappingsOK
  <2>2. serving'[s] = IF s = load.shard THEN load.backings[s] ELSE serving[s]
    BY <1>1, <1>2
  <2>3. QED
    BY <2>1, <2>2
<1>4. DOMAIN serving' = Shards
  BY <1>1, <1>2
<1>5. CASE load' = NoLoad
  <2>1. LoadOK'
    BY <1>4, <1>5, NoLoadIsOK DEF LoadOK
  <2>2. \A s \in Shards : Reads(load'.backings[s], s) /\ Reads(serving'[s], s)
    BY <1>3, <1>5, NoLoadIsOK DEF Reads
  <2>3. QED
    BY <1>1, <2>1, <2>2, NewMappings
<1>6. CASE load.shard + 1 # Index.shard_count /\ load' = [load EXCEPT !.shard = @ + 1]
  <2>1. /\ load'.pc = "cutover" /\ load'.path = load.path /\ load'.shard = load.shard + 1
        /\ load'.backings = load.backings
        /\ load' = [pc |-> load'.pc, path |-> load'.path, shard |-> load'.shard,
                    backings |-> load'.backings]
    BY <1>1, <1>2, <1>6
  <2>2. load.shard + 1 \in Shards
    BY <1>2, <1>6, FilesAssumption DEF Shards
  <2>3. LoadOK'
    BY <1>2, <1>4, <2>1, <2>2 DEF LoadOK
  <2>4. QED
    BY <1>1, <1>3, <2>1, <2>3, NewMappings
<1>7. QED
  BY <1>1, <1>5, <1>6

(* Damage changes nothing but that a file is damaged. *)
LEMMA DamageFileChanges ==
  ASSUME FilesInv, NEW d \in Paths, NEW p \in DOMAIN files[d], DamageFile(d, p)
  PROVE  /\ DOMAIN files' = Paths
         /\ \A q \in Paths : DOMAIN files'[q] = DOMAIN files[q]
         /\ \A q \in Paths : \A name \in DOMAIN files[q] :
              ~(q = d /\ name = p) => files'[q][name] = files[q][name]
         /\ WrittenBy(files'[d][p], p)
         /\ files'[d][p].build = files[d][p].build /\ files'[d][p].run = files[d][p].run
<1>1. PICK f \in Images(files[d][p].build, p) :
        \E damage \in Changes(f) \cup Unwritten(f) :
          files' = [files EXCEPT ![d][p].damage = damage]
  BY DEF DamageFile
<1>2. PICK damage \in Changes(f) \cup Unwritten(f) :
        files' = [files EXCEPT ![d][p].damage = damage]
  BY <1>1
<1>3. PICK file : file = files[d][p]
  OBVIOUS
<1>4. WrittenBy(file, p) /\ DOMAIN files = Paths
  BY <1>3 DEF FilesInv, BuilderOK, DirectoriesOK
<1>5. PICK n, run : /\ n = file.build /\ run = file.run /\ file = File(n, run, p, file.damage)
                    /\ n \in DOMAIN Artifacts /\ p \in ToSet(Artifacts[n].parts)
  BY <1>4 DEF WrittenBy
<1>6. [file EXCEPT !.damage = damage] = File(n, run, p, damage)
  BY <1>5 DEF File
<1>7. files'[d][p] = File(n, run, p, damage)
  BY <1>2, <1>3, <1>4, <1>6
<1>8. PICK w \in Artifacts[n].files[p] : w.image = f
  BY <1>1, <1>3, <1>5 DEF Images
<1>9. damage \in Damages(w.image)
  BY <1>2, <1>8 DEF Damages
<1>10. WrittenBy(File(n, run, p, damage), p)
  BY <1>5, <1>9, FileFields DEF WrittenBy
<1>11. /\ DOMAIN files' = Paths
       /\ \A q \in Paths : DOMAIN files'[q] = DOMAIN files[q]
       /\ \A q \in Paths : \A name \in DOMAIN files[q] :
            ~(q = d /\ name = p) => files'[q][name] = files[q][name]
  BY <1>2, <1>4
<1>12. QED
  BY <1>3, <1>5, <1>7, <1>10, <1>11, FileFields

(* Only a file that nobody has mapped is damaged, and no build is writing. *)
LEMMA DamageFileFilesInv ==
  ASSUME FilesInv, NEW d \in Paths, NEW p \in DOMAIN files[d], DamageFile(d, p)
  PROVE  FilesInv'
<1>1. /\ builder.pc = "idle" /\ UNCHANGED <<realtime, builder, load, serving>>
      /\ builds' = builds
      /\ \A s \in Shards : \A m \in {serving[s], load.backings[s]} :
           m # None => ~(m.path = d /\ m.name = p)
  BY DEF DamageFile
<1>2. DOMAIN files = Paths
  BY DEF FilesInv, BuilderOK
<1>3. DirectoriesOK'
  <2>1. ASSUME NEW q \in Paths, NEW name \in DOMAIN files'[q]
        PROVE  WrittenBy(files'[q][name], name) /\ files'[q][name].run \in 0 .. builds
    <3>1. name \in DOMAIN files[q] /\ files[q][name].run \in 0 .. builds
          /\ WrittenBy(files[q][name], name)
      BY <2>1, DamageFileChanges DEF FilesInv, DirectoriesOK
    <3>2. CASE q = d /\ name = p
      BY <3>1, <3>2, DamageFileChanges
    <3>3. CASE ~(q = d /\ name = p)
      BY <3>1, <3>3, DamageFileChanges
    <3>4. QED
      BY <3>2, <3>3
  <2>2. QED
    BY <1>1, <2>1 DEF DirectoriesOK
<1>4. /\ DOMAIN files' = Paths
      /\ \A q \in Paths : DOMAIN files'[q] = DOMAIN files[q]
      /\ \A q \in Paths : \A name \in DOMAIN files[q] :
           ~(q = d /\ name = p) => files'[q][name] = files[q][name]
  BY DamageFileChanges
<1>5. BuilderOK'
  BY <1>1, <1>4 DEF FilesInv, BuilderOK
<1>6. LoadOK'
  BY <1>1 DEF FilesInv, LoadOK
<1>7. ASSUME NEW s \in Shards, NEW m, Reads(m, s), m # None => ~(m.path = d /\ m.name = p)
      PROVE  Reads(m, s)'
  <2> SUFFICES ASSUME m # None
               PROVE  /\ m.path \in Paths
                      /\ m.name \in DOMAIN files'[m.path]
                      /\ m.file.run \in Nat /\ m.file.run <= files'[m.path][m.name].run
                      /\ files'[m.path][m.name].run = m.file.run =>
                           files'[m.path][m.name] = m.file
                      /\ WrittenBy(m.file, m.name)
                      /\ View(m.file, s)' # {}
    BY DEF Reads
  <2>1. /\ m.path \in Paths /\ m.name \in DOMAIN files[m.path]
        /\ m.file.run \in Nat /\ m.file.run <= files[m.path][m.name].run
        /\ files[m.path][m.name].run = m.file.run => files[m.path][m.name] = m.file
        /\ WrittenBy(m.file, m.name) /\ View(m.file, s) # {}
    BY <1>7 DEF Reads
  <2>2. View(m.file, s)' = View(m.file, s)
    BY <1>1 DEF View
  <2>3. QED
    BY <1>4, <1>7, <2>1, <2>2
<1>8. ASSUME NEW s \in Shards
      PROVE  Reads(load.backings[s], s)' /\ Reads(serving[s], s)'
  <2>1. PICK m : m = load.backings[s]
    OBVIOUS
  <2>2. PICK q : q = serving[s]
    OBVIOUS
  <2>3. Reads(m, s) /\ Reads(q, s)
    BY <2>1, <2>2 DEF FilesInv, MappingsOK
  <2>4. Reads(m, s)' /\ Reads(q, s)'
    BY <1>1, <1>7, <2>1, <2>2, <2>3
  <2>5. m = load'.backings[s] /\ q = serving'[s]
    BY <1>1, <2>1, <2>2
  <2>6. QED
    BY <2>4, <2>5 DEF Reads
<1>9. MappingsOK'
  BY <1>8 DEF MappingsOK
<1>10. QED
  BY <1>3, <1>5, <1>6, <1>9 DEF FilesInv

-----------------------------------------------------------------------------
(* No file changes under a mapping. *)

LEMMA NextFilesInv == ASSUME FilesInv, [Next]_vars PROVE FilesInv'
<1>1. CASE \E n \in DOMAIN Artifacts : BeginBuild(n)
  BY <1>1, BeginBuildFilesInv
<1>2. CASE MakeDirs
  BY <1>2, MakeDirsFilesInv
<1>3. CASE WriteSchema
  BY <1>3, WriteSchemaFilesInv
<1>4. CASE OpenFile
  BY <1>4, OpenFileFilesInv
<1>5. CASE WriteFile
  BY <1>5, WriteFileFilesInv
<1>6. CASE WriteFileFails
  BY <1>6, WriteFileFailsFilesInv
<1>7. CASE \E d \in Paths : BeginLoad(d)
  BY <1>7, BeginLoadFilesInv
<1>8. CASE MapShard
  BY <1>8, MapShardFilesInv
<1>9. CASE LoadFails
  <2>1. UNCHANGED <<realtime, files, builds, builder, serving>> /\ load' = NoLoad
    BY <1>9 DEF LoadFails, buildVars
  <2>2. QED
    BY <2>1, LoadEndsFilesInv
<1>10. CASE CheckProgress
  BY <1>10, CheckProgressFilesInv
<1>11. CASE PublishShard
  BY <1>11, PublishShardFilesInv
<1>12. CASE \E d \in Paths : \E p \in DOMAIN files[d] : DamageFile(d, p)
  BY <1>12, DamageFileFilesInv
<1>13. CASE UNCHANGED vars
  <2>1. UNCHANGED <<realtime, files, builds, builder, load, serving>>
    BY <1>13 DEF vars, buildVars
  <2>2. QED
    BY <2>1, BuilderStays, MappingsStay DEF FilesInv
<1>14. QED
  BY <1>1, <1>2, <1>3, <1>4, <1>5, <1>6, <1>7, <1>8, <1>9, <1>10, <1>11, <1>12, <1>13
  DEF Next

(* Whatever builds are run, into new directories or into ones that are     *)
(* served: every file is one that a build has written or was writing when  *)
(* it died, the file that is being written is refused by every load, and   *)
(* every mapping of a load or of a serving shard names a file that is as   *)
(* it was when ParseArtifact validated it, or that a later run has opened  *)
(* (WriteArtifactWithShards, MapFile, LoadShard).                          *)
THEOREM FilesInvariant == Spec => []FilesInv
<1>1. Init => FilesInv
  BY InitFilesInv
<1>2. FilesInv /\ [Next]_vars => FilesInv'
  BY NextFilesInv
<1>3. QED
  BY <1>1, <1>2, PTL DEF Spec

(* A shard that serves lookups reads from the file that was validated as   *)
(* long as no later build opens it: though WriteArtifactWithShards writes  *)
(* in place and the mapping follows the file, no load can map a file in    *)
(* the middle of its writing, since CheckBounds refuses it.                *)
THEOREM MappedFilesStay == Spec => []LookupSeesWholeRows
<1>1. FilesInv => LookupSeesWholeRows
  BY DEF FilesInv, MappingsOK, Reads, LookupSeesWholeRows, NotReopened, Mapped
<1>2. QED
  BY <1>1, FilesInvariant, PTL

-----------------------------------------------------------------------------
(* What a build leaves that ends well. *)

(* Every part of the build is among those left to write or is there, and   *)
(* the schema file, which comes first.                                     *)
BuildProgress ==
  builder.pc # "idle" =>
    /\ finished[Here] = None
    /\ \A p \in ToSet(Artifacts[builder.name].parts) :
         p \in ToSet(builder.parts) \/ HasFile(Here, p, builder.name, builds)
    /\ builder.pc \in {"open", "write"} /\ Artifacts[builder.name].parts # <<AllShards>> =>
         HasSchema(Here, builder.name, builds)

FinishedInv ==
  /\ DOMAIN schemas = Paths /\ DOMAIN finished = Paths
  /\ FinishedBuildIsWhole
  /\ BuildProgress

LEMMA InitFinished == ASSUME Init PROVE FinishedInv
BY DEF Init, FinishedInv, FinishedBuildIsWhole, BuildProgress, NoBuilder

(* What is whole stays whole while others write. *)
LEMMA FinishedStays ==
  ASSUME FinishedBuildIsWhole, NEW d \in Paths, finished[d] # None,
         finished'[d] = finished[d], schemas'[d] = schemas[d],
         DOMAIN files[d] \subseteq DOMAIN files'[d],
         \A p \in DOMAIN files[d] : /\ files'[d][p].build = files[d][p].build
                                    /\ files'[d][p].run = files[d][p].run
  PROVE  HoldsRun(d, finished[d].build, finished[d].run)'
<1>1. PICK n, run : n = finished[d].build /\ run = finished[d].run
  OBVIOUS
<1>2. PICK parts : parts = Artifacts[n].parts
  OBVIOUS
<1>3. HoldsRun(d, n, run)
  BY <1>1 DEF FinishedBuildIsWhole
<1>4. /\ \A p \in ToSet(parts) : HasFile(d, p, n, run)
      /\ parts # <<AllShards>> => HasSchema(d, n, run)
  BY <1>2, <1>3 DEF HoldsRun
<1>5. \A p \in ToSet(parts) : HasFile(d, p, n, run)'
  BY <1>4 DEF HasFile
<1>6. parts # <<AllShards>> => HasSchema(d, n, run)'
  BY <1>4 DEF HasSchema
<1>7. HoldsRun(d, n, run)'
  BY <1>2, <1>5, <1>6 DEF HoldsRun
<1>8. n = finished'[d].build /\ run = finished'[d].run
  BY <1>1
<1>9. QED
  BY <1>7, <1>8 DEF HoldsRun, HasFile, HasSchema

(* The steps that write no file: the build ends, or goes on with what it   *)
(* has.                                                                    *)
LEMMA ProgressStays ==
  ASSUME FilesInv, FinishedInv, UNCHANGED <<files, schemas, finished>>,
         \/ builder'.pc = "idle"
         \/ /\ builds' = builds
            /\ \/ builder' = builder
               \/ /\ builder.pc = "make_dirs" /\ builder'.pc = "write_schema"
                  /\ builder'.name = builder.name /\ builder'.output = builder.output
                  /\ builder'.parts = builder.parts
  PROVE  FinishedInv'
<1>1. DOMAIN schemas' = Paths /\ DOMAIN finished' = Paths /\ FinishedBuildIsWhole'
  BY DEF FinishedInv, FinishedBuildIsWhole, HoldsRun, HasFile, HasSchema
<1>2. BuildProgress'
  <2>1. CASE builder'.pc = "idle"
    BY <2>1 DEF BuildProgress
  <2>2. CASE builder'.pc # "idle"
    <3>1. /\ builder.pc # "idle" /\ builder'.name = builder.name /\ Here' = Here
          /\ builder'.parts = builder.parts /\ builds' = builds
          /\ builder'.pc \in {"open", "write"} => builder.pc \in {"open", "write"}
      BY <2>2 DEF Here
    <3>2. QED
      BY <3>1 DEF FinishedInv, BuildProgress, HasFile, HasSchema
  <2>3. QED
    BY <2>1, <2>2
<1>3. QED
  BY <1>1, <1>2 DEF FinishedInv

LEMMA BeginBuildFinished ==
  ASSUME FilesInv, FinishedInv, NEW n \in DOMAIN Artifacts, BeginBuild(n)
  PROVE  FinishedInv'
<1>1. PICK here, parts : here = Artifacts[n].output /\ parts = Artifacts[n].parts
  OBVIOUS
<1>2. /\ UNCHANGED <<files, schemas>> /\ finished' = [finished EXCEPT ![here] = None]
      /\ builder'.name = n /\ builder'.output = here /\ builder'.parts = parts
      /\ builder'.pc = IF parts = <<AllShards>> THEN "open" ELSE "make_dirs"
      /\ here \in Paths
  BY <1>1, BuildsAssumption DEF BeginBuild
<1>3. /\ DOMAIN finished' = Paths /\ finished'[here] = None
      /\ \A d \in Paths : d # here => finished'[d] = finished[d]
  BY <1>2 DEF FinishedInv
<1>4. FinishedBuildIsWhole'
  <2>1. SUFFICES ASSUME NEW d \in Paths, finished'[d] # None
                 PROVE  HoldsRun(d, finished[d].build, finished[d].run)'
    BY DEF FinishedBuildIsWhole
  <2>2. finished'[d] = finished[d]
    BY <1>3, <2>1
  <2>3. FinishedBuildIsWhole
    BY DEF FinishedInv
  <2>4. QED
    BY <1>2, <2>1, <2>2, <2>3, FinishedStays
<1>5. BuildProgress'
  BY <1>1, <1>2, <1>3 DEF BuildProgress, Here
<1>6. QED
  BY <1>2, <1>3, <1>4, <1>5 DEF FinishedInv

LEMMA WriteSchemaFinished ==
  ASSUME FilesInv, FinishedInv, WriteSchema PROVE FinishedInv'
<1>1. /\ builder.pc = "write_schema" /\ UNCHANGED <<files, finished, builds>>
      /\ \/ builder' = NoBuilder /\ schemas' = schemas
         \/ /\ builder' \in {NoBuilder, [builder EXCEPT !.pc = "open"]}
            /\ \E whole \in BOOLEAN : SetSchema(whole)
  BY DEF WriteSchema, Exit
<1>2. PICK n, here, run : n = builder.name /\ here = Here /\ run = builds
  OBVIOUS
<1>3. here \in Paths /\ finished[here] = None
  BY <1>1, <1>2 DEF FilesInv, BuilderOK, FinishedInv, BuildProgress
<1>4. CASE builder' = NoBuilder /\ schemas' = schemas
  <2>1. builder'.pc = "idle"
    BY <1>4 DEF NoBuilder
  <2>2. QED
    BY <1>1, <1>4, <2>1, ProgressStays
<1>5. CASE /\ builder' \in {NoBuilder, [builder EXCEPT !.pc = "open"]}
           /\ \E whole \in BOOLEAN : SetSchema(whole)
  <2>1. PICK whole \in BOOLEAN :
          schemas' = [schemas EXCEPT ![here] = [build |-> n, run |-> run, whole |-> whole]]
    BY <1>2, <1>5 DEF SetSchema
  <2>2. /\ DOMAIN schemas' = Paths /\ HasSchema(here, n, run)'
        /\ \A d \in Paths : d # here => schemas'[d] = schemas[d]
    BY <1>3, <2>1 DEF FinishedInv, HasSchema
  <2>3. FinishedBuildIsWhole'
    <3>1. ASSUME NEW d \in Paths, finished'[d] # None
          PROVE  HoldsRun(d, finished[d].build, finished[d].run)'
      <4>1. d # here /\ finished[d] # None
        BY <1>1, <1>3, <3>1
      <4>2. QED
        BY <1>1, <2>2, <4>1, FinishedStays DEF FinishedInv
    <3>2. QED
      BY <3>1 DEF FinishedBuildIsWhole
  <2>4. BuildProgress'
    <3>1. CASE builder' = NoBuilder
      BY <3>1 DEF BuildProgress, NoBuilder
    <3>2. CASE builder' = [builder EXCEPT !.pc = "open"]
      <4>1. /\ builder'.pc = "open" /\ builder'.name = n /\ Here' = here
            /\ builder'.parts = builder.parts /\ builds' = run /\ finished'[here] = None
        BY <1>1, <1>2, <1>3, <3>2 DEF FilesInv, BuilderOK, Here
      <4>2. \A p \in ToSet(Artifacts[n].parts) :
              p \in ToSet(builder.parts) \/ HasFile(here, p, n, run)
        BY <1>1, <1>2 DEF FinishedInv, BuildProgress
      <4>3. \A p \in ToSet(Artifacts[n].parts) :
              p \in ToSet(builder.parts) \/ HasFile(here, p, n, run)'
        BY <1>1, <4>2 DEF HasFile
      <4>4. QED
        BY <2>2, <4>1, <4>3 DEF BuildProgress, HasFile, HasSchema
    <3>3. QED
      BY <1>5, <3>1, <3>2
  <2>5. QED
    BY <1>1, <2>2, <2>3, <2>4 DEF FinishedInv
<1>6. QED
  BY <1>1, <1>4, <1>5

(* A build sets a file: what other paths have stays, and at its own only   *)
(* that file is another.                                                   *)
LEMMA SetFileProgress ==
  ASSUME FilesInv, FinishedInv, builder.pc \in {"open", "write"}, NEW damage,
         SetFile(damage), UNCHANGED <<schemas, builds>>
  PROVE  /\ \A p : HasFile(Here, p, builder.name, builds) \/ p = Part =>
              /\ p \in DOMAIN files'[Here]
              /\ files'[Here][p].build = builder.name /\ files'[Here][p].run = builds
         /\ \A d \in Paths : d # Here => files'[d] = files[d]
<1>1. /\ files'[Here][Part].build = builder.name /\ files'[Here][Part].run = builds
  BY SetFileChanges, FileFields
<1>2. ASSUME NEW p, HasFile(Here, p, builder.name, builds) \/ p = Part
      PROVE  /\ p \in DOMAIN files'[Here]
             /\ files'[Here][p].build = builder.name /\ files'[Here][p].run = builds
  <2>1. CASE p = Part
    BY <1>1, <2>1, SetFileChanges
  <2>2. CASE p # Part
    BY <1>2, <2>2, SetFileChanges DEF HasFile
  <2>3. QED
    BY <2>1, <2>2
<1>3. QED
  BY <1>2, SetFileChanges

(* Nothing is left to write but the part that was written. *)
LEMMA LastPart ==
  ASSUME NEW S, NEW seq \in Seq(S), Len(seq) = 1, NEW p \in ToSet(seq)
  PROVE  p = Head(seq)
BY DEF ToSet

LEMMA OtherPart ==
  ASSUME NEW S, NEW seq \in Seq(S), seq # <<>>, Len(seq) # 1, NEW p \in ToSet(seq)
  PROVE  p = Head(seq) \/ p \in ToSet(Tail(seq))
<1>1. /\ Len(seq) \in Nat /\ Len(seq) > 1
      /\ Tail(seq) \in Seq(S)
      /\ Len(Tail(seq)) = Len(seq) - 1
      /\ \A i \in 1 .. Len(seq) - 1 : Tail(seq)[i] = seq[i + 1]
  BY TailOf
<1>2. PICK i \in 1 .. Len(seq) : p = seq[i]
  BY DEF ToSet
<1>3. CASE i = 1
  BY <1>1, <1>2, <1>3
<1>4. CASE i # 1
  <2>1. PICK j \in 1 .. Len(seq) - 1 : i = j + 1
    BY <1>1, <1>2, <1>4
  <2>2. p = Tail(seq)[j] /\ j \in 1 .. Len(Tail(seq))
    BY <1>1, <1>2, <2>1
  <2>3. DOMAIN Tail(seq) = 1 .. Len(Tail(seq))
    BY <1>1
  <2>4. QED
    BY <2>2, <2>3 DEF ToSet
<1>5. QED
  BY <1>3, <1>4

(* A build sets its file and goes on or ends, with an error or well. *)
LEMMA SetFileFinished ==
  ASSUME FilesInv, FinishedInv, builder.pc \in {"open", "write"}, NEW damage,
         SetFile(damage), UNCHANGED <<schemas, builds>>,
         \/ Exit
         \/ builder.pc = "write" /\ FileWritten
         \/ finished' = finished /\ builder' = [builder EXCEPT !.pc = "write"]
  PROVE  FinishedInv'
<1>1. PICK n, here, part, run :
        n = builder.name /\ here = Here /\ part = Part /\ run = builds
  OBVIOUS
<1>2. /\ n \in DOMAIN Artifacts /\ here \in Paths /\ builder.parts # <<>>
      /\ builder.parts \in Seq(ToSet(Artifacts[n].parts)) /\ part = Head(builder.parts)
      /\ builder = [pc |-> builder.pc, name |-> builder.name, output |-> builder.output,
                    parts |-> builder.parts]
  BY <1>1 DEF FilesInv, BuilderOK, Part
<1>3. /\ finished[here] = None
      /\ \A p \in ToSet(Artifacts[n].parts) :
           p \in ToSet(builder.parts) \/ HasFile(here, p, n, run)
      /\ Artifacts[n].parts # <<AllShards>> => HasSchema(here, n, run)
      /\ DOMAIN schemas = Paths /\ DOMAIN finished = Paths
  BY <1>1 DEF FinishedInv, BuildProgress
<1>4. /\ \A p : HasFile(here, p, n, run) \/ p = part =>
           /\ p \in DOMAIN files'[here]
           /\ files'[here][p].build = n /\ files'[here][p].run = run
      /\ \A d \in Paths : d # here => files'[d] = files[d]
  BY <1>1, SetFileProgress
<1>5. \A p : HasFile(here, p, n, run) \/ p = part => HasFile(here, p, n, run)'
  BY <1>4 DEF HasFile
<1>6. Artifacts[n].parts # <<AllShards>> => HasSchema(here, n, run)'
  BY <1>3 DEF HasSchema
<1>7. ASSUME DOMAIN finished' = Paths, \A d \in Paths : d # here => finished'[d] = finished[d],
             finished'[here] # None =>
               /\ finished'[here] = [build |-> n, run |-> run]
               /\ \A p \in ToSet(Artifacts[n].parts) : HasFile(here, p, n, run)'
      PROVE  FinishedBuildIsWhole'
  <2>1. ASSUME NEW d \in Paths, finished'[d] # None
        PROVE  HoldsRun(d, finished[d].build, finished[d].run)'
    <3>1. CASE d # here
      BY <1>4, <1>7, <2>1, <3>1, FinishedStays DEF FinishedInv
    <3>2. CASE d = here
      <4>1. finished'[d].build = n /\ finished'[d].run = run
        BY <1>7, <2>1, <3>2
      <4>2. /\ \A p \in ToSet(Artifacts[n].parts) : HasFile(d, p, n, run)'
            /\ Artifacts[n].parts # <<AllShards>> => HasSchema(d, n, run)'
        BY <1>6, <1>7, <2>1, <3>2
      <4>3. QED
        BY <4>1, <4>2 DEF HoldsRun, HasFile, HasSchema
    <3>3. QED
      BY <3>1, <3>2
  <2>2. QED
    BY <2>1 DEF FinishedBuildIsWhole
<1>8. CASE Exit
  <2>1. finished' = finished /\ builder'.pc = "idle"
    BY <1>8 DEF Exit, NoBuilder
  <2>2. FinishedBuildIsWhole'
    BY <1>3, <1>7, <2>1
  <2>3. QED
    BY <1>3, <2>1, <2>2 DEF FinishedInv, BuildProgress
<1>9. CASE finished' = finished /\ builder' = [builder EXCEPT !.pc = "write"]
  <2>1. FinishedBuildIsWhole'
    BY <1>3, <1>7, <1>9
  <2>2. /\ builder'.pc = "write" /\ builder'.name = n /\ Here' = here
        /\ builder'.parts = builder.parts /\ builds' = run /\ finished'[here] = None
    BY <1>1, <1>2, <1>3, <1>9 DEF Here
  <2>3. BuildProgress'
    BY <1>3, <1>5, <1>6, <2>2 DEF BuildProgress, HasFile, HasSchema
  <2>4. QED
    BY <1>3, <1>9, <2>1, <2>3 DEF FinishedInv
<1>10. CASE builder.pc = "write" /\ FileWritten
  <2>1. CASE Len(builder.parts) = 1
    <3>1. /\ builder'.pc = "idle"
          /\ finished' = [finished EXCEPT ![here] = [build |-> n, run |-> run]]
      BY <1>1, <1>10, <2>1 DEF FileWritten, NoBuilder
    <3>2. \A p \in ToSet(Artifacts[n].parts) : HasFile(here, p, n, run)'
      BY <1>2, <1>3, <1>5, <2>1, LastPart
    <3>3. FinishedBuildIsWhole'
      BY <1>2, <1>3, <1>7, <3>1, <3>2
    <3>4. QED
      BY <1>3, <3>1, <3>3 DEF FinishedInv, BuildProgress
  <2>2. CASE Len(builder.parts) # 1
    <3>1. /\ builder' = [builder EXCEPT !.pc = "open", !.parts = Tail(@)]
          /\ finished' = finished
      BY <1>10, <2>2 DEF FileWritten
    <3>2. /\ builder'.pc = "open" /\ builder'.name = n /\ Here' = here
          /\ builder'.parts = Tail(builder.parts) /\ builds' = run /\ finished'[here] = None
      BY <1>1, <1>2, <1>3, <3>1 DEF Here
    <3>3. \A p \in ToSet(Artifacts[n].parts) :
            p \in ToSet(Tail(builder.parts)) \/ HasFile(here, p, n, run)'
      BY <1>2, <1>3, <1>5, <2>2, OtherPart
    <3>4. BuildProgress'
      BY <1>6, <3>2, <3>3 DEF BuildProgress, HasFile, HasSchema
    <3>5. FinishedBuildIsWhole'
      BY <1>3, <1>7, <3>1
    <3>6. QED
      BY <1>3, <3>1, <3>4, <3>5 DEF FinishedInv
  <2>3. QED
    BY <2>1, <2>2
<1>11. QED
  BY <1>8, <1>9, <1>10

LEMMA DamageFileFinished ==
  ASSUME FilesInv, FinishedInv, NEW d \in Paths, NEW p \in DOMAIN files[d], DamageFile(d, p)
  PROVE  FinishedInv'
<1>1. builder.pc = "idle" /\ UNCHANGED <<schemas, builds, builder, finished>>
  BY DEF DamageFile
<1>2. ASSUME NEW e \in Paths, finished'[e] # None
      PROVE  HoldsRun(e, finished[e].build, finished[e].run)'
  <2>1. /\ DOMAIN files[e] \subseteq DOMAIN files'[e]
        /\ \A q \in DOMAIN files[e] : /\ files'[e][q].build = files[e][q].build
                                      /\ files'[e][q].run = files[e][q].run
    BY DamageFileChanges
  <2>2. QED
    BY <1>1, <1>2, <2>1, FinishedStays DEF FinishedInv
<1>3. FinishedBuildIsWhole'
  BY <1>2 DEF FinishedBuildIsWhole
<1>4. QED
  BY <1>1, <1>3 DEF FinishedInv, BuildProgress

LEMMA NextFinished == ASSUME FilesInv, FinishedInv, [Next]_vars PROVE FinishedInv'
<1>1. CASE \E n \in DOMAIN Artifacts : BeginBuild(n)
  BY <1>1, BeginBuildFinished
<1>2. CASE MakeDirs
  <2>1. /\ UNCHANGED <<files, schemas, finished, builds>> /\ builder.pc = "make_dirs"
        /\ builder' = NoBuilder \/ builder' = [builder EXCEPT !.pc = "write_schema"]
    BY <1>2 DEF MakeDirs, Exit
  <2>2. \/ builder'.pc = "idle"
        \/ /\ builder'.pc = "write_schema" /\ builder'.name = builder.name
           /\ builder'.output = builder.output /\ builder'.parts = builder.parts
    BY <2>1 DEF FilesInv, BuilderOK, NoBuilder
  <2>3. QED
    BY <2>1, <2>2, ProgressStays
<1>3. CASE WriteSchema
  BY <1>3, WriteSchemaFinished
<1>4. CASE OpenFile
  <2>1. builder.pc = "open" /\ UNCHANGED <<schemas, builds>>
    BY <1>4 DEF OpenFile
  <2>2. CASE Exit /\ UNCHANGED files
    <3>1. builder'.pc = "idle" /\ finished' = finished
      BY <2>2 DEF Exit, NoBuilder
    <3>2. QED
      BY <2>1, <2>2, <3>1, ProgressStays
  <2>3. ASSUME NEW damage, SetFile(damage), finished' = finished,
               builder' = [builder EXCEPT !.pc = "write"]
        PROVE  FinishedInv'
    BY <2>1, <2>3, SetFileFinished
  <2>4. QED
    BY <1>4, <2>2, <2>3 DEF OpenFile
<1>5. CASE WriteFile
  <2>1. builder.pc = "write" /\ SetFile(NoDamage) /\ FileWritten /\ UNCHANGED <<schemas, builds>>
    BY <1>5 DEF WriteFile
  <2>2. QED
    BY <2>1, SetFileFinished
<1>6. CASE WriteFileFails
  <2>1. builder.pc = "write" /\ UNCHANGED <<schemas, builds>>
    BY <1>6 DEF WriteFileFails
  <2>2. PICK damage : SetFile(damage) /\ (FileWritten \/ Exit)
    BY <1>6 DEF WriteFileFails
  <2>3. QED
    BY <2>1, <2>2, SetFileFinished
<1>7. CASE UNCHANGED <<files, schemas, finished, builds, builder>>
  BY <1>7, ProgressStays
<1>8. CASE \E d \in Paths : \E p \in DOMAIN files[d] : DamageFile(d, p)
  BY <1>8, DamageFileFinished
<1>9. \/ \E d \in Paths : BeginLoad(d)
      \/ MapShard \/ LoadFails \/ CheckProgress \/ PublishShard \/ UNCHANGED vars
      => UNCHANGED <<files, schemas, finished, builds, builder>>
  <2>1. \A d \in Paths : BeginLoad(d) => UNCHANGED buildVars
    BY DEF BeginLoad
  <2>2. MapShard => UNCHANGED buildVars
    BY DEF MapShard
  <2>3. LoadFails => UNCHANGED buildVars
    BY DEF LoadFails
  <2>4. CheckProgress => UNCHANGED buildVars
    BY DEF CheckProgress
  <2>5. PublishShard => UNCHANGED buildVars
    BY DEF PublishShard
  <2>6. UNCHANGED vars => UNCHANGED buildVars
    BY DEF vars
  <2>7. UNCHANGED buildVars => UNCHANGED <<files, schemas, finished, builds, builder>>
    BY DEF buildVars
  <2>8. QED
    BY <2>1, <2>2, <2>3, <2>4, <2>5, <2>6, <2>7
<1>10. QED
  BY <1>1, <1>2, <1>3, <1>4, <1>5, <1>6, <1>7, <1>8, <1>9 DEF Next

(* When the builder has ended with success and no build has begun in its   *)
(* directory since, every shard file there is one of that run, and so is   *)
(* the schema file, also if earlier builds have died there between any two *)
(* files or their files had other shards: nothing of theirs is left where  *)
(* the build has a file (BuildArtifactDirectory, WriteSchemaFile,          *)
(* WriteArtifactWithShards).                                               *)
THEOREM FinishedBuildsAreWhole == Spec => []FinishedBuildIsWhole
<1>1. Init => FilesInv /\ FinishedInv
  BY InitFilesInv, InitFinished
<1>2. FilesInv /\ FinishedInv /\ [Next]_vars => FilesInv' /\ FinishedInv'
  BY NextFilesInv, NextFinished
<1>3. FinishedInv => FinishedBuildIsWhole
  BY DEF FinishedInv
<1>4. QED
  BY <1>1, <1>2, <1>3, PTL DEF Spec

-----------------------------------------------------------------------------
(* What loads accept and lookups yield. *)

(* What a load finds in a file that some build wrote. *)
LEMMA ViewIsAsWritten ==
  ASSUME ReadsBack, NEW n, NEW p, NEW file, WrittenBy(file, p), file.build = n,
         NEW s \in Shards, realtime \in RealtimeModes, NEW v \in View(file, s)
  PROVE  /\ v.layout = Artifacts[n].spec.layout
         /\ realtime => v.source_progress = Artifacts[n].spec.source_progress
         /\ v.rows = Artifacts[n].written[s]
<1>1. PICK damage : /\ damage = file.damage /\ file = File(n, file.run, p, damage)
                    /\ n \in DOMAIN Artifacts /\ p \in ToSet(Artifacts[n].parts)
                    /\ \E w \in Artifacts[n].files[p] : damage \in Damages(w.image)
  BY DEF WrittenBy
<1>2. file.build = n /\ file.part = p /\ file.damage = damage
  BY <1>1 DEF File
<1>3. PICK w \in Artifacts[n].files[p] : v \in w.views[damage][s][realtime]
  BY <1>2 DEF View
<1>4. damage \in Damages(w.image)
  BY <1>1, CatalogueEntry
<1>5. damage \notin Cuts(w.image) /\ damage \notin Unwritten(w.image)
  BY <1>1, <1>3, CutIsRefused, UnwrittenIsRefused
<1>6. damage \in {NoDamage} \cup Changes(w.image)
  BY <1>4, <1>5 DEF Damages
<1>7. QED
  BY <1>1, <1>2, <1>3, <1>6 DEF ReadsBack

LEMMA AcceptedAsWritten ==
  ASSUME ReadsBack, FilesInv PROVE AcceptedFileIsAsWritten
<1> SUFFICES ASSUME NEW s \in Shards, load.backings[s] # None,
                    NEW v \in View(load.backings[s].file, s)
             PROVE  LET build == Artifacts[load.backings[s].file.build] IN
                    /\ v.layout = build.spec.layout
                    /\ realtime => v.source_progress = build.spec.source_progress
                    /\ v.rows = build.written[s]
  BY DEF AcceptedFileIsAsWritten
<1>1. PICK m : m = load.backings[s]
  OBVIOUS
<1>2. WrittenBy(m.file, m.name) /\ realtime \in RealtimeModes
  BY <1>1 DEF FilesInv, BuilderOK, MappingsOK, Reads
<1>3. QED
  BY <1>1, <1>2, ViewIsAsWritten

(* The header has the configuration of the build. *)
LEMMA HeaderIsOfSpec ==
  ASSUME NEW n \in DOMAIN Artifacts, NEW p \in ToSet(Artifacts[n].parts),
         NEW w \in Artifacts[n].files[p]
  PROVE  /\ w.image.header.layout_fingerprint = BuildFingerprint(Artifacts[n].spec.layout)
         /\ w.image.header.schema_version = Artifacts[n].spec.schema_version
         /\ w.image.header.shard_count = Artifacts[n].spec.shard_count
         /\ w.image.header.hash_seed = Artifacts[n].spec.hash_seed
         /\ w.image.header.hash_version = Artifacts[n].spec.hash_version
         /\ {"shard_count", "hash_seed", "hash_version"} \subseteq DOMAIN w.image.header
<1>1. PICK b : /\ Artifacts[n].parts = b.parts /\ Artifacts[n].files = WrittenFiles(b)
               /\ Artifacts[n].spec = b.spec
  BY ArtifactsAssumption DEF Catalogue
<1>2. PICK selected : WrittenFile(b.spec, p) = WriteArtifactWithShards(b.spec, selected)
  BY DEF WrittenFile, WriteArtifact, WriteArtifactShard
<1>3. PICK f \in WrittenFile(b.spec, p) : w.image = f
  BY <1>1 DEF WrittenFiles
<1>4. PICK sections : f = FileOf(b.spec, sections)
  BY <1>2, <1>3 DEF WriteArtifactWithShards
<1>5. f.header = HeaderOf(b.spec, Len(sections))
  BY <1>4 DEF FileOf
<1>6. QED
  BY <1>1, <1>3, <1>5 DEF HeaderOf

LEMMA OtherFieldStays ==
  ASSUME NEW header, NEW key \in DOMAIN header, NEW field, field # key, NEW value
  PROVE  [header EXCEPT ![field] = value][key] = header[key]
OBVIOUS

(* Damage changes a field of the header only where it is that field's.     *)
LEMMA DamageKeepsField ==
  ASSUME NEW f, IsImage(f), NEW damage \in Damages(f), NEW key \in DOMAIN f.header,
         damage # Damage("header", 0, key)
  PROVE  Damaged(f, damage).header[key] = f.header[key]
<1>1. CASE damage = NoDamage
  BY <1>1 DEF Damaged, NoDamage, Damage
<1>2. CASE damage \in Cuts(f)
  <2>1. PICK size : damage = Damage("cut", size, NoField)
    BY <1>2 DEF Cuts
  <2>2. QED
    BY <2>1 DEF Damaged, Damage, IsImage
<1>3. CASE damage \in Unwritten(f)
  <2>1. PICK i : damage = Damage("section", i, NoField)
    BY <1>3 DEF Unwritten
  <2>2. QED
    BY <2>1 DEF Damaged, Damage, IsImage
<1>4. CASE damage \in Changes(f)
  <2>1. PICK i, field : \/ damage = Damage("entry", i, field)
                        \/ damage = Damage("header", 0, field) /\ field \in DOMAIN f.header
    BY <1>4 DEF Changes
  <2>2. CASE damage = Damage("entry", i, field)
    BY <2>2 DEF Damaged, Damage, IsImage
  <2>3. CASE damage = Damage("header", 0, field)
    <3>1. field # key
      BY <2>3
    <3>2. damage.kind = "header" /\ damage.field = field
      BY <2>3 DEF Damage
    <3>3. PICK value : value = Changed(f.header[field], field)
      OBVIOUS
    <3>4. Damaged(f, damage).header = [f.header EXCEPT ![field] = value]
      BY <3>2, <3>3 DEF Damaged, IsImage
    <3>5. QED
      BY <3>1, <3>4, OtherFieldStays
  <2>4. QED
    BY <2>1, <2>2, <2>3
<1>5. QED
  BY <1>1, <1>2, <1>3, <1>4 DEF Damages

LEMMA ViewedIsValid ==
  ASSUME NEW f, NEW s, NEW kafka, ViewOf(f, s, kafka) # {}
  PROVE  ValidHeader(f, LoadOptions(kafka))
<1>1. LoadShard(f, s, LoadOptions(kafka), "kept") # {}
  BY DEF ViewOf
<1>2. ParseArtifact(f, LoadOptions(kafka), "kept") # {}
  BY <1>1 DEF LoadShard
<1>3. QED
  BY <1>2 DEF ParseArtifact

(* A load that accepts a file whose damage, if any, is not in a field of   *)
(* the routing has found the routing of the index there, but for a hash    *)
(* version that it does not compare.                                       *)
LEMMA AcceptedConfiguration ==
  ASSUME NEW n, NEW p, NEW file, WrittenBy(file, p), file.build = n,
         NEW s \in Shards, realtime \in RealtimeModes, View(file, s) # {},
         file.damage \notin RoutingDamage,
         Index.hash_version = 0 => Artifacts[n].spec.hash_version = 0,
         NEW key \in {"shard_count", "hash_seed", "hash_version"}
  PROVE  Artifacts[n].spec[key] = Index[key]
<1>1. PICK damage : /\ damage = file.damage /\ file = File(n, file.run, p, damage)
                    /\ n \in DOMAIN Artifacts /\ p \in ToSet(Artifacts[n].parts)
                    /\ \E w \in Artifacts[n].files[p] : damage \in Damages(w.image)
  BY DEF WrittenBy
<1>2. file.build = n /\ file.part = p /\ file.damage = damage
  BY <1>1 DEF File
<1>3. PICK w \in Artifacts[n].files[p] : w.views[damage][s][realtime] # {}
  BY <1>2 DEF View
<1>4. damage \in Damages(w.image) /\ IsImage(w.image)
  BY <1>1, CatalogueEntry
<1>5. w.views[damage][s][realtime] = ViewOf(Damaged(w.image, damage), s, realtime)
  BY <1>1, <1>4, CatalogueEntry
<1>6. ValidHeader(Damaged(w.image, damage), LoadOptions(realtime))
  BY <1>3, <1>5, ViewedIsValid
<1>7. damage # Damage("header", 0, key)
  BY <1>1 DEF RoutingDamage
<1>8. key \in DOMAIN w.image.header
  BY <1>1, HeaderIsOfSpec
<1>9. Damaged(w.image, damage).header[key] = w.image.header[key]
  BY <1>4, <1>7, <1>8, DamageKeepsField
<1>10. w.image.header[key] = Artifacts[n].spec[key]
  BY <1>1, HeaderIsOfSpec
<1>11. CASE key = "hash_version" /\ Index.hash_version = 0
  BY <1>11
<1>12. CASE ~(key = "hash_version" /\ Index.hash_version = 0)
  <2>1. Index.shard_count # 0
    BY FilesAssumption
  <2>2. Damaged(w.image, damage).header[key] = Index[key]
    BY <1>6, <1>12, <2>1 DEF ValidHeader, LoadOptions
  <2>3. QED
    BY <1>9, <1>10, <2>2
<1>13. QED
  BY <1>11, <1>12

LEMMA ServedAsBuilt ==
  ASSUME ReadsBack, RoutesInput, FilesInv
  PROVE  LoadedBuildIsServed
<1> SUFFICES ASSUME ServesOneRun, NEW k \in Keys
             PROVE  Get(k) = Artifacts[serving[0].file.build].input[k]
  BY DEF LoadedBuildIsServed
<1>1. 0 \in Shards /\ realtime \in RealtimeModes
  BY FilesAssumption DEF Shards, FilesInv, BuilderOK
<1>2. PICK n : n = serving[0].file.build
  OBVIOUS
<1>3. ASSUME NEW s \in Shards
      PROVE  /\ Mapped(serving[s]) = serving[s].file /\ View(serving[s].file, s) # {}
             /\ WrittenBy(serving[s].file, serving[s].name) /\ serving[s].file.build = n
             /\ serving[s].file.damage \notin RoutingDamage
             /\ Index.hash_version = 0 => Artifacts[n].spec.hash_version = 0
  <2>1. /\ serving[s] # None /\ NotReopened(s) /\ serving[s].file.build = n
        /\ serving[s].file.damage \notin RoutingDamage
        /\ Index.hash_version = 0 => Artifacts[n].spec.hash_version = 0
    BY <1>2 DEF ServesOneRun
  <2>2. PICK m : m = serving[s]
    OBVIOUS
  <2>3. Reads(m, s) /\ m # None
    BY <2>1, <2>2 DEF FilesInv, MappingsOK
  <2>4. /\ WrittenBy(m.file, m.name) /\ View(m.file, s) # {}
        /\ files[m.path][m.name].run = m.file.run => files[m.path][m.name] = m.file
    BY <2>3 DEF Reads
  <2>5. QED
    BY <2>1, <2>2, <2>4 DEF NotReopened, Mapped
<1>4. n \in DOMAIN Artifacts
  BY <1>1, <1>3 DEF WrittenBy
<1>5. ASSUME NEW key \in {"shard_count", "hash_seed", "hash_version"}
      PROVE  Artifacts[n].spec[key] = Index[key]
  <2>1. PICK m : m = serving[0]
    OBVIOUS
  <2>2. /\ WrittenBy(m.file, m.name) /\ View(m.file, 0) # {} /\ m.file.build = n
        /\ m.file.damage \notin RoutingDamage
        /\ Index.hash_version = 0 => Artifacts[n].spec.hash_version = 0
    BY <1>1, <1>3, <2>1
  <2>3. QED
    BY <1>1, <2>2, AcceptedConfiguration
<1>6. PICK s : s = ShardFor(Artifacts[n].spec, k)
  OBVIOUS
<1>7. s = ShardFor(Index, k)
  <2>1. /\ Artifacts[n].spec["shard_count"] = Index["shard_count"]
        /\ Artifacts[n].spec["hash_seed"] = Index["hash_seed"]
        /\ Artifacts[n].spec["hash_version"] = Index["hash_version"]
    BY <1>5
  <2>2. QED
    BY <1>6, <2>1 DEF ShardFor
<1>8. s \in Shards /\ Artifacts[n].input[k] = Artifacts[n].written[s][k]
  <2>1. Artifacts[n].spec["shard_count"] = Index["shard_count"]
    BY <1>5
  <2>2. QED
    BY <1>4, <1>6, <2>1 DEF RoutesInput, Shards
<1>9. PICK m : m = serving[s]
  OBVIOUS
<1>10. /\ Mapped(m) = m.file /\ View(m.file, s) # {} /\ WrittenBy(m.file, m.name)
       /\ m.file.build = n
  BY <1>3, <1>8, <1>9
<1>11. \A v \in View(m.file, s) : v.rows = Artifacts[n].written[s]
  BY <1>1, <1>8, <1>10, ViewIsAsWritten
<1>12. Get(k) = UNION {v.rows[k] : v \in View(m.file, s)}
  BY <1>7, <1>9, <1>10 DEF Get
<1>13. UNION {v.rows[k] : v \in View(m.file, s)} = Artifacts[n].written[s][k]
  BY <1>10, <1>11
<1>14. QED
  BY <1>2, <1>8, <1>12, <1>13

(* Where the parser reads a whole file, or one with a changed header or    *)
(* directory field that it accepts, as it was written: whatever a load has *)
(* mapped, while builders write into new and served directories and die,   *)
(* and copies are damaged, has the layout, the rows and the progress that  *)
(* were given to the writer.  That a file which is cut short or lost a     *)
(* section is refused is part of the proof: CheckBounds and the checksum   *)
(* of the section catch it (ParseArtifact, LoadShard).                     *)
THEOREM AcceptedFilesAreAsWritten ==
  ASSUME ReadsBack PROVE Spec => []AcceptedFileIsAsWritten
<1>1. FilesInv => AcceptedFileIsAsWritten
  BY AcceptedAsWritten
<1>2. QED
  BY <1>1, FilesInvariant, PTL

(* Under the same condition, where the writer got the input, each row in   *)
(* the shard of its key: once every shard serves from files of one build   *)
(* run that state its routing, lookups find exactly the input, since a     *)
(* build that routes keys differently was refused by ValidHeader, and go   *)
(* on finding it until a later build opens one of the files.               *)
THEOREM LoadedBuildsAreServed ==
  ASSUME ReadsBack, RoutesInput PROVE Spec => []LoadedBuildIsServed
<1>1. FilesInv => LoadedBuildIsServed
  BY ServedAsBuilt
<1>2. QED
  BY <1>1, FilesInvariant, PTL

================================================================================
