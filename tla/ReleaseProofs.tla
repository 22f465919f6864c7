---------------------------- MODULE ReleaseProofs ----------------------------
(***************************************************************************)
(* Whatever the distribution, the tag and the machine, what the verifier   *)
(* accepts is a complete release.  The proof is by an inductive invariant  *)
(* with one part per loop: what the loop has established of the elements it*)
(* is done with.                                                           *)
(***************************************************************************)
EXTENDS Release, FiniteSetTheorems, TLAPS

\* Past the loop over the directory, and past the one over the manifest
Inspecting == {"inspect", "entries", "smoke", "accepted"}
Discovering == {"manifest", "lines"} \cup Inspecting

\* discoverArchives: the archives taken are wanted, and none is passed over
FilesFound ==
  /\ pc \notin {"tag", "refused"} => expected = None \/ ValidTag(expected)
  /\ \A f \in archives :
       /\ f.name.archive /\ f.name.target \in Targets /\ f.name.version = version
       /\ f.regular /\ f.size = "bounded"
  /\ pc # "refused" => \A f \in dist.files : f.name.archive => f \in unread \cup archives
  /\ unread \cap archives = {}
  /\ version # None => \E f \in archives : f.name.version = version
  /\ pc \in Discovering =>
       /\ unread = {} /\ {a.name.target : a \in archives} = Targets
       /\ expected # None => expected.version = version

\* verifyChecksums: the lines read are good, each of a name of its own
LinesRead ==
  /\ \A i \in 1 .. line - 1 :
       /\ dist.manifest[i].valid /\ dist.manifest[i].name \in listed
       /\ \E a \in archives :
            a.name = dist.manifest[i].name /\ a.content = dist.manifest[i].digest
  /\ \A i, j \in 1 .. line - 1 : dist.manifest[i].name = dist.manifest[j].name => i = j
  /\ \A n \in listed : \E i \in 1 .. line - 1 : dist.manifest[i].name = n
  /\ pc \in Inspecting \cup {"lines"} => dist.bounded
  /\ pc \in Inspecting =>
       line = Len(dist.manifest) + 1 /\ {a.name : a \in archives} \subseteq listed

\* What inspectArchive and smokeExecutable have found out of an archive
Inspected(f) ==
  /\ f.content.sound /\ HoldsExactly(f.content.entries, f.name.target)
  /\ smoke /\ f.name.target = host => Prints(f.content, host, version)

\* visit: the entries before this one are good, each of a name of its own
EntriesVisited ==
  LET entries == item.content.entries
  IN /\ item \in archives /\ entry \in 1 .. Len(entries) + 1
     /\ \A i \in 1 .. entry - 1 :
          GoodEntry(entries[i], item.name.target) /\ entries[i].name \in found
     /\ \A i, j \in 1 .. entry - 1 : entries[i].name = entries[j].name => i = j
     /\ \A n \in found : \E i \in 1 .. entry - 1 : entries[i].name = n

ArchivesInspected ==
  /\ \A f \in inspected : Inspected(f)
  /\ pc \notin Inspecting \cup {"refused"} => inspected = {}
  /\ pc \in {"entries", "smoke"} => EntriesVisited
  /\ pc = "smoke" => /\ smoke /\ item.name.target = host
                     /\ item.content.sound
                     /\ HoldsExactly(item.content.entries, item.name.target)
  /\ smoked => ~ smoke \/ host \in Targets
  /\ ~ smoke => smoked
  /\ \A f \in inspected : smoke /\ f.name.target = host => smoked
  /\ pc = "accepted" => inspected = archives /\ smoked

IInv ==
  /\ TypeOK /\ dist \in Distributions
  /\ FilesFound /\ LinesRead /\ ArchivesInspected

-----------------------------------------------------------------------------
(* Types of what a distribution is made of *)

\* A distribution is made of typed files and lines, and named archives have a version.
LEMMA DistributionTypes ==
  ASSUME NEW d \in Distributions
  PROVE  /\ d.files \subseteq File /\ d.bounded \in BOOLEAN /\ d.manifest \in Seq(Line)
         /\ \A f \in d.files : f.name.target # None => f.name.version # None
BY ReleaseConstants DEF Distribution

\* An archive is named by its target and its version (parseArchiveName).
LEMMA FileTypes ==
  ASSUME NEW f \in File
  PROVE  /\ f.name \in Name
         /\ f.name.target \in Targets \cup {None} /\ f.name.version \in Versions \cup {None}
         /\ f.content.entries \in Seq(Entry)
         /\ f.name.archive => f.name = ArchiveName(f.name.target, f.name.version)
<1>1. f.name \in Name /\ f.content \in Content
  BY DEF File
<1>2. f.content.entries \in Seq(Entry)
  BY <1>1 DEF Content
<1>3. f.name.target \in Targets \cup {None} /\ f.name.version \in Versions \cup {None}
  BY <1>1 DEF Name
<1>4. f.name.archive => f.name = ArchiveName(f.name.target, f.name.version)
  BY <1>1 DEF Name, ArchiveName
<1> QED
  BY <1>1, <1>2, <1>3, <1>4

-----------------------------------------------------------------------------
\* Before its loops the verifier has established nothing.
LEMMA InitIInv == Init => IInv
<1> SUFFICES ASSUME Init PROVE IInv
  OBVIOUS
<1> USE DEF Init
<1>1. Len(dist.manifest) \in Nat
  BY DistributionTypes
<1>a. smoked \in BOOLEAN /\ broken \in BOOLEAN /\ (smoked <=> ~ smoke)
  OBVIOUS
<1>2. TypeOK
  BY <1>1, <1>a DEF TypeOK
<1>3. FilesFound
  BY DEF FilesFound, Discovering, Inspecting
<1>4. LinesRead
  BY DEF LinesRead, Inspecting
<1>5. ArchivesInspected
  BY <1>a DEF ArchivesInspected, Inspecting
<1> QED
  BY <1>2, <1>3, <1>4, <1>5 DEF IInv

\* A step that refuses keeps what every loop has established.
LEMMA RefuseKeeps ==
  ASSUME IInv, Refuse, UNCHANGED <<arguments, archives, version, checksums, inspection>>,
         unread' \subseteq unread, broken' \in BOOLEAN
  PROVE  IInv'
<1> USE DEF Refuse, arguments, checksums, inspection
<1>1. TypeOK'
  BY DEF IInv, TypeOK
<1>2. FilesFound'
  BY DEF IInv, FilesFound, Discovering, Inspecting
<1>3. LinesRead'
  BY DEF IInv, LinesRead, Inspecting
<1>4. ArchivesInspected'
  BY DEF IInv, ArchivesInspected, Inspecting, Inspected
<1> QED
  BY <1>1, <1>2, <1>3, <1>4 DEF IInv


\* The tag has been checked before the directory is read (Verify).
LEMMA CheckTagKeeps == IInv /\ CheckTag => IInv'
<1> SUFFICES ASSUME IInv, CheckTag PROVE IInv'
  OBVIOUS
<1> USE DEF CheckTag, arguments, discovery, checksums, inspection
<1>1. CASE Refuse
  BY <1>1, RefuseKeeps DEF IInv, TypeOK
<1>2. CASE pc' = "discover" /\ (expected = None \/ ValidTag(expected))
  <2>1. TypeOK'
    BY <1>2 DEF IInv, TypeOK
  <2>2. FilesFound'
    BY <1>2 DEF IInv, FilesFound, Discovering, Inspecting
  <2>3. LinesRead'
    BY <1>2 DEF IInv, LinesRead, Inspecting
  <2>4. ArchivesInspected'
    BY <1>2 DEF IInv, ArchivesInspected, Inspecting, Inspected
  <2> QED
    BY <2>1, <2>2, <2>3, <2>4 DEF IInv
<1> QED
  BY <1>1, <1>2

\* An archive is taken when it is wanted, or the directory refused (discoverArchives).
LEMMA DiscoverKeeps ==
  ASSUME IInv, NEW f \in unread, Discover(f)
  PROVE  IInv'
<1> USE DEF Discover, arguments, checksums, inspection
<1>1. CASE Refuse /\ UNCHANGED <<archives, version>>
  BY <1>1, RefuseKeeps DEF IInv, TypeOK
<1>2. CASE ~ f.name.archive /\ UNCHANGED <<archives, version, pc>>
  <2>1. TypeOK'
    BY <1>2 DEF IInv, TypeOK
  <2>2. FilesFound'
    BY <1>2 DEF IInv, FilesFound, Discovering, Inspecting
  <2>3. LinesRead'
    BY <1>2 DEF IInv, LinesRead, Inspecting
  <2>4. ArchivesInspected'
    BY <1>2 DEF IInv, ArchivesInspected, Inspecting, Inspected
  <2> QED
    BY <2>1, <2>2, <2>3, <2>4 DEF IInv
<1>3. CASE /\ f.name.archive /\ Wanted(f)
           /\ archives' = archives \cup {f} /\ version' = f.name.version
           /\ UNCHANGED pc
  <2>1. f \in dist.files /\ f.name.target \in Targets /\ f.name.version \in Versions
    BY <1>3, DistributionTypes, FileTypes, ReleaseConstants DEF IInv, TypeOK, Wanted
  <2>2. \A a \in archives : a.name.version = f.name.version
    BY <1>3, <2>1, ReleaseConstants, DistributionTypes, FileTypes
    DEF IInv, TypeOK, FilesFound, Wanted
  <2>3. TypeOK'
    BY <1>3, <2>1 DEF IInv, TypeOK
  <2>4. FilesFound'
    BY <1>3, <2>1, <2>2 DEF IInv, FilesFound, Discovering, Inspecting, Wanted
  <2>5. LinesRead'
    BY <1>3 DEF IInv, LinesRead, Inspecting
  <2>6. ArchivesInspected'
    BY <1>3 DEF IInv, ArchivesInspected, Inspecting
  <2> QED
    BY <2>3, <2>4, <2>5, <2>6 DEF IInv
<1> QED
  BY <1>1, <1>2, <1>3

\* The loop over the directory ends with all targets (discoverArchives).
LEMMA DiscoveredKeeps == IInv /\ Discovered => IInv'
<1> SUFFICES ASSUME IInv, Discovered PROVE IInv'
  OBVIOUS
<1> USE DEF Discovered, arguments, discovery, checksums, inspection
<1>1. CASE Refuse
  BY <1>1, RefuseKeeps DEF IInv, TypeOK
<1>2. CASE /\ {a.name.target : a \in archives} = Targets
           /\ expected # None => expected.version = version
           /\ pc' = "manifest"
  <2>1. TypeOK'
    BY <1>2 DEF IInv, TypeOK
  <2>2. FilesFound'
    BY <1>2 DEF IInv, FilesFound, Discovering, Inspecting
  <2>3. LinesRead'
    BY <1>2 DEF IInv, LinesRead, Inspecting
  <2>4. ArchivesInspected'
    BY <1>2 DEF IInv, ArchivesInspected, Inspecting, Inspected
  <2> QED
    BY <2>1, <2>2, <2>3, <2>4 DEF IInv
<1> QED
  BY <1>1, <1>2

-----------------------------------------------------------------------------
(* verifyChecksums *)

\* The manifest is bounded (readBoundedRegular).
LEMMA ReadManifestKeeps == IInv /\ ReadManifest => IInv'
<1> SUFFICES ASSUME IInv, ReadManifest PROVE IInv'
  OBVIOUS
<1> USE DEF ReadManifest, arguments, discovery, checksums, inspection
<1>1. CASE Refuse
  BY <1>1, RefuseKeeps DEF IInv, TypeOK
<1>2. CASE dist.bounded /\ pc' = "lines"
  <2>1. TypeOK'
    BY <1>2 DEF IInv, TypeOK
  <2>2. FilesFound'
    BY <1>2 DEF IInv, FilesFound, Discovering, Inspecting
  <2>3. LinesRead'
    BY <1>2 DEF IInv, LinesRead, Inspecting
  <2>4. ArchivesInspected'
    BY <1>2 DEF IInv, ArchivesInspected, Inspecting, Inspected
  <2> QED
    BY <2>1, <2>2, <2>3, <2>4 DEF IInv
<1> QED
  BY <1>1, <1>2

\* A line that is good adds a name not seen before (verifyChecksums).
LEMMA CheckLineKeeps == IInv /\ CheckLine => IInv'
<1> SUFFICES ASSUME IInv, CheckLine PROVE IInv'
  OBVIOUS
<1> USE DEF CheckLine, arguments, discovery, inspection
<1>1. CASE Refuse /\ UNCHANGED checksums
  BY <1>1, RefuseKeeps DEF IInv, TypeOK, checksums
<1>2. CASE /\ LineMatches(dist.manifest[line])
           /\ listed' = listed \cup {dist.manifest[line].name}
           /\ line' = line + 1
           /\ UNCHANGED pc
  <2> DEFINE l == dist.manifest[line]
  <2>1. dist.manifest \in Seq(Line) /\ line \in 1 .. Len(dist.manifest)
    BY DistributionTypes DEF IInv, TypeOK
  <2>2. l \in Line /\ l.name \in Name
    <3>1. l \in Line
      BY <2>1
    <3> QED
      BY <3>1 DEF Line
  <2>3. 1 .. line' - 1 = (1 .. line - 1) \cup {line}
    BY <1>2, <2>1
  <2>4. \A i \in 1 .. line - 1 : dist.manifest[i].name # l.name
    BY <1>2 DEF IInv, LinesRead, LineMatches
  <2>5. TypeOK'
    BY <1>2, <2>1, <2>2 DEF IInv, TypeOK
  <2>6. FilesFound'
    BY <1>2 DEF IInv, FilesFound, Discovering, Inspecting
  <2>7. LinesRead'
    <3> HIDE DEF l
    <3>1. \A i \in 1 .. line' - 1 :
            /\ dist.manifest[i].valid /\ dist.manifest[i].name \in listed'
            /\ \E a \in archives :
                 a.name = dist.manifest[i].name /\ a.content = dist.manifest[i].digest
      BY <1>2, <2>3 DEF IInv, LinesRead, LineMatches
    <3>2. \A i, j \in 1 .. line' - 1 : dist.manifest[i].name = dist.manifest[j].name => i = j
      BY <2>3, <2>4 DEF IInv, LinesRead, l
    <3>3. \A n \in listed' : \E i \in 1 .. line' - 1 : dist.manifest[i].name = n
      BY <1>2, <2>3 DEF IInv, LinesRead
    <3> QED
      BY <1>2, <3>1, <3>2, <3>3 DEF IInv, LinesRead, Inspecting
  <2>8. ArchivesInspected'
    BY <1>2 DEF IInv, ArchivesInspected, Inspecting, Inspected
  <2> QED
    BY <2>5, <2>6, <2>7, <2>8 DEF IInv
<1> QED
  BY <1>1, <1>2

\* After the last line all archives are listed (verifyChecksums).
LEMMA LinesDoneKeeps == IInv /\ LinesDone => IInv'
<1> SUFFICES ASSUME IInv, LinesDone PROVE IInv'
  OBVIOUS
<1> USE DEF LinesDone, arguments, discovery, checksums, inspection
<1>1. CASE Refuse
  BY <1>1, RefuseKeeps DEF IInv, TypeOK
<1>2. CASE {a.name : a \in archives} \subseteq listed /\ pc' = "inspect"
  <2>1. Len(dist.manifest) \in Nat /\ line = Len(dist.manifest) + 1
    BY DistributionTypes DEF IInv, TypeOK
  <2>2. TypeOK'
    BY <1>2 DEF IInv, TypeOK
  <2>3. FilesFound'
    BY <1>2 DEF IInv, FilesFound, Discovering, Inspecting
  <2>4. LinesRead'
    BY <1>2, <2>1 DEF IInv, LinesRead, Inspecting
  <2>5. ArchivesInspected'
    BY <1>2 DEF IInv, ArchivesInspected, Inspecting, Inspected
  <2> QED
    BY <2>2, <2>3, <2>4, <2>5 DEF IInv
<1> QED
  BY <1>1, <1>2

-----------------------------------------------------------------------------
(* inspectArchive and smokeExecutable *)

\* An archive starts with nothing found (inspectArchive).
LEMMA InspectKeeps ==
  ASSUME IInv, NEW a \in archives, Inspect(a)
  PROVE  IInv'
<1> USE DEF Inspect, arguments, discovery, checksums
<1>1. a \in dist.files /\ Len(a.content.entries) \in Nat
  BY DistributionTypes, FileTypes DEF IInv, TypeOK
<1>2. TypeOK'
  BY DEF IInv, TypeOK
<1>3. FilesFound'
  BY DEF IInv, FilesFound, Discovering, Inspecting
<1>4. LinesRead'
  BY DEF IInv, LinesRead, Inspecting
<1>5. EntriesVisited'
  BY <1>1 DEF EntriesVisited
<1>6. ArchivesInspected'
  BY <1>5 DEF IInv, ArchivesInspected, Inspecting, Inspected
<1> QED
  BY <1>2, <1>3, <1>4, <1>6 DEF IInv

\* An entry that is good adds a name not found before (visit).
LEMMA VisitKeeps == IInv /\ Visit => IInv'
<1> SUFFICES ASSUME IInv, Visit PROVE IInv'
  OBVIOUS
<1> USE DEF Visit, arguments, discovery, checksums
<1> DEFINE entries == item.content.entries
           e == entries[entry]
<1>1. CASE Refuse /\ UNCHANGED <<found, entry>>
  BY <1>1, RefuseKeeps DEF IInv, TypeOK, inspection
<1>2. CASE MayVisit(e) /\ found' = found \cup {e.name} /\ entry' = entry + 1 /\ UNCHANGED pc
  <2>1. item \in archives /\ EntriesVisited
    BY DEF IInv, ArchivesInspected, EntriesVisited
  <2>2. entries \in Seq(Entry) /\ entry \in 1 .. Len(entries)
    BY <2>1, DistributionTypes, FileTypes DEF IInv, TypeOK, EntriesVisited
  <2>3. GoodEntry(e, item.name.target) /\ e.name \notin found
    BY <1>2 DEF MayVisit
  <2>4. e.name \in Documents \cup {"relaybox", "relaybox.exe"}
    BY <2>3 DEF GoodEntry, Required, Executable
  <2>5. 1 .. entry' - 1 = (1 .. entry - 1) \cup {entry}
    BY <1>2, <2>2
  <2>6. TypeOK'
    <3> HIDE DEF e
    <3> QED
      BY <1>2, <2>2, <2>4 DEF IInv, TypeOK
  <2>7. FilesFound'
    BY <1>2 DEF IInv, FilesFound, Discovering, Inspecting
  <2>8. LinesRead'
    BY <1>2 DEF IInv, LinesRead, Inspecting
  <2>9. EntriesVisited'
    <3>1. item' \in archives' /\ entry' \in 1 .. Len(entries) + 1
      BY <1>2, <2>1, <2>2
    <3>2. \A i \in 1 .. entry' - 1 :
            GoodEntry(entries[i], item.name.target) /\ entries[i].name \in found'
      BY <1>2, <2>1, <2>3, <2>5 DEF EntriesVisited
    <3>3. \A i \in 1 .. entry - 1 : entries[i].name # e.name
      BY <2>1, <2>3 DEF EntriesVisited
    <3>4. \A i, j \in 1 .. entry' - 1 : entries[i].name = entries[j].name => i = j
      BY <2>1, <2>5, <3>3 DEF EntriesVisited
    <3>5. \A n \in found' : \E i \in 1 .. entry' - 1 : entries[i].name = n
      BY <1>2, <2>1, <2>5 DEF EntriesVisited
    <3> QED
      BY <3>1, <3>2, <3>4, <3>5 DEF EntriesVisited
  <2>10. ArchivesInspected'
    BY <1>2, <2>9 DEF IInv, ArchivesInspected, Inspecting, Inspected
  <2> QED
    BY <2>6, <2>7, <2>8, <2>10 DEF IInv
<1> QED
  BY <1>1, <1>2

\* What visit has seen of an archive that ends well is all the archive holds.
LEMMA EndsWellHolds ==
  ASSUME IInv, EntriesVisited, entry > Len(item.content.entries), EndsWell
  PROVE  item.content.sound /\ HoldsExactly(item.content.entries, item.name.target)
<1> DEFINE entries == item.content.entries
<1>1. entries \in Seq(Entry)
  BY DistributionTypes, FileTypes DEF IInv, TypeOK, EntriesVisited
<1>2. 1 .. entry - 1 = DOMAIN entries
  BY <1>1 DEF EntriesVisited
<1>3. \A n \in Required(item.name.target) : n \in found
  BY DEF EndsWell
<1> QED
  BY <1>2, <1>3 DEF EndsWell, EntriesVisited, HoldsExactly

\* An archive that ends well is inspected, or to be run (inspectArchive).
LEMMA EntriesDoneKeeps == IInv /\ EntriesDone => IInv'
<1> SUFFICES ASSUME IInv, EntriesDone PROVE IInv'
  OBVIOUS
<1> USE DEF EntriesDone, arguments, discovery, checksums
<1>1. EntriesVisited
  BY DEF IInv, ArchivesInspected
<1>2. CASE Refuse /\ UNCHANGED inspected
  BY <1>2, RefuseKeeps DEF IInv, TypeOK, inspection
<1>3. CASE EndsWell /\ smoke /\ item.name.target = host /\ pc' = "smoke" /\ UNCHANGED inspected
  <2>1. TypeOK'
    BY <1>3 DEF IInv, TypeOK
  <2>2. FilesFound'
    BY <1>3 DEF IInv, FilesFound, Discovering, Inspecting
  <2>3. LinesRead'
    BY <1>3 DEF IInv, LinesRead, Inspecting
  <2>4. EntriesVisited'
    BY <1>1, <1>3 DEF EntriesVisited
  <2>5. ArchivesInspected'
    BY <1>1, <1>3, <2>4, EndsWellHolds DEF IInv, ArchivesInspected, Inspecting, Inspected
  <2> QED
    BY <2>1, <2>2, <2>3, <2>5 DEF IInv
<1>4. CASE /\ EndsWell /\ ~ (smoke /\ item.name.target = host)
           /\ pc' = "inspect" /\ inspected' = inspected \cup {item}
  <2>1. Inspected(item)
    BY <1>1, <1>4, EndsWellHolds DEF Inspected
  <2>2. TypeOK'
    BY <1>1, <1>4 DEF IInv, TypeOK, EntriesVisited
  <2>3. FilesFound'
    BY <1>4 DEF IInv, FilesFound, Discovering, Inspecting
  <2>4. LinesRead'
    BY <1>4 DEF IInv, LinesRead, Inspecting
  <2>5. ArchivesInspected'
    BY <1>4, <2>1 DEF IInv, ArchivesInspected, Inspecting, Inspected
  <2> QED
    BY <2>2, <2>3, <2>4, <2>5 DEF IInv
<1> QED
  BY <1>2, <1>3, <1>4

\* An executable that prints the version makes smoked true (smokeExecutable).
LEMMA SmokeKeeps == IInv /\ Smoke => IInv'
<1> SUFFICES ASSUME IInv, Smoke PROVE IInv'
  OBVIOUS
<1> USE DEF Smoke, arguments, discovery, checksums
<1>1. CASE Refuse /\ UNCHANGED <<inspected, smoked>>
  BY <1>1, RefuseKeeps DEF IInv, TypeOK, inspection
<1>2. CASE /\ Prints(item.content, host, version)
           /\ pc' = "inspect" /\ inspected' = inspected \cup {item} /\ smoked' = TRUE
  <2>1. Inspected(item)
    BY <1>2 DEF IInv, ArchivesInspected, Inspected
  <2>2. item \in archives /\ host \in Targets
    BY DEF IInv, ArchivesInspected, EntriesVisited, FilesFound
  <2>3. TypeOK'
    BY <1>2, <2>2 DEF IInv, TypeOK
  <2>4. FilesFound'
    BY <1>2 DEF IInv, FilesFound, Discovering, Inspecting
  <2>5. LinesRead'
    BY <1>2 DEF IInv, LinesRead, Inspecting
  <2>6. ArchivesInspected'
    BY <1>2, <2>1, <2>2 DEF IInv, ArchivesInspected, Inspecting, Inspected
  <2> QED
    BY <2>3, <2>4, <2>5, <2>6 DEF IInv
<1> QED
  BY <1>1, <1>2

\* The verdict comes after all archives (Verify).
LEMMA VerdictKeeps == IInv /\ Verdict => IInv'
<1> SUFFICES ASSUME IInv, Verdict PROVE IInv'
  OBVIOUS
<1> USE DEF Verdict, arguments, discovery, checksums, inspection
<1>1. CASE Refuse
  BY <1>1, RefuseKeeps DEF IInv, TypeOK
<1>2. CASE smoked /\ pc' = "accepted"
  <2>1. TypeOK'
    BY <1>2 DEF IInv, TypeOK
  <2>2. FilesFound'
    BY <1>2 DEF IInv, FilesFound, Discovering, Inspecting
  <2>3. LinesRead'
    BY <1>2 DEF IInv, LinesRead, Inspecting
  <2>4. ArchivesInspected'
    BY <1>2 DEF IInv, ArchivesInspected, Inspecting, Inspected
  <2> QED
    BY <2>1, <2>2, <2>3, <2>4 DEF IInv
<1> QED
  BY <1>1, <1>2

-----------------------------------------------------------------------------
\* Every step keeps the invariant.
LEMMA NextIInv == IInv /\ [Next]_vars => IInv'
<1> SUFFICES ASSUME IInv, [Next]_vars PROVE IInv'
  OBVIOUS
<1>1. CASE CheckTag
  BY <1>1, CheckTagKeeps
<1>2. ASSUME NEW f \in unread, Discover(f) PROVE IInv'
  BY <1>2, DiscoverKeeps
<1>3. CASE Discovered
  BY <1>3, DiscoveredKeeps
<1>4. CASE ReadManifest
  BY <1>4, ReadManifestKeeps
<1>5. CASE CheckLine
  BY <1>5, CheckLineKeeps
<1>6. CASE LinesDone
  BY <1>6, LinesDoneKeeps
<1>7. ASSUME NEW a \in archives, Inspect(a) PROVE IInv'
  BY <1>7, InspectKeeps
<1>8. CASE Visit
  BY <1>8, VisitKeeps
<1>9. CASE EntriesDone
  BY <1>9, EntriesDoneKeeps
<1>10. CASE Smoke
  BY <1>10, SmokeKeeps
<1>11. CASE Verdict
  BY <1>11, VerdictKeeps
<1>12. CASE Break
  BY <1>12, RefuseKeeps DEF Break, discovery
<1>13. CASE UNCHANGED vars
  <2> USE <1>13 DEF vars, arguments, discovery, checksums, inspection
  <2>1. TypeOK'
    BY DEF IInv, TypeOK
  <2>2. FilesFound'
    BY DEF IInv, FilesFound, Discovering, Inspecting
  <2>3. LinesRead'
    BY DEF IInv, LinesRead, Inspecting
  <2>4. EntriesVisited => EntriesVisited'
    BY DEF EntriesVisited
  <2>5. ArchivesInspected'
    BY <2>4 DEF IInv, ArchivesInspected, Inspecting, Inspected
  <2> QED
    BY <2>1, <2>2, <2>3, <2>5 DEF IInv
<1> QED
  BY <1>1, <1>2, <1>3, <1>4, <1>5, <1>6, <1>7, <1>8, <1>9, <1>10, <1>11, <1>12, <1>13
  DEF Next, Exited

\* With the loops done, the parts of the invariant say what Complete asks.
LEMMA AcceptedOfIInv == IInv => AcceptedIsComplete
<1> SUFFICES ASSUME IInv, pc = "accepted" PROVE \E v \in Versions : Complete(v)
  BY DEF AcceptedIsComplete
<1>1. pc \in Inspecting /\ pc \in Discovering /\ pc # "refused"
  BY DEF Inspecting, Discovering
<1>2. Archives(dist) = archives
  BY <1>1 DEF IInv, TypeOK, FilesFound, Archives
<1>3. \A f \in archives :
        /\ f \in File /\ f.name.version = version /\ f.name.target \in Targets
        /\ f.name = ArchiveName(f.name.target, version)
  BY DistributionTypes, FileTypes DEF IInv, TypeOK, FilesFound
<1>4. version \in Versions
  <2>1. PICK t \in Targets : TRUE
    BY ReleaseConstants
  <2>2. PICK a \in archives : a.name.target = t
    BY <1>1 DEF IInv, FilesFound
  <2>3. a.name.target # None /\ a \in dist.files
    BY <2>2, ReleaseConstants DEF IInv, TypeOK
  <2> QED
    BY <2>3, <1>3, DistributionTypes DEF IInv, TypeOK
<1>5. {f.name : f \in archives} = {ArchiveName(t, version) : t \in Targets}
  <2>1. \A t \in Targets : \E a \in archives : a.name.target = t
    BY <1>1 DEF IInv, FilesFound
  <2> QED
    BY <1>3, <2>1
<1>6. expected # None => ValidTag(expected) /\ expected.version = version
  BY <1>1 DEF IInv, FilesFound
<1>7. dist.bounded /\ ListsExactly(dist.manifest, archives)
  <2>1. dist.manifest \in Seq(Line) /\ line = Len(dist.manifest) + 1
    BY <1>1, DistributionTypes DEF IInv, LinesRead
  <2>2. 1 .. line - 1 = DOMAIN dist.manifest
    BY <2>1
  <2>3. \A f \in archives : f.name \in listed
    BY <1>1 DEF IInv, LinesRead
  <2> QED
    BY <1>1, <2>2, <2>3 DEF IInv, LinesRead, ListsExactly
<1>8. \A f \in archives : f.regular /\ f.size = "bounded" /\ Inspected(f)
  BY DEF IInv, FilesFound, ArchivesInspected
<1>9. smoke => host \in Targets
  BY DEF IInv, ArchivesInspected
<1>10. Complete(version)
  BY <1>2, <1>5, <1>6, <1>7, <1>8, <1>9 DEF Complete, Inspected
<1> QED
  BY <1>4, <1>10

\* The invariant is inductive (Verify and the loops it calls).
THEOREM Invariance == Spec => []IInv
BY InitIInv, NextIInv, PTL DEF Spec

\* The locals of Verify keep their types, and the manifest is not read past its
\* end (verifyChecksums).
THEOREM TypesHold == Spec => []TypeOK
<1>1. IInv => TypeOK
  BY DEF IInv
<1> QED
  BY <1>1, Invariance, PTL

\* What the verifier accepts is one sound archive of one version per target,
\* each listed once and each holding each required entry once (Verify).
THEOREM Accepted == Spec => []AcceptedIsComplete
BY AcceptedOfIInv, Invariance, PTL

-----------------------------------------------------------------------------
(* A complete release is not refused: no test of the verifier fails on it. *)

\* Of a complete release, the archives taken have its version.
LEMMA CompleteArchives ==
  ASSUME IInv, NEW v \in Versions, Complete(v)
  PROVE  /\ archives \subseteq Archives(dist)
         /\ \A f \in Archives(dist) :
              /\ f \in dist.files /\ f.name.archive
              /\ f.name.target \in Targets /\ f.name.version = v
              /\ f.name = ArchiveName(f.name.target, v)
         /\ version \in {None, v}
<1>1. archives \subseteq Archives(dist)
  BY DEF IInv, TypeOK, FilesFound, Archives
<1>2. \A f \in Archives(dist) : \E t \in Targets : f.name = ArchiveName(t, v)
  BY DEF Complete
<1>3. \A f \in Archives(dist) :
        /\ f \in dist.files /\ f.name.archive
        /\ f.name.target \in Targets /\ f.name.version = v
        /\ f.name = ArchiveName(f.name.target, v)
  <2> TAKE f \in Archives(dist)
  <2>1. PICK t \in Targets : f.name = ArchiveName(t, v)
    BY <1>2
  <2>2. f.name.target = t /\ f.name.version = v
    BY <2>1 DEF ArchiveName
  <2> QED
    BY <2>1, <2>2 DEF Archives
<1>4. version \in {None, v}
  BY <1>1, <1>3 DEF IInv, FilesFound
<1> QED
  BY <1>1, <1>3, <1>4

\* The loop over the directory finds all of a complete release.
LEMMA CompleteIsDiscovered ==
  ASSUME IInv, NEW v \in Versions, Complete(v)
  PROVE  /\ \A f \in unread : f.name.archive => Wanted(f)
         /\ pc \in {"discover"} \cup Discovering /\ unread = {} =>
              /\ archives = Archives(dist) /\ version = v
              /\ {a.name.target : a \in archives} = Targets
<1>1. ASSUME NEW f \in unread, f.name.archive PROVE Wanted(f)
  <2>1. f \in Archives(dist)
    BY <1>1 DEF IInv, TypeOK, Archives
  <2>2. \A a \in archives : a.name.target = f.name.target => a.name = f.name
    BY <2>1, CompleteArchives
  <2>3. \A a \in archives : a.name.target # f.name.target
    BY <2>1, <2>2, CompleteArchives, ReleaseConstants DEF IInv, FilesFound
  <2> QED
    BY <2>1, <2>3, CompleteArchives DEF Wanted, Complete
<1>2. ASSUME pc \in {"discover"} \cup Discovering, unread = {}
      PROVE  /\ archives = Archives(dist) /\ version = v
             /\ {a.name.target : a \in archives} = Targets
  <2>1. archives = Archives(dist)
    BY <1>2, CompleteArchives DEF IInv, FilesFound, Archives, Discovering, Inspecting
  <2>2. \A t \in Targets : \E a \in archives : a.name = ArchiveName(t, v)
    BY <2>1 DEF Complete
  <2>3. \A t \in Targets : \E a \in archives : a.name.target = t
    <3>1. \A t \in Targets : ArchiveName(t, v).target = t
      BY DEF ArchiveName
    <3> QED
      BY <2>2, <3>1
  <2>4. \A a \in archives : a.name.target \in Targets
    BY <2>1, CompleteArchives
  <2>5. {a.name.target : a \in archives} = Targets
    BY <2>3, <2>4
  <2>6. \E a \in archives : a.name.version = v
    BY <2>1, <2>3, CompleteArchives, ReleaseConstants
  <2>7. version = v
    BY <2>6, ReleaseConstants DEF IInv, FilesFound
  <2> QED
    BY <2>1, <2>5, <2>7
<1> QED
  BY <1>1, <1>2

\* A manifest that lists the archives exactly is as long as they are many.
LEMMA ManifestLength ==
  ASSUME NEW manifest \in Seq(Line), NEW files, ListsExactly(manifest, files),
         \A f, g \in files : f.name = g.name => f = g
  PROVE  Len(manifest) = Cardinality(files)
<1> DEFINE file == [i \in 1 .. Len(manifest) |-> CHOOSE f \in files : f.name = manifest[i].name]
<1>1. Len(manifest) \in Nat /\ DOMAIN manifest = 1 .. Len(manifest)
  OBVIOUS
<1>2. \A i \in 1 .. Len(manifest) : file[i] \in files /\ file[i].name = manifest[i].name
  BY <1>1 DEF ListsExactly
<1>3. file \in [1 .. Len(manifest) -> files]
  BY <1>2
<1>4. \A i, j \in 1 .. Len(manifest) : file[i] = file[j] => i = j
  BY <1>1, <1>2 DEF ListsExactly
<1>5. \A f \in files : \E i \in 1 .. Len(manifest) : file[i] = f
  BY <1>1, <1>2 DEF ListsExactly
<1>6. file \in Bijection(1 .. Len(manifest), files)
  <2> HIDE DEF file
  <2> QED
    BY <1>3, <1>4, <1>5 DEF Bijection, Injection, Surjection, IsInjective
<1> QED
  BY <1>1, <1>6, FS_CountingElements DEF ExistsBijection

\* An archive that holds each required entry once has no more than allowed.
LEMMA EntriesBounded ==
  ASSUME NEW entries \in Seq(Entry), NEW t \in Targets, HoldsExactly(entries, t)
  PROVE  Len(entries) <= MaxEntries
<1> DEFINE name == [i \in 1 .. Len(entries) |-> entries[i].name]
<1>1. Len(entries) \in Nat /\ DOMAIN entries = 1 .. Len(entries)
  OBVIOUS
<1>2. name \in [1 .. Len(entries) -> Required(t)]
  <2>1. \A i \in 1 .. Len(entries) : GoodEntry(entries[i], t)
    BY <1>1 DEF HoldsExactly
  <2>2. \A i \in 1 .. Len(entries) : entries[i].name \in Required(t)
    BY <2>1 DEF GoodEntry
  <2> QED
    BY <2>2
<1>3. \A i, j \in 1 .. Len(entries) : name[i] = name[j] => i = j
  BY <1>1 DEF HoldsExactly
<1>4. name \in Injection(1 .. Len(entries), Required(t))
  <2> HIDE DEF name
  <2> QED
    BY <1>2, <1>3 DEF Injection, IsInjective
<1>5. Executable(t) \notin Documents
  BY ReleaseConstants DEF Executable
<1>6. IsFiniteSet(Required(t)) /\ Cardinality(Required(t)) = Cardinality(Documents) + 1
  BY <1>5, ReleaseConstants, FS_AddElement DEF Required
<1>7. Cardinality(1 .. Len(entries)) = Len(entries)
  BY <1>1, FS_Interval
<1>8. Cardinality(1 .. Len(entries)) <= Cardinality(Required(t))
  BY <1>4, <1>6, FS_Injection
<1>9. Cardinality(Documents) \in Nat
  BY ReleaseConstants, FS_CardinalityType
<1> QED
  BY <1>1, <1>6, <1>7, <1>8, <1>9, ReleaseConstants

\* Refused without anything broken, the release lacks something.
RefusedInv == pc = "refused" => broken \/ \A v \in Versions : ~ Complete(v)

\* No step changes the arguments or the directory.
LEMMA ArgumentsStay ==
  ASSUME [Next]_vars
  PROVE  UNCHANGED arguments
BY DEF Next, Exited, vars, Break, CheckTag, Discover, Discovered, ReadManifest, CheckLine,
       LinesDone, Inspect, Visit, EntriesDone, Smoke, Verdict

\* A release that is complete was so before.
LEMMA CompleteStays ==
  ASSUME [Next]_vars, NEW v \in Versions, Complete(v)'
  PROVE  Complete(v)
<1>1. dist' = dist /\ expected' = expected /\ smoke' = smoke /\ host' = host
  BY ArgumentsStay DEF arguments
<1> QED
  BY <1>1 DEF Complete, Archives

\* No line of a complete release is refused (verifyChecksums).
LEMMA LineAccepted ==
  ASSUME IInv, NEW v \in Versions, Complete(v), pc = "lines", line <= Len(dist.manifest)
  PROVE  LineMatches(dist.manifest[line])
<1>1. dist.manifest \in Seq(Line) /\ line \in DOMAIN dist.manifest
  BY DistributionTypes DEF IInv, TypeOK
<1>2. ListsExactly(dist.manifest, archives)
  BY CompleteIsDiscovered DEF Complete, IInv, FilesFound, Discovering
<1>3. \A i \in 1 .. line - 1 : i \in DOMAIN dist.manifest /\ i # line
  BY <1>1
<1>4. \A i \in 1 .. line - 1 : dist.manifest[i].name # dist.manifest[line].name
  BY <1>1, <1>2, <1>3 DEF ListsExactly
<1>5. dist.manifest[line].name \notin listed
  BY <1>4 DEF IInv, LinesRead
<1> QED
  BY <1>1, <1>2, <1>5 DEF LineMatches, ListsExactly

\* No entry of a complete release is refused (visit).
LEMMA EntryAccepted ==
  ASSUME IInv, NEW v \in Versions, Complete(v), pc = "entries",
         entry <= Len(item.content.entries)
  PROVE  MayVisit(item.content.entries[entry])
<1> DEFINE entries == item.content.entries
<1>1. EntriesVisited /\ item \in Archives(dist)
  BY CompleteArchives DEF IInv, ArchivesInspected, EntriesVisited
<1>2. item \in dist.files /\ item.name.target \in Targets
  BY <1>1, CompleteArchives
<1>3. entries \in Seq(Entry) /\ entry \in DOMAIN entries
  BY <1>1, <1>2, DistributionTypes, FileTypes DEF IInv, EntriesVisited
<1>4. HoldsExactly(entries, item.name.target)
  BY <1>1 DEF Complete
<1>5. entry <= MaxEntries
  BY <1>2, <1>3, <1>4, EntriesBounded, ReleaseConstants
<1>6. \A i \in 1 .. entry - 1 : i \in DOMAIN entries /\ i # entry
  BY <1>3
<1>7. \A i \in 1 .. entry - 1 : entries[i].name # entries[entry].name
  BY <1>3, <1>4, <1>6 DEF HoldsExactly
<1>8. entries[entry].name \notin found
  BY <1>1, <1>7 DEF EntriesVisited
<1> QED
  BY <1>3, <1>4, <1>5, <1>8 DEF MayVisit, HoldsExactly

\* No archive of a complete release ends badly (inspectArchive).
LEMMA EndAccepted ==
  ASSUME IInv, NEW v \in Versions, Complete(v), pc = "entries",
         entry > Len(item.content.entries)
  PROVE  EndsWell
<1> DEFINE entries == item.content.entries
<1>1. EntriesVisited /\ item \in Archives(dist)
  BY CompleteArchives DEF IInv, ArchivesInspected, EntriesVisited
<1>2. entries \in Seq(Entry)
  BY <1>1, CompleteArchives, DistributionTypes, FileTypes DEF IInv
<1>3. 1 .. entry - 1 = DOMAIN entries
  BY <1>1, <1>2 DEF EntriesVisited
<1>4. item.content.sound /\ HoldsExactly(entries, item.name.target)
  BY <1>1 DEF Complete
<1>5. \A n \in Required(item.name.target) : n \in found
  BY <1>1, <1>3, <1>4 DEF EntriesVisited, HoldsExactly
<1> QED
  BY <1>4, <1>5 DEF EndsWell

\* A step that refuses has found something missing, or something broke.
LEMMA RefusedStep == IInv /\ RefusedInv /\ [Next]_vars => RefusedInv'
<1> SUFFICES ASSUME IInv, RefusedInv, [Next]_vars, pc' = "refused", ~ broken',
                    NEW v \in Versions, Complete(v)'
             PROVE  FALSE
  BY DEF RefusedInv
<1>1. Complete(v)
  BY CompleteStays
<1>2. CASE CheckTag
  BY <1>1, <1>2 DEF CheckTag, Complete
<1>3. ASSUME NEW f \in unread, Discover(f) PROVE FALSE
  BY <1>1, <1>3, CompleteIsDiscovered DEF Discover
<1>4. CASE Discovered
  BY <1>1, <1>4, CompleteIsDiscovered DEF Discovered, Complete
<1>5. CASE ReadManifest
  <2>1. archives = Archives(dist) /\ dist.bounded
    BY <1>1, <1>5, CompleteIsDiscovered
    DEF ReadManifest, Complete, IInv, FilesFound, Discovering
  <2>2. \A f, g \in archives : f.name = g.name => f = g
    BY ReleaseConstants DEF IInv, TypeOK
  <2>3. Len(dist.manifest) = Cardinality(archives)
    BY <1>1, <2>1, <2>2, DistributionTypes, ManifestLength DEF Complete, IInv
  <2> QED
    BY <1>5, <2>1, <2>3 DEF ReadManifest
<1>6. CASE CheckLine
  BY <1>1, <1>6, LineAccepted DEF CheckLine
<1>7. CASE LinesDone
  <2>1. archives = Archives(dist)
    BY <1>1, <1>7, CompleteIsDiscovered DEF LinesDone, IInv, FilesFound, Discovering
  <2>2. dist.manifest \in Seq(Line) /\ 1 .. line - 1 = DOMAIN dist.manifest
    BY <1>7, DistributionTypes DEF LinesDone, IInv, TypeOK
  <2>3. \A f \in archives : f.name \in listed
    BY <1>1, <2>1, <2>2, ZenonT(60) DEF Complete, ListsExactly, IInv, LinesRead
  <2> QED
    BY <1>7, <2>3 DEF LinesDone
<1>8. ASSUME NEW a \in archives, Inspect(a) PROVE FALSE
  BY <1>8 DEF Inspect
<1>9. CASE Visit
  BY <1>1, <1>9, EntryAccepted DEF Visit
<1>10. CASE EntriesDone
  BY <1>1, <1>10, EndAccepted DEF EntriesDone
<1>11. CASE Smoke
  <2>1. item \in Archives(dist) /\ smoke /\ item.name.target = host /\ version = v
    BY <1>1, <1>11, CompleteArchives, CompleteIsDiscovered
    DEF Smoke, IInv, ArchivesInspected, EntriesVisited, FilesFound, Discovering, Inspecting
  <2>2. Prints(item.content, host, version)
    BY <1>1, <2>1 DEF Complete
  <2> QED
    BY <1>11, <2>2 DEF Smoke
<1>12. CASE Verdict
  <2>1. inspected = archives /\ {a.name.target : a \in archives} = Targets
    BY <1>12 DEF Verdict, IInv, FilesFound, Discovering, Inspecting
  <2>2. smoke => \E a \in inspected : a.name.target = host
    BY <1>1, <2>1 DEF Complete
  <2>3. smoked
    BY <2>2 DEF IInv, ArchivesInspected
  <2> QED
    BY <1>12, <2>3 DEF Verdict
<1>13. CASE Break
  BY <1>13 DEF Break
<1>14. CASE UNCHANGED vars
  BY <1>1, <1>14 DEF RefusedInv, vars
<1> QED
  BY <1>2, <1>3, <1>4, <1>5, <1>6, <1>7, <1>8, <1>9, <1>10, <1>11, <1>12, <1>13, <1>14
  DEF Next, Exited

\* A complete release is only refused when something could not be read or run
\* (Verify).
THEOREM Refused == Spec => []CompleteIsAccepted
<1>1. Init => RefusedInv
  BY DEF Init, RefusedInv
<1>2. RefusedInv => CompleteIsAccepted
  BY DEF RefusedInv, CompleteIsAccepted
<1> QED
  BY <1>1, <1>2, RefusedStep, Invariance, PTL DEF Spec

=============================================================================
