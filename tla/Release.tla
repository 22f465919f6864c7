------------------------------- MODULE Release -------------------------------
(***************************************************************************)
(* internal/distcheck: the verifier that a distribution has to pass before *)
(* anything of it is published, loop by loop.                              *)
(*                                                                         *)
(* A file name is what parseArchiveName makes of it, a file's digest is its*)
(* content, and of an archive entry only what the verifier looks at is     *)
(* kept.  Directories and zip or tar members are looked at in any order;   *)
(* the code takes them as sorted, or as they come.                         *)
(***************************************************************************)
EXTENDS Naturals, Sequences, FiniteSets

CONSTANTS
  Targets,       \* expectedTargets
  Windows,       \* those of them whose os is "windows"
  Versions,      \* versions an archive may be named for
  Documents,     \* LICENSE, README.md and THIRD_PARTY_NOTICES.md
  None,          \* no version, no target, no archive
  MaxEntries,    \* maxArchiveEntries
  Distributions, \* directories the verifier is run on
  Tags           \* values of -version

Sizes == {"empty", "bounded", "huge"}
Entry == [name: Documents \cup {"relaybox", "relaybox.exe", "other"},
          canonical: BOOLEAN, regular: BOOLEAN, runnable: BOOLEAN, size: Sizes,
          intact: BOOLEAN,                   \* reads to its end, of the size given
          binary: Targets \cup {None},       \* whose executable it is
          prints: Versions \cup {None}]      \* what "relaybox version" says
Content == [sound: BOOLEAN, entries: Seq(Entry)]   \* sound: ends where the file does
Name == [archive: BOOLEAN, target: Targets \cup {None}, version: Versions \cup {None}]
File == [name: Name, regular: BOOLEAN, size: Sizes, content: Content]
Line == [valid: BOOLEAN, name: Name, digest: Content]
Distribution == [files: SUBSET File, bounded: BOOLEAN, manifest: Seq(Line)]

ASSUME ReleaseConstants ==
  /\ Windows \subseteq Targets /\ Targets # {} /\ None \notin Targets \cup Versions
  /\ {"relaybox", "relaybox.exe", "other"} \cap Documents = {}
  /\ IsFiniteSet(Documents) /\ MaxEntries \in Nat /\ MaxEntries > Cardinality(Documents)
  /\ \A d \in Distributions :
       /\ d \in Distribution
       /\ \A f, g \in d.files : f.name = g.name => f = g
       /\ \A f \in d.files : f.name.target # None => f.name.version # None

VARIABLES
  dist, expected, smoke, host,   \* the arguments, and the machine
  pc,
  unread,       \* discoverArchives: entries still to look at
  archives, version,
  line, listed,                  \* verifyChecksums: the line, and seen
  inspected,    \* Verify: archives done with
  item, entry, found,            \* inspectArchive: the archive, the entry, required
  smoked,
  broken        \* history: a read or the executable failed

arguments == <<dist, expected, smoke, host>>
discovery == <<unread, archives, version>>
checksums == <<line, listed>>
inspection == <<inspected, item, entry, found, smoked>>
vars == <<arguments, discovery, checksums, inspection, pc, broken>>

Refuse == pc' = "refused"

-----------------------------------------------------------------------------
(* ValidateTag; "0", other digits "d", letters and hyphens "a", the rest "x" *)

Decimal(id) == id # <<>> /\ \A i \in DOMAIN id : id[i] \in {"0", "d"}

LeadingZero(id) == Len(id) > 1 /\ id[1] = "0"

Identifier(id) ==
  /\ id # <<>> /\ \A i \in DOMAIN id : id[i] # "x"
  /\ ~ (LeadingZero(id) /\ Decimal(id))

ValidTag(t) ==
  /\ t.bounded /\ ~ t.build
  /\ \A i \in DOMAIN t.prerelease : Identifier(t.prerelease[i])
  /\ Len(t.core) = 3
  /\ \A i \in DOMAIN t.core : Decimal(t.core[i]) /\ ~ LeadingZero(t.core[i])

\* Verify: an expected version may come with its "v" or without
CheckTag ==
  /\ pc = "tag"
  /\ IF expected = None \/ ValidTag(expected) THEN pc' = "discover" ELSE Refuse
  /\ UNCHANGED <<arguments, discovery, checksums, inspection, broken>>

-----------------------------------------------------------------------------
(* discoverArchives *)

Wanted(f) ==
  /\ f.name.target \in Targets
  /\ f.regular /\ f.size = "bounded"
  /\ \A a \in archives : a.name.target # f.name.target
  /\ version \in {None, f.name.version}

Discover(f) ==
  /\ pc = "discover" /\ f \in unread
  /\ unread' = unread \ {f}
  /\ \/ /\ ~ f.name.archive
        /\ UNCHANGED <<archives, version, pc>>
     \/ /\ f.name.archive /\ Wanted(f)
        /\ archives' = archives \cup {f} /\ version' = f.name.version
        /\ UNCHANGED pc
     \/ /\ f.name.archive /\ ~ Wanted(f)
        /\ Refuse
        /\ UNCHANGED <<archives, version>>
  /\ UNCHANGED <<arguments, checksums, inspection, broken>>

Discovered ==
  /\ pc = "discover" /\ unread = {}
  /\ IF /\ {a.name.target : a \in archives} = Targets
        /\ expected # None => expected.version = version
       THEN pc' = "manifest" ELSE Refuse
  /\ UNCHANGED <<arguments, discovery, checksums, inspection, broken>>

-----------------------------------------------------------------------------
(* verifyChecksums *)

ReadManifest ==
  /\ pc = "manifest"
  /\ IF dist.bounded /\ Len(dist.manifest) = Cardinality(archives)
       THEN pc' = "lines" ELSE Refuse
  /\ UNCHANGED <<arguments, discovery, checksums, inspection, broken>>

LineMatches(l) ==
  /\ l.valid /\ l.name \notin listed
  /\ \E a \in archives : a.name = l.name /\ a.content = l.digest

CheckLine ==
  /\ pc = "lines" /\ line <= Len(dist.manifest)
  /\ IF LineMatches(dist.manifest[line])
       THEN /\ listed' = listed \cup {dist.manifest[line].name}
            /\ line' = line + 1
            /\ UNCHANGED pc
       ELSE Refuse /\ UNCHANGED checksums
  /\ UNCHANGED <<arguments, discovery, inspection, broken>>

LinesDone ==
  /\ pc = "lines" /\ line > Len(dist.manifest)
  /\ IF {a.name : a \in archives} \subseteq listed THEN pc' = "inspect" ELSE Refuse
  /\ UNCHANGED <<arguments, discovery, checksums, inspection, broken>>

-----------------------------------------------------------------------------
(* inspectArchive, with inspectZip or inspectTarGzip *)

Executable(t) == IF t \in Windows THEN "relaybox.exe" ELSE "relaybox"

Required(t) == Documents \cup {Executable(t)}

Inspect(a) ==
  /\ pc = "inspect" /\ a \in archives \ inspected
  /\ item' = a /\ entry' = 1 /\ found' = {}
  /\ pc' = "entries"
  /\ UNCHANGED <<arguments, discovery, checksums, inspected, smoked, broken>>

\* What visit asks of an entry whatever came before it
GoodEntry(e, t) ==
  /\ e.canonical /\ e.name \in Required(t)
  /\ e.regular /\ e.size = "bounded" /\ e.intact
  /\ e.name = Executable(t) => e.binary = t /\ (e.runnable \/ t \in Windows)

\* Variant: entries that nobody asked for are passed over
VisitOthers(e) ==
  /\ entry <= MaxEntries
  /\ \/ e.name = "other"
     \/ GoodEntry(e, item.name.target) /\ e.name \notin found

\* Variant: off by one, an archive with as many entries as allowed is refused
VisitFewer(e) ==
  /\ entry < MaxEntries
  /\ GoodEntry(e, item.name.target) /\ e.name \notin found

MayVisit(e) ==
  /\ entry <= MaxEntries
  /\ GoodEntry(e, item.name.target) /\ e.name \notin found

Visit ==
  /\ pc = "entries" /\ entry <= Len(item.content.entries)
  /\ LET e == item.content.entries[entry]
     IN IF MayVisit(e)
          THEN found' = found \cup {e.name} /\ entry' = entry + 1 /\ UNCHANGED pc
          ELSE Refuse /\ UNCHANGED <<found, entry>>
  /\ UNCHANGED <<arguments, discovery, checksums, inspected, item, smoked, broken>>

\* Variant: what follows the last entry is not looked at
EndsSomewhere == Required(item.name.target) \subseteq found

\* The end of the stream is the end of the file (zipEndsAtEOF looks first)
EndsWell == item.content.sound /\ Required(item.name.target) \subseteq found

EntriesDone ==
  /\ pc = "entries" /\ entry > Len(item.content.entries)
  /\ IF ~ EndsWell THEN Refuse /\ UNCHANGED inspected
     ELSE IF smoke /\ item.name.target = host THEN pc' = "smoke" /\ UNCHANGED inspected
     ELSE pc' = "inspect" /\ inspected' = inspected \cup {item}
  /\ UNCHANGED <<arguments, discovery, checksums, item, entry, found, smoked, broken>>

\* smokeExecutable runs what inspectArchive has read; "dev" is the version of a
\* build that was not stamped with one
Prints(content, t, v) ==
  /\ v # "dev"
  /\ \E i \in DOMAIN content.entries :
       content.entries[i].name = Executable(t) /\ content.entries[i].prints = v

Smoke ==
  /\ pc = "smoke"
  /\ IF Prints(item.content, host, version)
       THEN pc' = "inspect" /\ inspected' = inspected \cup {item} /\ smoked' = TRUE
       ELSE Refuse /\ UNCHANGED <<inspected, smoked>>
  /\ UNCHANGED <<arguments, discovery, checksums, item, entry, found, broken>>

Verdict ==
  /\ pc = "inspect" /\ inspected = archives
  /\ IF smoked THEN pc' = "accepted" ELSE Refuse
  /\ UNCHANGED <<arguments, discovery, checksums, inspection, broken>>

\* A file cannot be read, or the executable does not end in ten seconds.
Break ==
  /\ pc \notin {"accepted", "refused"}
  /\ Refuse /\ broken' = TRUE
  /\ UNCHANGED <<arguments, discovery, checksums, inspection>>

-----------------------------------------------------------------------------
Init ==
  /\ dist \in Distributions /\ expected \in Tags \cup {None}
  /\ smoke \in BOOLEAN /\ host \in Targets \cup {None}
  /\ pc = "tag" /\ unread = dist.files /\ archives = {} /\ version = None
  /\ line = 1 /\ listed = {}
  /\ inspected = {} /\ item = None /\ entry = 1 /\ found = {} /\ smoked = ~ smoke
  /\ broken = FALSE

\* The command has exited.
Exited == pc \in {"accepted", "refused"} /\ UNCHANGED vars

Next ==
  \/ CheckTag
  \/ \E f \in unread : Discover(f)
  \/ Discovered \/ ReadManifest \/ CheckLine \/ LinesDone
  \/ \E a \in archives : Inspect(a)
  \/ Visit \/ EntriesDone \/ Smoke \/ Verdict \/ Break \/ Exited

Spec == Init /\ [][Next]_vars

-----------------------------------------------------------------------------
(* Correctness *)

\* The locals of Verify have their types, and the manifest is not read past
\* its end (verifyChecksums).
TypeOK ==
  /\ expected \in Tags \cup {None}
  /\ smoke \in BOOLEAN /\ host \in Targets \cup {None}
  /\ pc \in {"tag", "discover", "manifest", "lines", "inspect", "entries", "smoke",
             "accepted", "refused"}
  /\ unread \subseteq dist.files /\ archives \subseteq dist.files
  /\ version \in Versions \cup {None}
  /\ line \in 1 .. Len(dist.manifest) + 1 /\ listed \subseteq Name
  /\ inspected \subseteq archives /\ item \in archives \cup {None}
  /\ entry \in Nat /\ found \subseteq Documents \cup {"relaybox", "relaybox.exe"}
  /\ smoked \in BOOLEAN /\ broken \in BOOLEAN

\* What docs/releasing.md promises of a release, read off the directory.

ArchiveName(t, v) == [archive |-> TRUE, target |-> t, version |-> v]

Archives(d) == {f \in d.files : f.name.archive}

ListsExactly(manifest, files) ==
  /\ \A i \in DOMAIN manifest :
       /\ manifest[i].valid
       /\ \E f \in files : f.name = manifest[i].name /\ f.content = manifest[i].digest
  /\ \A i, j \in DOMAIN manifest : manifest[i].name = manifest[j].name => i = j
  /\ \A f \in files : \E i \in DOMAIN manifest : manifest[i].name = f.name

HoldsExactly(entries, t) ==
  /\ \A i \in DOMAIN entries : GoodEntry(entries[i], t)
  /\ \A i, j \in DOMAIN entries : entries[i].name = entries[j].name => i = j
  /\ \A n \in Required(t) : \E i \in DOMAIN entries : entries[i].name = n

Complete(v) ==
  /\ {f.name : f \in Archives(dist)} = {ArchiveName(t, v) : t \in Targets}
  /\ expected # None => ValidTag(expected) /\ expected.version = v
  /\ dist.bounded /\ ListsExactly(dist.manifest, Archives(dist))
  /\ \A f \in Archives(dist) :
       /\ f.regular /\ f.size = "bounded" /\ f.content.sound
       /\ HoldsExactly(f.content.entries, f.name.target)
       /\ smoke /\ f.name.target = host => Prints(f.content, host, v)
  /\ smoke => host \in Targets

\* docs/releasing.md: "requires exactly six archives", "verifies the exact
\* checksum manifest", "rejects missing or unexpected content".  What is
\* accepted is one sound archive of one version per target, each listed once
\* and each holding each required entry once (Verify).
AcceptedIsComplete == pc = "accepted" => \E v \in Versions : Complete(v)

\* And nothing else is asked: a complete release is only refused when
\* something could not be read or run (Verify).
CompleteIsAccepted == pc = "refused" => broken \/ \A v \in Versions : ~ Complete(v)

=============================================================================
