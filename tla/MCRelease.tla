------------------------------ MODULE MCRelease ------------------------------
(* A good distribution for three targets, and what one or two mistakes make  *)
(* of it.                                                                     *)
EXTENDS Release

Amd == "linux/amd64"
Arm == "linux/arm64"
Win == "windows/amd64"
MCTargets == {Amd, Arm, Win}
MCWindows == {Win}
MCVersions == {"1.2.3", "dev"}
MCDocuments == {"LICENSE"}

GoodEntries(t, v) ==
  LET e == [name |-> "LICENSE", canonical |-> TRUE, regular |-> TRUE, runnable |-> FALSE,
            size |-> "bounded", intact |-> TRUE, binary |-> None, prints |-> None]
  IN <<e, [e EXCEPT !.name = Executable(t), !.runnable = t \notin Windows,
                    !.binary = t, !.prints = v]>>

Archive(t, v) ==
  [name |-> ArchiveName(t, v), regular |-> TRUE, size |-> "bounded",
   content |-> [sound |-> TRUE, entries |-> GoodEntries(t, v)]]

LineOf(f) == [valid |-> TRUE, name |-> f.name, digest |-> f.content]

\* The manifest is the one of the files g.
Dist(f, g) ==
  [files |-> {f[t] : t \in Targets}, bounded |-> TRUE,
   manifest |-> <<LineOf(g[Amd]), LineOf(g[Arm]), LineOf(g[Win])>>]

Release(v) == [t \in Targets |-> Archive(t, v)]

BadEntries(e, t) ==
  LET other == CHOOSE u \in Targets : u # t /\ (u = Arm \/ t = Arm)
  IN {[e EXCEPT !.name = "other"], [e EXCEPT !.canonical = FALSE],
      [e EXCEPT !.regular = FALSE], [e EXCEPT !.runnable = ~ @],
      [e EXCEPT !.size = "huge"], [e EXCEPT !.intact = FALSE],
      [e EXCEPT !.binary = other], [e EXCEPT !.prints = "dev"]}

BadEntryLists(s, t) ==
  UNION {{[s EXCEPT ![i] = b] : b \in BadEntries(s[i], t)} : i \in DOMAIN s}
  \cup {<<s[1]>>, <<s[2], s[1]>>, <<s[1], s[2], s[2]>>, <<s[1], s[2], s[1]>>}

BadFiles(f) ==
  {[f EXCEPT !.regular = FALSE], [f EXCEPT !.size = "empty"],
   [f EXCEPT !.content.sound = FALSE], [f EXCEPT !.name.version = "dev"],
   [f EXCEPT !.name.target = None], [f EXCEPT !.name.archive = FALSE]}
  \cup {[f EXCEPT !.content.entries = s] :
          s \in BadEntryLists(f.content.entries, f.name.target)}

BadReleases(g) == UNION {{[g EXCEPT ![t] = b] : b \in BadFiles(g[t])} : t \in {Amd, Win}}

BadManifests(m) ==
  {<<>>, <<m[1], m[2]>>, <<m[2], m[3], m[1]>>, <<m[1], m[2], m[2]>>,
   <<m[1], m[2], m[3], m[3]>>, [m EXCEPT ![3].valid = FALSE],
   [m EXCEPT ![1].name = m[2].name], [m EXCEPT ![1].digest = m[2].digest]}

\* The files may be bad before or after the manifest was made of them; there
\* may be a file too many; and the manifest may be bad as well.
MCDistributions ==
  LET good == Release("1.2.3")
      dists == {Dist(good, good), Dist(Release("dev"), Release("dev"))}
               \cup {Dist(b, b) : b \in BadReleases(good)}
               \cup {Dist(b, good) : b \in BadReleases(good)}
  IN dists
     \cup {[d EXCEPT !.files = @ \cup {f}] : d \in {Dist(good, good)},
             f \in {Archive(Amd, "dev"), [Archive(Amd, "dev") EXCEPT !.name.target = None],
                    [Archive(Amd, "dev") EXCEPT !.name.archive = FALSE]}}
     \cup {[d EXCEPT !.bounded = FALSE] : d \in {Dist(good, good)}}
     \cup UNION {{[d EXCEPT !.manifest = m] : m \in BadManifests(d.manifest)} : d \in dists}

Tag(core, prerelease, build) ==
  [bounded |-> TRUE, build |-> build, core |-> core, prerelease |-> prerelease,
   version |-> "1.2.3"]

MCTags ==
  {Tag(<<<<"d">>, <<"0">>, <<"d">>>>, <<>>, FALSE),
   Tag(<<<<"d">>, <<"0", "d">>, <<"d">>>>, <<>>, FALSE),
   [Tag(<<<<"d">>, <<"0">>, <<"d">>>>, <<>>, FALSE) EXCEPT !.version = "dev"]}

Digits == {<<"d">>, <<"0">>, <<"d", "0">>}

\* TestValidateTag, and every short tag: a pre-release part may be a word, a
\* number does not start with a zero.
ASSUME TagsAreSemantic ==
  /\ \A a, b, c \in Digits : ValidTag(Tag(<<a, b, c>>, <<>>, FALSE))
  /\ \A a, b, c \in Digits :
       /\ ~ ValidTag(Tag(<<a, b, c>>, <<>>, TRUE))
       /\ ~ ValidTag(Tag(<<a, b>>, <<>>, FALSE))
       /\ ~ ValidTag(Tag(<<<<"0">> \o a, b, c>>, <<>>, FALSE))
       /\ \A p \in [1 .. 2 -> {"0", "d", "a", "x"}] :
            ValidTag(Tag(<<a, b, c>>, <<p>>, FALSE)) <=>
              /\ \A i \in 1 .. 2 : p[i] # "x"
              /\ p[1] = "0" => p[2] = "a"

=============================================================================
