-------------------------- MODULE DefinitionClosure --------------------------
(***************************************************************************)
(* What a run does is decided by definitions: the repository's config, a   *)
(* pipeline, its loops, agents, skills and evals.  Some are files of the   *)
(* repository at one commit, the others are released with the program and  *)
(* own the namespace core/.  compileDefinitionBundle loads both channels,  *)
(* walks from the config to everything it selects and pins that closure on *)
(* the run.  From then on every reduction compiles the manifest again from *)
(* the pinned bundle, by a release that has the core definitions and the   *)
(* compiler environment of the admission, and by no other.                 *)
(*                                                                         *)
(* A file is a name with a body; the body of a definition decides which    *)
(* other definitions it selects.  The files of a skill's package are named *)
(* for where they lie, and what they hold is part of the body of the skill.*)
(* Runtime stages and the checks of the stage graph are left to            *)
(* PipelineValidation and PipelineLifecycle.                               *)
(***************************************************************************)
EXTENDS Naturals, FiniteSets

CONSTANTS Names,      \* the paths of files
          Config,     \* the repository's config
          Core,       \* the paths of the reserved namespace
          Owner,      \* itself of a definition, the skill of a file in its
                      \* package, Absent of a path where nothing belongs
          Clashes,    \* sets of paths that differ only in case, or that define
                      \* one identity
          Bodies,     \* the contents that parse
          Malformed,  \* a content that does not
          Unreadable, \* no regular file of text, or one that is too large
          Selects,    \* the definitions that a body of a definition selects
          Trees,      \* what commits of the repository hold
          Catalogs,   \* what releases hold
          Absent,     \* no such file
          Environments, \* compiler versions with their runtime capabilities
          MaxFiles,   \* the limit on files, in number and in bytes
          MaxCommits, MaxReleases  \* bounds on the changes that are explored

Files == [Names -> Bodies \cup {Malformed, Unreadable, Absent}]

ASSUME ClosureAssumption ==
  /\ Config \in Names \ Core /\ Core \subseteq Names /\ IsFiniteSet(Names)
  /\ Absent \notin Bodies /\ Malformed \notin Bodies \cup {Absent}
  /\ Unreadable \notin Bodies \cup {Malformed, Absent} /\ Absent \notin Names
  /\ Owner \in [Names -> Names \cup {Absent}]
  /\ \A n \in Names : Owner[n] # Absent =>
       Owner[Owner[n]] = Owner[n] /\ (n \in Core <=> Owner[n] \in Core)
  /\ Clashes \subseteq SUBSET Names /\ MaxFiles \in Nat
  /\ Selects \in [Names -> [Bodies -> SUBSET {n \in Names : Owner[n] = n}]]
  /\ Trees \subseteq Files /\ Catalogs \subseteq Files
  /\ MaxCommits \in Nat /\ MaxReleases \in Nat

Origins == {"repository", "platform"}
Entries == [body : Bodies \cup {Malformed}, origin : Origins]

VARIABLES head,     \* the repository's files now
          pushes, releases,
          catalog,  \* the files of the running release
          environment,  \* and its compiler environment
          admission,    \* of the admission
          tree,     \* the files of the commit it compiles
          loaded,   \* per identity the file the compiler loaded, or Absent
          wanted,   \* identities that were selected and not yet looked up
          selected, \* the entries of the bundle
          compiledIn,   \* the environment it was compiled in
          resolving,\* whether a reduction is compiling the manifest again
          asked,    \* the identities it has yet to look up
          used,     \* the identities it has looked up
          resolved  \* the entries the last reduction went by, if it got that far

closureVars == <<head, pushes, releases, catalog, environment, admission, tree,
                 loaded, wanted, selected, compiledIn, resolving, asked, used, resolved>>
release == <<catalog, environment>>
compiling == <<tree, loaded, wanted, selected, compiledIn>>
reducing == <<resolving, asked, used, resolved>>

Nothing == [n \in {} |-> [body |-> Absent, origin |-> "repository"]]
NoFiles == [n \in Names |-> Absent]

ClosureInit ==
  /\ head \in Trees /\ catalog \in Catalogs /\ environment \in Environments
  /\ pushes = 0 /\ releases = 0
  /\ admission = "asked" /\ tree = NoFiles /\ compiledIn = environment
  /\ loaded = Nothing /\ wanted = {} /\ selected = Nothing
  /\ resolving = FALSE /\ asked = {} /\ used = {} /\ resolved = Nothing

Commit(t) ==
  /\ pushes < MaxCommits
  /\ head' = t /\ pushes' = pushes + 1
  /\ UNCHANGED <<releases, admission>> /\ UNCHANGED release
  /\ UNCHANGED compiling /\ UNCHANGED reducing

\* Another release starts: what ran in the process is gone, and an admission
\* that was not committed starts over.
Release(c, e) ==
  /\ releases < MaxReleases
  /\ catalog' = c /\ environment' = e /\ releases' = releases + 1
  /\ admission' = IF admission = "pinned" THEN admission ELSE "asked"
  /\ resolving' = FALSE /\ asked' = {} /\ used' = {}
  /\ UNCHANGED <<head, pushes, resolved>> /\ UNCHANGED compiling

-----------------------------------------------------------------------------
(* Admission                                                               *)

Refuse ==
  /\ admission' = "refused"
  /\ UNCHANGED <<head, pushes, releases>> /\ UNCHANGED release
  /\ UNCHANGED compiling /\ UNCHANGED reducing

ReadCommit ==
  /\ admission = "asked"
  /\ admission' = "loading" /\ tree' = head
  /\ UNCHANGED <<head, pushes, releases, loaded, wanted, selected, compiledIn>>
  /\ UNCHANGED release /\ UNCHANGED reducing

Present(files) == {n \in Names : files[n] # Absent}

\* Mutant of Loads: a repository's copy of a core definition is compiled
MirrorsCount(n) == n \in Present(tree)

\* The repository's files that are loaded: its exact mirrors of core files are
\* evidence only.
Loads(n) == n \in Present(tree) \ Core

\* The repository neither changes nor adds files in the core namespace.
Mirrors == \A n \in Present(tree) \cap Core : tree[n] = catalog[n]

\* loadFiles, what it asks of the files of a channel: all of them are regular
\* files of text, and there are not too many.
Readable(files) ==
  /\ \A n \in Names : files[n] # Unreadable
  /\ Cardinality(Present(files)) <= MaxFiles

Mine == {n \in Names : Loads(n)}

\* loadFiles, of both channels together: no file of one takes the place of a file
\* of the other, and there are not too many.
Joins ==
  /\ Mine \cap Present(catalog) = {}
  /\ Cardinality(Mine \cup Present(catalog)) <= MaxFiles

\* indexDefinitions: the released definitions are in the core namespace, and every
\* other file is in the package of a skill of its own channel.
Indexed ==
  /\ \A n \in Present(catalog) : Owner[n] = n => n \in Core
  /\ \A n \in Mine : Owner[n] \in Mine
  /\ \A n \in Present(catalog) : Owner[n] \in Present(catalog)

\* No two files have names that one of the two passes takes for the same.
Distinct == \A names \in Clashes : ~(names \subseteq Mine \cup Present(catalog))

\* None of this looks at what a file says or whether anything selects it.
Loadable ==
  /\ Readable(tree) /\ Readable(catalog)
  /\ Mirrors /\ Joins /\ Distinct /\ Indexed

\* The files of both channels are loaded and indexed.
Load ==
  /\ admission = "loading"
  /\ IF ~Loadable
       THEN Refuse
       ELSE /\ loaded' = [n \in Mine \cup Present(catalog) |->
                 IF n \in Mine THEN [body |-> tree[n], origin |-> "repository"]
                               ELSE [body |-> catalog[n], origin |-> "platform"]]
            /\ admission' = "walking"
            /\ wanted' = {Config} /\ selected' = Nothing
            /\ UNCHANGED <<head, pushes, releases, tree, compiledIn>>
            /\ UNCHANGED release /\ UNCHANGED reducing

\* Mutant of Follows: what a pipeline selects is left out of the closure
FollowsConfig(n) == IF n = Config THEN Selects[n][loaded[n].body] ELSE {}

Follows(n) == Selects[n][loaded[n].body]

\* A body that does not parse, of a skill also one whose package lacks a file
\* that is referenced or refers in a cycle.
Parses(n) == loaded[n].body # Malformed

\* A selected definition has to be there and to parse; it is added with what
\* it selects.  A definition that nothing selects is not even parsed.
Require(n) ==
  /\ admission = "walking" /\ n \in wanted
  /\ IF n \notin DOMAIN loaded \/ ~Parses(n)
       THEN Refuse
       ELSE /\ selected' = [m \in DOMAIN selected \cup {n} |-> loaded[m]]
            /\ wanted' = (wanted \cup Follows(n)) \ DOMAIN selected'
            /\ UNCHANGED <<head, pushes, releases, admission, tree, loaded, compiledIn>>
            /\ UNCHANGED release /\ UNCHANGED reducing

\* The bundle names the environment it was compiled in.
Pin ==
  /\ admission = "walking" /\ wanted = {}
  /\ admission' = "pinned" /\ compiledIn' = environment
  /\ UNCHANGED <<head, pushes, releases, tree, loaded, wanted, selected>>
  /\ UNCHANGED release /\ UNCHANGED reducing

-----------------------------------------------------------------------------
(* A reduction compiles the manifest from the pinned bundle                *)

\* Mutant of SourceTree: the repository is read again
SourceNow(n) == [body |-> IF n \in Core THEN catalog[n] ELSE head[n],
                 origin |-> IF n \in Core THEN "platform" ELSE "repository"]

SourceTree(n) == selected[n]

\* Mutant of Trusted: the hashes of the bundle are what is trusted
TrustedByItself == \A n \in DOMAIN selected : selected[n] = selected[n]

\* The running release derives the hashes of its own definitions; a pinned
\* platform entry has to have one of them, and the bundle the compiler version
\* and the capabilities of this release.
Trusted ==
  /\ \A n \in DOMAIN selected :
       selected[n].origin = "platform" => selected[n].body = catalog[n]
  /\ compiledIn = environment

\* A bundle that is not trusted is refused: the reduction throws.
Resolve ==
  /\ admission = "pinned" /\ ~resolving
  /\ Trusted
  /\ resolving' = TRUE /\ asked' = {Config} /\ used' = {}
  /\ UNCHANGED <<head, pushes, releases, admission, resolved>>
  /\ UNCHANGED release /\ UNCHANGED compiling

ResolveEntry(n) ==
  /\ resolving /\ n \in asked /\ n \in DOMAIN selected
  /\ used' = used \cup {n}
  /\ asked' = (asked \cup Selects[n][selected[n].body]) \ used'
  /\ UNCHANGED <<head, pushes, releases, admission, resolving, resolved>>
  /\ UNCHANGED release /\ UNCHANGED compiling

\* The bundle holds nothing that is not selected.
Closed == asked = {} /\ used = DOMAIN selected

Resolved ==
  /\ resolving /\ Closed
  /\ resolving' = FALSE /\ asked' = {} /\ used' = {}
  /\ resolved' = [n \in used |-> SourceTree(n)]
  /\ UNCHANGED <<head, pushes, releases, admission>>
  /\ UNCHANGED release /\ UNCHANGED compiling

Compiles == ReadCommit \/ Load \/ (\E n \in Names : Require(n)) \/ Pin
Reduces == Resolve \/ (\E n \in Names : ResolveEntry(n)) \/ Resolved
ClosureNext ==
  \/ Compiles \/ Reduces
  \/ \E t \in Trees : Commit(t)
  \/ \E c \in Catalogs, e \in Environments : Release(c, e)

ClosureSpec == ClosureInit /\ [][ClosureNext]_closureVars
FairClosureSpec ==
  ClosureSpec /\ WF_closureVars(Compiles) /\ WF_closureVars(Reduces)

-----------------------------------------------------------------------------
ClosureTypeOK ==
  /\ head \in Trees /\ catalog \in Catalogs
  /\ environment \in Environments /\ compiledIn \in Environments
  /\ pushes \in 0..MaxCommits /\ releases \in 0..MaxReleases
  /\ admission \in {"asked", "loading", "walking", "pinned", "refused"}
  /\ tree \in Trees \cup {NoFiles}
  /\ wanted \subseteq Names /\ asked \subseteq Names /\ used \subseteq DOMAIN selected
  /\ resolving \in BOOLEAN
  /\ \A f \in {loaded, selected, resolved} :
       DOMAIN f \subseteq Names /\ \A n \in DOMAIN f : f[n] \in Entries

\* The files a compilation of a commit may go by, from either channel.
BodyOf(files, n) == IF n \in Core THEN catalog[n] ELSE files[n]

\* A set of identities that a commit's config selects in the end: it holds the
\* config, and is closed.
ClosedSet(files, S) ==
  /\ Config \in S
  /\ \A n \in S : BodyOf(files, n) \in Bodies => Selects[n][BodyOf(files, n)] \subseteq S
Closure(files) ==
  {n \in Names : \A S \in SUBSET Names : ClosedSet(files, S) => n \in S}

Held(files) == {n \in Names : BodyOf(files, n) # Absent}

\* What a commit has to be, with the release that runs.  All that it holds has to
\* be in its place, readable and not too much, whether it is selected or not; only
\* what is selected has to parse.
InPlace(files) ==
  /\ Present(catalog) \subseteq Core
  /\ \A n \in Core : files[n] \in {Absent, catalog[n]}
  /\ \A n \in Held(files) : BodyOf(files, n) # Unreadable /\ Owner[n] \in Held(files)
  /\ \A names \in Clashes : ~(names \subseteq Held(files))
  /\ Cardinality(Held(files)) <= MaxFiles /\ Cardinality(Present(files)) <= MaxFiles
Compilable(files) ==
  /\ InPlace(files)
  /\ \A n \in Closure(files) : BodyOf(files, n) \in Bodies

(***************************************************************************)
(* Admission refuses a commit exactly if it cannot be compiled with the    *)
(* release that runs: a file that nothing selects counts by lying where it *)
(* lies, and not by what it says.  What is pinned is all that the commit's *)
(* config selects and nothing else, each definition from the channel that  *)
(* owns it.                                                                *)
(***************************************************************************)
AdmittedExactly ==
  [][/\ admission' = "refused" /\ admission # "refused" => ~Compilable(tree)
     /\ admission' = "pinned" /\ admission # "pinned" =>
          /\ Compilable(tree)
          /\ selected = [n \in Closure(tree) |->
               [body |-> BodyOf(tree, n),
                origin |-> IF n \in Core THEN "platform" ELSE "repository"]]]_closureVars

(***************************************************************************)
(* A reduction goes by the definitions of the admission, whatever was      *)
(* committed or released since: recovery has the behaviour of admission.   *)
(***************************************************************************)
ResumedAsAdmitted == resolved # Nothing => resolved = selected

(***************************************************************************)
(* No release acts on a core definition that is not its own, nor on what   *)
(* another compiler made: when the reduction takes up the manifest, every  *)
(* core definition in it is one the running release holds, and it was      *)
(* compiled in the environment of that release.                            *)
(***************************************************************************)
CoreIsReleased ==
  [][resolving /\ ~resolving' /\ releases' = releases =>
       /\ environment = compiledIn
       /\ \A n \in DOMAIN resolved' \cap Core : resolved'[n].body = catalog[n]]_closureVars

(***************************************************************************)
(* What every reduction of a pinned bundle comes to under a release that   *)
(* has its core definitions and its environment, and only there: none is   *)
(* stuck on a definition that is missing or left over.                     *)
(***************************************************************************)
PinnedIsCompiled ==
  admission = "pinned" /\ Trusted /\ releases = MaxReleases => resolved = selected

\* A run keeps the definitions it was admitted with, in the repository and in the
\* catalog that change beside it: what is pinned is the whole closure, what is
\* resumed is what was pinned, and what is core is as it was released.
ClosureSafe ==
    /\ []ResumedAsAdmitted
    /\ AdmittedExactly
    /\ CoreIsReleased
=============================================================================
