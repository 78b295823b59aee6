----------------------------- MODULE ReleasePages -----------------------------
(***************************************************************************)
(* release.yml and build-pages-index.sh: the runs that pushed tags and      *)
(* re-releases start, one at a time in their concurrency group; the assets  *)
(* of the releases, replaced one by one; the simple/ index that is built    *)
(* from the SHA256SUMS of the latest release; and the owner, who marks a    *)
(* release as a pre-release when he comes to it.                            *)
(***************************************************************************)
EXTENDS Naturals

CONSTANTS
  LastTag,          \* bound: tags are 1 .. LastTag, in the order of versions
  Files(_),         \* the names of the wheels a tag's commit builds
  PreTags,          \* tags with a pre-release suffix
  ApiMayFail,       \* `gh release view` may fail for another reason
  MaxRuns           \* bound: runs of the workflow

ASSUME BoundAssumption == LastTag \in Nat /\ MaxRuns \in Nat
ASSUME TagAssumption ==
  /\ PreTags \subseteq 1 .. LastTag /\ ApiMayFail \in BOOLEAN
  /\ \A t \in 1 .. LastTag : "SHA256SUMS" \notin Files(t)

Tags   == 1 .. LastTag
Runs   == 1 .. MaxRuns
Wheels == UNION {Files(t) : t \in Tags}
Names  == Wheels \cup {"SHA256SUMS"}
NoTag  == 0
NoRun  == 0

VARIABLES
  pushed,           \* the newest tag of the repository, pushed in order
  started,          \* runs so far: they are 1 .. started
  runs,             \* runs[n]: [tag, ref, job, todo, index]
  released, pre,    \* releases; those of them marked as pre-releases
  assets,           \* assets[t][name]: the run that built it, NoRun if missing
  torn,             \* releases an upload to which has begun and not ended well
  site              \* [tag, of, by]: the index lists the wheels of release tag
                    \* with the hashes of run of; run by deployed it
store == <<released, pre, assets, torn>>
vars == <<pushed, started, runs, store, site>>

Empty == [tag |-> NoTag, of |-> NoRun]
NotStarted ==
  [tag |-> NoTag, ref |-> NoTag, job |-> "none", todo |-> {}, index |-> Empty]

Init ==
  /\ pushed = NoTag /\ released = {} /\ pre = {} /\ torn = {}
  /\ started = 0 /\ runs = [n \in Runs |-> NotStarted]
  /\ assets = [t \in Tags |-> [f \in Names |-> NoRun]]
  /\ site = [tag |-> NoTag, of |-> NoRun, by |-> NoRun]

Jobs == {"build", "release", "upload", "pages", "deploy"}
Over == {"success", "failure", "cancelled"}
To(n, job) == runs' = [runs EXCEPT ![n].job = job]

------------------------------------------------------------------------------
(* What starts a run. *)

\* Faulty variant: no concurrency group.
NoGroup(n) == FALSE
Busy(n)    == \E k \in Runs : k # n /\ runs[k].job \in Jobs

\* A run starts if none is on; else it waits, and takes the place of the
\* run that waited before it.
Triggered(tag, ref) ==
  /\ started < MaxRuns /\ started' = started + 1
  /\ runs' = [n \in Runs |->
       IF n = started'
       THEN [tag |-> tag, ref |-> ref, todo |-> {}, index |-> Empty,
             job |-> IF Busy(n) THEN "pending" ELSE "build"]
       ELSE IF runs[n].job = "pending" THEN [runs[n] EXCEPT !.job = "cancelled"]
       ELSE runs[n]]
  /\ UNCHANGED <<store, site>>

Push ==
  /\ pushed < LastTag /\ pushed' = pushed + 1
  /\ Triggered(pushed', pushed')

\* From the tab of the workflow, for an existing tag, on a ref: a tag, or the
\* branch, which stands where its newest tag does.
Dispatch(tag, ref) ==
  /\ tag <= pushed /\ ref <= pushed
  /\ Triggered(tag, ref) /\ UNCHANGED pushed

Admit(n) ==
  /\ runs[n].job = "pending" /\ ~Busy(n) /\ To(n, "build")
  /\ UNCHANGED <<pushed, started, store, site>>

Fail(n) ==
  /\ runs[n].job \in Jobs /\ To(n, "failure")
  /\ UNCHANGED <<pushed, started, store, site>>

------------------------------------------------------------------------------
(* The jobs of run n. *)

\* Faulty variant: pages needs build.
PagesAfterBuild(job) ==
  CASE job = "build" -> "pages" [] job = "deploy" -> "release"
    [] job = "release" -> "success"
NextJob(job) ==
  CASE job = "build" -> "release" [] job = "release" -> "pages"
    [] job = "deploy" -> "success"

Build(n) ==
  /\ runs[n].job = "build" /\ To(n, NextJob("build"))
  /\ UNCHANGED <<pushed, started, store, site>>

BuiltFiles(n) == Files(runs[n].ref) \cup {"SHA256SUMS"}

\* `gh release create` publishes the release with all its assets.
Create(n) ==
  LET t == runs[n].tag IN
  /\ runs[n].job = "release" /\ t \notin released
  /\ released' = released \cup {t}
  /\ assets' = [assets EXCEPT ![t] =
                  [f \in Names |-> IF f \in BuiltFiles(n) THEN n ELSE NoRun]]
  /\ To(n, NextJob("release")) /\ UNCHANGED <<pushed, started, pre, torn, site>>

\* Faulty variant: wheels that are there are left alone.
TodoNew(n) == {f \in BuiltFiles(n) : f = "SHA256SUMS"
                                       \/ assets[runs[n].tag][f] = NoRun}
Todo(n)    == BuiltFiles(n)

BeginUpload(n) ==
  /\ runs[n].job = "release" /\ runs[n].tag \in released
  /\ runs' = [runs EXCEPT ![n].job = "upload", ![n].todo = Todo(n)]
  /\ torn' = torn \cup {runs[n].tag}
  /\ UNCHANGED <<pushed, started, released, pre, assets, site>>

\* --clobber deletes the asset of that name and then uploads, several at once.
Clobber(n, f) ==
  /\ f \in runs[n].todo /\ runs[n].job = "upload"
  /\ assets[runs[n].tag][f] # NoRun
  /\ assets' = [assets EXCEPT ![runs[n].tag][f] = NoRun]
  /\ UNCHANGED <<pushed, started, runs, released, pre, torn, site>>

Upload(n, f) ==
  /\ f \in runs[n].todo /\ runs[n].job = "upload"
  /\ assets[runs[n].tag][f] = NoRun
  /\ assets' = [assets EXCEPT ![runs[n].tag][f] = n]
  /\ runs' = [runs EXCEPT ![n].todo = @ \ {f}]
  /\ UNCHANGED <<pushed, started, released, pre, torn, site>>

EndUpload(n) ==
  /\ runs[n].job = "upload" /\ runs[n].todo = {}
  /\ torn' = torn \ {runs[n].tag} /\ To(n, NextJob("release"))
  /\ UNCHANGED <<pushed, started, released, pre, assets, site>>

\* Faulty variant: the index of the release the run made.
IsOwn(n, t) == t = runs[n].tag
\* "most recent non-prerelease, non-draft"; there may be none.
Listed == released \ pre
IsLatest(n, t) ==
  IF Listed = {} THEN t = NoTag ELSE t \in Listed /\ \A u \in Listed : u <= t

\* The script takes an error for no release; the index of none is empty.
Resolve(n, t) == IsLatest(n, t) \/ (ApiMayFail /\ t = NoTag)

BuildIndex(n) ==
  /\ runs[n].job = "pages"
  /\ \E t \in Tags \cup {NoTag} :
       LET k == IF t = NoTag THEN NoRun ELSE assets[t]["SHA256SUMS"] IN
       /\ Resolve(n, t) /\ (t # NoTag => k # NoRun)
       /\ runs' = [runs EXCEPT ![n].job = "deploy",
                               ![n].index = [tag |-> t, of |-> k]]
  /\ UNCHANGED <<pushed, started, store, site>>

\* "ERROR: $TAG has no SHA256SUMS asset"
NoManifest(n) ==
  /\ runs[n].job = "pages" /\ To(n, "failure")
  /\ \E t \in Tags : Resolve(n, t) /\ assets[t]["SHA256SUMS"] = NoRun
  /\ UNCHANGED <<pushed, started, store, site>>

Deploy(n) ==
  /\ runs[n].job = "deploy" /\ To(n, NextJob("deploy"))
  /\ site' = [tag |-> runs[n].index.tag, of |-> runs[n].index.of, by |-> n]
  /\ UNCHANGED <<pushed, started, store>>

------------------------------------------------------------------------------
\* The owner marks the release of a tag that was meant as a pre-release.
MarkPrerelease(t) ==
  /\ t \in (PreTags \cap released) \ pre /\ pre' = pre \cup {t}
  /\ UNCHANGED <<pushed, started, runs, released, assets, torn, site>>

Run(n) ==
  \/ Admit(n) \/ Fail(n) \/ Build(n) \/ Create(n) \/ BeginUpload(n)
  \/ \E f \in Names : Clobber(n, f) \/ Upload(n, f)
  \/ EndUpload(n) \/ BuildIndex(n) \/ NoManifest(n) \/ Deploy(n)
Next ==
  \/ Push \/ \E tag, ref \in Tags : Dispatch(tag, ref)
  \/ \E n \in 1 .. started : Run(n)
  \/ \E t \in Tags : MarkPrerelease(t)
Spec == Init /\ [][Next]_vars

------------------------------------------------------------------------------
RunsOK ==
  runs \in [Runs -> [tag : Tags \cup {NoTag}, ref : Tags \cup {NoTag},
                     job : Jobs \cup Over \cup {"none", "pending"},
                     todo : SUBSET Names,
                     index : [tag : Tags \cup {NoTag}, of : 0 .. MaxRuns]]]

\* The concurrency group.
OneAtATime ==
  \A n, k \in Runs : runs[n].job \in Jobs /\ runs[k].job \in Jobs => n = k

TypeOK ==
  /\ pushed \in 0 .. LastTag /\ started \in 0 .. MaxRuns
  /\ RunsOK /\ OneAtATime
  /\ released \subseteq Tags
  /\ pre \subseteq released /\ torn \subseteq released
  /\ assets \in [Tags -> [Names -> 0 .. MaxRuns]]
  /\ site \in [tag : released \cup {NoTag},
              of : 0 .. MaxRuns, by : 0 .. MaxRuns]

\* The wheels an index with the hashes of run k lists: are these the assets?
Verifies(t, k) == \A f \in Files(runs[k].ref) : assets[t][f] = k

\* A release whose last upload came to its end matches its SHA256SUMS, whatever
\* was uploaded to it before (--clobber of a release that exists).
ManifestTrue ==
  \A t \in released \ torn : Verifies(t, assets[t]["SHA256SUMS"])

\* The run that deployed the index is the last that came past its build.
Current ==
  /\ site.by # NoRun
  /\ \A n \in Runs :
       n > site.by =>
         runs[n].job \in {"none", "pending", "cancelled", "build"}

\* Once a run has ended well, and as long as no later one has come to its
\* release, what pip finds in the index can be downloaded and has the hash the
\* index gives, unless that release was torn and never mended.
IndexVerifies ==
  Current /\ site.tag \notin torn \cup {NoTag} => Verifies(site.tag, site.of)

\* A run that succeeded has its release in the index, or a newer one, unless the
\* owner took it out; an index that an API error emptied says nothing.
SuccessIsIndexed ==
  \A n \in Runs :
    runs[n].job = "success" /\ site.tag # NoTag =>
      runs[n].tag <= site.tag \/ runs[n].tag \in pre

\* "When a new release is cut ... the index advances": re-releases of older tags
\* never take it back; only a release marked as a pre-release is left.
IndexAdvances ==
  [][site'.tag # NoTag => site'.tag >= site.tag \/ site.tag \in pre]_site
==============================================================================
