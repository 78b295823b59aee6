-------------------------- MODULE ReleasePagesProofs --------------------------
(***************************************************************************)
(* For every number of tags and runs and every set of wheels: a release     *)
(* whose last upload ended matches its SHA256SUMS, an index verifies until   *)
(* the next run comes to its release, a run that succeeded is indexed, and   *)
(* the index never goes back.  All of it rests on the concurrency group: at  *)
(* most one run is in its jobs, and no earlier run ever follows it.          *)
(***************************************************************************)
EXTENDS ReleasePages, TLAPS

Active(n) == runs[n].job \in Jobs

\* A run's tag and ref are set when it starts.
Begun ==
  \A n \in Runs : IF n <= started
                  THEN runs[n].job # "none" /\ runs[n].tag \in Tags
                       /\ runs[n].ref \in Tags
                  ELSE runs[n].job = "none"

\* The run that waits is the newest; all behind the one in its jobs wait or are
\* cancelled.
Ordered ==
  \A n, k \in Runs : n < k =>
    /\ runs[n].job = "pending" => runs[k].job = "none"
    /\ Active(n) => runs[k].job \in {"none", "pending", "cancelled"}

\* An upload has replaced the assets it is through with.
Uploading ==
  \A n \in Runs : runs[n].job = "upload" =>
    /\ runs[n].tag \in torn
    /\ \A f \in BuiltFiles(n) \ runs[n].todo : assets[runs[n].tag][f] = n

AssetsKnown == \A t \in Tags, f \in Names : assets[t][f] <= started

ReleaseWhole ==
  \A t \in released \ torn : LET k == assets[t]["SHA256SUMS"] IN
    k # NoRun /\ Verifies(t, k)

\* The index a run is about to deploy is that of the newest release listed.
Indexing ==
  \A n \in Runs :
    /\ runs[n].index.of <= started
    /\ runs[n].job \in {"pages", "deploy", "success"} =>
         runs[n].tag \in released
    /\ runs[n].job = "deploy" /\ runs[n].index.tag # NoTag =>
         /\ runs[n].index.tag \in released
         /\ \A u \in Listed : u <= runs[n].index.tag
         /\ runs[n].index.of = assets[runs[n].index.tag]["SHA256SUMS"]
         /\ runs[n].index.of # NoRun

Deployed ==
  /\ site.tag # NoTag => site.by # NoRun /\ site.of # NoRun
  /\ site.of <= started
  /\ site.by # NoRun => runs[site.by].job = "success"

IInv ==
  /\ TypeOK /\ Begun /\ Ordered /\ Uploading /\ AssetsKnown /\ ReleaseWhole
  /\ Indexing /\ Deployed /\ IndexVerifies /\ SuccessIsIndexed

\* A run keeps its ref, so what is in the releases still verifies.
RefsKept == \A k \in Runs : k <= started => runs'[k].ref = runs[k].ref
WholeNext(t) == assets'[t]["SHA256SUMS"] # NoRun
                  /\ Verifies(t, assets[t]["SHA256SUMS"])'

LEMMA OneKept ==
  ASSUME TypeOK, ReleaseWhole, AssetsKnown, RefsKept,
         NEW t \in released \ torn, assets'[t] = assets[t]
  PROVE  WholeNext(t)
<1> DEFINE k == assets[t]["SHA256SUMS"]
<1>1. t \in Tags /\ k # NoRun /\ Verifies(t, k)
  BY DEF ReleaseWhole, TypeOK
<1>2. k \in Runs /\ k <= started
  BY <1>1, BoundAssumption DEF TypeOK, AssetsKnown, Names, Runs, NoRun
<1>3. runs'[k].ref = runs[k].ref
  BY <1>2 DEF RefsKept
<1> QED BY <1>1, <1>3 DEF Verifies, WholeNext

LEMMA WholeKept ==
  ASSUME TypeOK, ReleaseWhole, AssetsKnown, RefsKept,
         assets' = assets, released' \ torn' \subseteq released \ torn
  PROVE  ReleaseWhole'
<1>1. ASSUME NEW t \in released' \ torn' PROVE WholeNext(t)
  BY OneKept
<1> QED BY <1>1 DEF ReleaseWhole, WholeNext

LEMMA VerifiesKept ==
  ASSUME TypeOK, Deployed, IndexVerifies, RefsKept, site' = site,
         Current' => Current /\ assets' = assets /\ torn \subseteq torn'
  PROVE  IndexVerifies'
<1> SUFFICES ASSUME Current', site'.tag \notin (torn \cup {NoTag})'
             PROVE  Verifies(site.tag, site.of)'
  BY DEF IndexVerifies
<1>1. Verifies(site.tag, site.of)
  BY DEF IndexVerifies, NoTag
<1>2. site.of \in Runs /\ site.of <= started
  BY BoundAssumption DEF Deployed, TypeOK, Runs, NoRun, NoTag
<1>3. runs'[site.of].ref = runs[site.of].ref
  BY <1>2 DEF RefsKept
<1> QED BY <1>1, <1>3 DEF Verifies

\* The run in its jobs, or the one that waits when none is, may go on: no
\* earlier run waits or is in its jobs, and no later one is.
LEMMA OrderKept ==
  ASSUME Ordered, NEW n \in Runs,
         Active(n) \/ (runs[n].job = "pending" /\ ~Busy(n)),
         \A m \in Runs : m # n => runs'[m].job = runs[m].job,
         runs'[n].job \notin {"none", "pending"}
  PROVE  Ordered'
<1>1. ASSUME NEW k \in Runs, n < k
      PROVE  runs'[k].job \in {"none", "pending", "cancelled"}
  <2>1. k # n /\ runs[k].job \in {"none", "pending", "cancelled"}
    BY <1>1 DEF Ordered, Runs
  <2> QED BY <2>1
<1>2. ASSUME NEW m \in Runs, m < n
      PROVE  runs'[m].job # "pending" /\ ~Active(m)'
  <2>1. m # n /\ runs[m].job # "pending"
    BY <1>2 DEF Ordered, Active, Jobs, Runs
  <2>2. ~Active(m)
    BY <1>2, <2>1 DEF Ordered, Active, Busy, Jobs
  <2> QED BY <2>1, <2>2 DEF Active
<1> SUFFICES ASSUME NEW m \in Runs, NEW k \in Runs, m < k
             PROVE  /\ runs'[m].job = "pending" => runs'[k].job = "none"
                    /\ Active(m)' =>
                         runs'[k].job \in {"none", "pending", "cancelled"}
  BY DEF Ordered
<1>3. CASE m = n
  BY <1>1, <1>3
<1>4. CASE k = n
  BY <1>2, <1>4
<1>5. CASE m # n /\ k # n
  BY <1>5 DEF Ordered, Active
<1> QED BY <1>3, <1>4, <1>5

Index == [tag : Tags \cup {NoTag}, of : 0 .. MaxRuns]
RunRecord ==
  [tag : Tags \cup {NoTag}, ref : Tags \cup {NoTag},
   job : Jobs \cup Over \cup {"none", "pending"}, todo : SUBSET Names,
   index : Index]

\* A run keeps its type under a new job, a new todo or a new index.
LEMMA FieldsKept ==
  ASSUME RunsOK, NEW n \in Runs,
         \E job \in Jobs \cup Over, todo \in SUBSET Names, index \in Index :
           \/ runs' = [runs EXCEPT ![n].job = job]
           \/ runs' = [runs EXCEPT ![n].todo = todo]
           \/ runs' = [runs EXCEPT ![n].job = job, ![n].todo = todo]
           \/ runs' = [runs EXCEPT ![n].job = job, ![n].index = index]
  PROVE  RunsOK'
<1>0. PICK job \in Jobs \cup Over, todo \in SUBSET Names, index \in Index :
        \/ runs' = [runs EXCEPT ![n].job = job]
        \/ runs' = [runs EXCEPT ![n].todo = todo]
        \/ runs' = [runs EXCEPT ![n].job = job, ![n].todo = todo]
        \/ runs' = [runs EXCEPT ![n].job = job, ![n].index = index]
  OBVIOUS
<1>1. runs \in [Runs -> RunRecord]
  BY DEF RunsOK, RunRecord, Index
<1>2. runs[n] \in RunRecord
  BY <1>1
<1>3. /\ [runs[n] EXCEPT !.job = job] \in RunRecord
      /\ [runs[n] EXCEPT !.todo = todo] \in RunRecord
      /\ [runs[n] EXCEPT !.job = job, !.todo = todo] \in RunRecord
      /\ [runs[n] EXCEPT !.job = job, !.index = index] \in RunRecord
  <2> DEFINE J == Jobs \cup Over \cup {"none", "pending"}
             T == Tags \cup {NoTag}
             D == SUBSET Names
  <2>1. runs[n] \in [tag : T, ref : T, job : J, todo : D, index : Index]
    BY <1>2 DEF RunRecord
  <2>2. job \in J /\ todo \in D /\ index \in Index
    OBVIOUS
  <2> HIDE DEF J, T, D
  <2>3. /\ [runs[n] EXCEPT !.job = job]
             \in [tag : T, ref : T, job : J, todo : D, index : Index]
        /\ [runs[n] EXCEPT !.todo = todo]
             \in [tag : T, ref : T, job : J, todo : D, index : Index]
        /\ [runs[n] EXCEPT !.job = job, !.todo = todo]
             \in [tag : T, ref : T, job : J, todo : D, index : Index]
        /\ [runs[n] EXCEPT !.job = job, !.index = index]
             \in [tag : T, ref : T, job : J, todo : D, index : Index]
    BY <2>1, <2>2
  <2> QED BY <2>3 DEF RunRecord, J, T, D
<1>4. ASSUME NEW r \in RunRecord, runs' = [runs EXCEPT ![n] = r]
      PROVE  RunsOK'
  <2>1. runs' \in [Runs -> RunRecord]
    BY <1>1, <1>4
  <2> QED BY <2>1 DEF RunsOK, RunRecord, Index
<1>5. runs[n] = runs[n] /\ n \in DOMAIN runs
  BY <1>1
<1>6. CASE runs' = [runs EXCEPT ![n].job = job]
  <2>1. runs' = [runs EXCEPT ![n] = [runs[n] EXCEPT !.job = job]]
    BY <1>6
  <2> QED BY <1>3, <1>4, <2>1
<1>7. CASE runs' = [runs EXCEPT ![n].todo = todo]
  <2>1. runs' = [runs EXCEPT ![n] = [runs[n] EXCEPT !.todo = todo]]
    BY <1>7
  <2> QED BY <1>3, <1>4, <2>1
<1>8. CASE runs' = [runs EXCEPT ![n].job = job, ![n].todo = todo]
  <2>1. runs' = [runs EXCEPT ![n] = [runs[n] EXCEPT !.job = job, !.todo = todo]]
    BY <1>1, <1>8
  <2> QED BY <1>3, <1>4, <2>1
<1>9. CASE runs' = [runs EXCEPT ![n].job = job, ![n].index = index]
  <2>1. runs' = [runs EXCEPT ![n] =
                   [runs[n] EXCEPT !.job = job, !.index = index]]
    BY <1>1, <1>9
  <2> QED BY <1>3, <1>4, <2>1
<1> QED BY <1>0, <1>6, <1>7, <1>8, <1>9

LEMMA JobKept ==
  ASSUME RunsOK, MaxRuns \in Nat, NEW n \in Runs, NEW job \in Jobs \cup Over,
         runs' = [runs EXCEPT ![n].job = job]
  PROVE  RunsOK'
<1>1. Empty \in Index
  BY DEF Empty, Index, NoTag, NoRun
<1>2. {} \in SUBSET Names
  OBVIOUS
<1> QED BY <1>1, <1>2, FieldsKept

LEMMA AdmitStep ==
  ASSUME IInv, NEW n \in 1 .. started, Admit(n)
  PROVE  IInv'
<1> USE DEF NoRun, NoTag
<1>t. /\ n \in Runs /\ n <= started /\ runs[n].tag \in Tags
      /\ runs[n].ref \in Tags /\ BuiltFiles(n) \subseteq Names
      /\ "SHA256SUMS" \in BuiltFiles(n)
  BY BoundAssumption DEF IInv, TypeOK, Begun, Runs, BuiltFiles, Names, Wheels
<1>f. /\ \A m \in Runs : m # n => runs'[m] = runs[m]
      /\ runs'[n].job = "build" /\ runs'[n].tag = runs[n].tag
      /\ runs'[n].ref = runs[n].ref /\ runs'[n].todo = runs[n].todo
      /\ runs'[n].index = runs[n].index
  BY <1>t DEF IInv, TypeOK, RunsOK, Admit, To, NextJob
<1>j. runs[n].job = "pending" /\ ~Busy(n)
  BY DEF Admit
<1>u. /\ UNCHANGED <<pushed, started, released, pre, assets, torn, site>>
  BY DEF Admit, store
<1>r. RefsKept
  BY <1>f DEF RefsKept
<1>1. Begun'
  BY <1>f, <1>j, <1>t, <1>u DEF IInv, Begun, Jobs
<1>2. Ordered'
  BY <1>f, <1>j, <1>t, OrderKept DEF IInv, Active, Jobs
<1>3. TypeOK'
  <2>1. pushed' \in 0 .. LastTag /\ started' \in 0 .. MaxRuns
    BY <1>u DEF IInv, TypeOK
  <2>2. RunsOK'
    <3>1. runs' = [runs EXCEPT ![n].job = "build"]
      BY DEF Admit, To, NextJob
    <3>2. RunsOK /\ MaxRuns \in Nat /\ "build" \in Jobs \cup Over
      BY BoundAssumption DEF IInv, TypeOK, Jobs, Over
    <3> QED BY <1>t, <3>1, <3>2, JobKept
  <2>3. OneAtATime'
    BY <1>2, <1>f, BoundAssumption
       DEF IInv, Ordered, Active, OneAtATime, Runs, Jobs
  <2>4. (released \subseteq Tags /\ pre \subseteq released
         /\ torn \subseteq released)'
    BY <1>t, <1>u DEF IInv, TypeOK
  <2>5. (assets \in [Tags -> [Names -> 0 .. MaxRuns]])'
    BY <1>u DEF IInv, TypeOK
  <2>6. (site \in [tag : released \cup {NoTag}, of : 0 .. MaxRuns,
                  by : 0 .. MaxRuns])'
    BY <1>t, <1>j, <1>u, BoundAssumption DEF IInv, TypeOK
  <2> QED BY <2>1, <2>2, <2>3, <2>4, <2>5, <2>6 DEF TypeOK
<1>4. Uploading'
  <2>1. \A m \in Runs :
          runs'[m].job = "upload" => m # n /\ runs'[m] = runs[m]
    BY <1>f
  <2> QED BY <1>u, <2>1 DEF IInv, Uploading, BuiltFiles
<1>5. AssetsKnown'
  BY <1>t, <1>u DEF IInv, TypeOK, AssetsKnown, Runs
<1>6. ReleaseWhole'
  BY <1>r, <1>u, WholeKept DEF IInv
<1>7. Indexing'
  BY <1>t, <1>f, <1>j, <1>u DEF IInv, TypeOK, OneAtATime, Indexing, Listed, Jobs
<1>8. Deployed'
  BY <1>t, <1>f, <1>j, <1>u, BoundAssumption
     DEF IInv, TypeOK, Deployed, Jobs, Runs
<1>9. IndexVerifies'
  <2>1. Current' => Current
    BY <1>t, <1>f, <1>j, <1>u
       DEF IInv, TypeOK, Ordered, Active, Jobs, Deployed, Current, Runs
  <2> QED BY <1>r, <1>u, <2>1, VerifiesKept DEF IInv
<1>10. SuccessIsIndexed'
  BY <1>t, <1>f, <1>j, <1>u DEF IInv, TypeOK, SuccessIsIndexed, Jobs
<1> QED BY <1>1, <1>2, <1>3, <1>4, <1>5, <1>6, <1>7, <1>8, <1>9, <1>10 DEF IInv

LEMMA FailStep ==
  ASSUME IInv, NEW n \in 1 .. started, Fail(n)
  PROVE  IInv'
<1> USE DEF NoRun, NoTag
<1>t. /\ n \in Runs /\ n <= started /\ runs[n].tag \in Tags
      /\ runs[n].ref \in Tags /\ BuiltFiles(n) \subseteq Names
      /\ "SHA256SUMS" \in BuiltFiles(n)
  BY BoundAssumption DEF IInv, TypeOK, Begun, Runs, BuiltFiles, Names, Wheels
<1>f. /\ \A m \in Runs : m # n => runs'[m] = runs[m]
      /\ runs'[n].job = "failure" /\ runs'[n].tag = runs[n].tag
      /\ runs'[n].ref = runs[n].ref /\ runs'[n].todo = runs[n].todo
      /\ runs'[n].index = runs[n].index
  BY <1>t DEF IInv, TypeOK, RunsOK, Fail, To, NextJob
<1>j. runs[n].job \in Jobs
  BY DEF Fail
<1>u. /\ UNCHANGED <<pushed, started, released, pre, assets, torn, site>>
  BY DEF Fail, store
<1>r. RefsKept
  BY <1>f DEF RefsKept
<1>1. Begun'
  BY <1>f, <1>j, <1>t, <1>u DEF IInv, Begun, Jobs
<1>2. Ordered'
  BY <1>f, <1>j, <1>t, OrderKept DEF IInv, Active, Jobs
<1>3. TypeOK'
  <2>1. pushed' \in 0 .. LastTag /\ started' \in 0 .. MaxRuns
    BY <1>u DEF IInv, TypeOK
  <2>2. RunsOK'
    <3>1. runs' = [runs EXCEPT ![n].job = "failure"]
      BY DEF Fail, To, NextJob
    <3>2. RunsOK /\ MaxRuns \in Nat /\ "failure" \in Jobs \cup Over
      BY BoundAssumption DEF IInv, TypeOK, Jobs, Over
    <3> QED BY <1>t, <3>1, <3>2, JobKept
  <2>3. OneAtATime'
    BY <1>2, <1>f, BoundAssumption
       DEF IInv, Ordered, Active, OneAtATime, Runs, Jobs
  <2>4. (released \subseteq Tags /\ pre \subseteq released
         /\ torn \subseteq released)'
    BY <1>t, <1>u DEF IInv, TypeOK
  <2>5. (assets \in [Tags -> [Names -> 0 .. MaxRuns]])'
    BY <1>u DEF IInv, TypeOK
  <2>6. (site \in [tag : released \cup {NoTag}, of : 0 .. MaxRuns,
                  by : 0 .. MaxRuns])'
    BY <1>t, <1>j, <1>u, BoundAssumption DEF IInv, TypeOK
  <2> QED BY <2>1, <2>2, <2>3, <2>4, <2>5, <2>6 DEF TypeOK
<1>4. Uploading'
  <2>1. \A m \in Runs :
          runs'[m].job = "upload" => m # n /\ runs'[m] = runs[m]
    BY <1>f
  <2> QED BY <1>u, <2>1 DEF IInv, Uploading, BuiltFiles
<1>5. AssetsKnown'
  BY <1>t, <1>u DEF IInv, TypeOK, AssetsKnown, Runs
<1>6. ReleaseWhole'
  BY <1>r, <1>u, WholeKept DEF IInv
<1>7. Indexing'
  BY <1>t, <1>f, <1>j, <1>u DEF IInv, TypeOK, OneAtATime, Indexing, Listed, Jobs
<1>8. Deployed'
  BY <1>t, <1>f, <1>j, <1>u, BoundAssumption
     DEF IInv, TypeOK, Deployed, Jobs, Runs
<1>9. IndexVerifies'
  <2>1. Current' => Current
    BY <1>t, <1>f, <1>j, <1>u
       DEF IInv, TypeOK, Ordered, Active, Jobs, Deployed, Current, Runs
  <2> QED BY <1>r, <1>u, <2>1, VerifiesKept DEF IInv
<1>10. SuccessIsIndexed'
  BY <1>t, <1>f, <1>j, <1>u DEF IInv, TypeOK, SuccessIsIndexed, Jobs
<1> QED BY <1>1, <1>2, <1>3, <1>4, <1>5, <1>6, <1>7, <1>8, <1>9, <1>10 DEF IInv

LEMMA BuildStep ==
  ASSUME IInv, NEW n \in 1 .. started, Build(n)
  PROVE  IInv'
<1> USE DEF NoRun, NoTag
<1>t. /\ n \in Runs /\ n <= started /\ runs[n].tag \in Tags
      /\ runs[n].ref \in Tags /\ BuiltFiles(n) \subseteq Names
      /\ "SHA256SUMS" \in BuiltFiles(n)
  BY BoundAssumption DEF IInv, TypeOK, Begun, Runs, BuiltFiles, Names, Wheels
<1>f. /\ \A m \in Runs : m # n => runs'[m] = runs[m]
      /\ runs'[n].job = "release" /\ runs'[n].tag = runs[n].tag
      /\ runs'[n].ref = runs[n].ref /\ runs'[n].todo = runs[n].todo
      /\ runs'[n].index = runs[n].index
  BY <1>t DEF IInv, TypeOK, RunsOK, Build, To, NextJob
<1>j. runs[n].job = "build"
  BY DEF Build
<1>u. /\ UNCHANGED <<pushed, started, released, pre, assets, torn, site>>
  BY DEF Build, store
<1>r. RefsKept
  BY <1>f DEF RefsKept
<1>1. Begun'
  BY <1>f, <1>j, <1>t, <1>u DEF IInv, Begun, Jobs
<1>2. Ordered'
  BY <1>f, <1>j, <1>t, OrderKept DEF IInv, Active, Jobs
<1>3. TypeOK'
  <2>1. pushed' \in 0 .. LastTag /\ started' \in 0 .. MaxRuns
    BY <1>u DEF IInv, TypeOK
  <2>2. RunsOK'
    <3>1. runs' = [runs EXCEPT ![n].job = "release"]
      BY DEF Build, To, NextJob
    <3>2. RunsOK /\ MaxRuns \in Nat /\ "release" \in Jobs \cup Over
      BY BoundAssumption DEF IInv, TypeOK, Jobs, Over
    <3> QED BY <1>t, <3>1, <3>2, JobKept
  <2>3. OneAtATime'
    BY <1>2, <1>f, BoundAssumption
       DEF IInv, Ordered, Active, OneAtATime, Runs, Jobs
  <2>4. (released \subseteq Tags /\ pre \subseteq released
         /\ torn \subseteq released)'
    BY <1>t, <1>u DEF IInv, TypeOK
  <2>5. (assets \in [Tags -> [Names -> 0 .. MaxRuns]])'
    BY <1>u DEF IInv, TypeOK
  <2>6. (site \in [tag : released \cup {NoTag}, of : 0 .. MaxRuns,
                  by : 0 .. MaxRuns])'
    BY <1>t, <1>j, <1>u, BoundAssumption DEF IInv, TypeOK
  <2> QED BY <2>1, <2>2, <2>3, <2>4, <2>5, <2>6 DEF TypeOK
<1>4. Uploading'
  <2>1. \A m \in Runs :
          runs'[m].job = "upload" => m # n /\ runs'[m] = runs[m]
    BY <1>f
  <2> QED BY <1>u, <2>1 DEF IInv, Uploading, BuiltFiles
<1>5. AssetsKnown'
  BY <1>t, <1>u DEF IInv, TypeOK, AssetsKnown, Runs
<1>6. ReleaseWhole'
  BY <1>r, <1>u, WholeKept DEF IInv
<1>7. Indexing'
  BY <1>t, <1>f, <1>j, <1>u DEF IInv, TypeOK, OneAtATime, Indexing, Listed, Jobs
<1>8. Deployed'
  BY <1>t, <1>f, <1>j, <1>u, BoundAssumption
     DEF IInv, TypeOK, Deployed, Jobs, Runs
<1>9. IndexVerifies'
  <2>1. Current' => Current
    BY <1>t, <1>f, <1>j, <1>u
       DEF IInv, TypeOK, Ordered, Active, Jobs, Deployed, Current, Runs
  <2> QED BY <1>r, <1>u, <2>1, VerifiesKept DEF IInv
<1>10. SuccessIsIndexed'
  BY <1>t, <1>f, <1>j, <1>u DEF IInv, TypeOK, SuccessIsIndexed, Jobs
<1> QED BY <1>1, <1>2, <1>3, <1>4, <1>5, <1>6, <1>7, <1>8, <1>9, <1>10 DEF IInv

LEMMA CreateStep ==
  ASSUME IInv, NEW n \in 1 .. started, Create(n)
  PROVE  IInv'
<1> USE DEF NoRun, NoTag
<1>t. /\ n \in Runs /\ n <= started /\ runs[n].tag \in Tags
      /\ runs[n].ref \in Tags /\ BuiltFiles(n) \subseteq Names
      /\ "SHA256SUMS" \in BuiltFiles(n)
  BY BoundAssumption DEF IInv, TypeOK, Begun, Runs, BuiltFiles, Names, Wheels
<1>f. /\ \A m \in Runs : m # n => runs'[m] = runs[m]
      /\ runs'[n].job = "pages" /\ runs'[n].tag = runs[n].tag
      /\ runs'[n].ref = runs[n].ref /\ runs'[n].todo = runs[n].todo
      /\ runs'[n].index = runs[n].index
  BY <1>t DEF IInv, TypeOK, RunsOK, Create, To, NextJob
<1>j. runs[n].job = "release"
  BY DEF Create
<1>u. /\ UNCHANGED <<pushed, started, pre, torn, site>>
      /\ runs[n].tag \notin released /\ released' = released \cup {runs[n].tag}
      /\ assets' = [assets EXCEPT ![runs[n].tag] =
                      [f \in Names |->
                         IF f \in BuiltFiles(n) THEN n ELSE NoRun]]
  BY DEF Create, store, To
<1>a. /\ assets' \in [Tags -> [Names -> 0 .. MaxRuns]]
      /\ \A u \in Tags : u # runs[n].tag => assets'[u] = assets[u]
      /\ \A g \in BuiltFiles(n) : assets'[runs[n].tag][g] = n
      /\ \A g \in Names : assets'[runs[n].tag][g] \in {n, NoRun}
  BY <1>t, <1>u, BoundAssumption DEF IInv, TypeOK, Runs
<1>r. RefsKept
  BY <1>f DEF RefsKept
<1>1. Begun'
  BY <1>f, <1>j, <1>t, <1>u DEF IInv, Begun, Jobs
<1>2. Ordered'
  BY <1>f, <1>j, <1>t, OrderKept DEF IInv, Active, Jobs
<1>3. TypeOK'
  <2>1. pushed' \in 0 .. LastTag /\ started' \in 0 .. MaxRuns
    BY <1>u DEF IInv, TypeOK
  <2>2. RunsOK'
    <3>1. runs' = [runs EXCEPT ![n].job = "pages"]
      BY DEF Create, To, NextJob
    <3>2. RunsOK /\ MaxRuns \in Nat /\ "pages" \in Jobs \cup Over
      BY BoundAssumption DEF IInv, TypeOK, Jobs, Over
    <3> QED BY <1>t, <3>1, <3>2, JobKept
  <2>3. OneAtATime'
    BY <1>2, <1>f, BoundAssumption
       DEF IInv, Ordered, Active, OneAtATime, Runs, Jobs
  <2>4. (released \subseteq Tags /\ pre \subseteq released
         /\ torn \subseteq released)'
    BY <1>t, <1>u DEF IInv, TypeOK
  <2>5. (assets \in [Tags -> [Names -> 0 .. MaxRuns]])'
    BY <1>a, <1>u DEF IInv, TypeOK
  <2>6. (site \in [tag : released \cup {NoTag}, of : 0 .. MaxRuns,
                  by : 0 .. MaxRuns])'
    BY <1>t, <1>j, <1>u, BoundAssumption DEF IInv, TypeOK
  <2> QED BY <2>1, <2>2, <2>3, <2>4, <2>5, <2>6 DEF TypeOK
<1>4. Uploading'
  BY <1>a, <1>t, <1>f, <1>j, <1>u
     DEF IInv, TypeOK, OneAtATime, Uploading, BuiltFiles, Jobs
<1>5. AssetsKnown'
  BY <1>a, <1>t, <1>u DEF IInv, TypeOK, AssetsKnown, Runs
<1>6. ReleaseWhole'
  <2> SUFFICES ASSUME NEW u \in released' \ torn' PROVE WholeNext(u)
    BY DEF ReleaseWhole, WholeNext
  <2>1. CASE u = runs[n].tag
    <3>1. \A g \in BuiltFiles(n) : assets'[u][g] = n
      BY <1>t, <1>j, <1>u, <1>a, <2>1 DEF IInv
    <3>2. assets'[u]["SHA256SUMS"] = n /\ runs'[n].ref = runs[n].ref
      BY <1>t, <1>f, <3>1
    <3> QED BY <1>t, <3>1, <3>2 DEF Verifies, WholeNext, BuiltFiles, Runs
  <2>2. CASE u # runs[n].tag
    BY <1>t, <1>u, <1>a, <1>r, <2>2, OneKept DEF IInv, TypeOK
  <2> QED BY <2>1, <2>2
<1>7. Indexing'
  <2> SUFFICES ASSUME NEW m \in Runs
               PROVE  /\ runs'[m].index.of <= started'
                      /\ runs'[m].job \in {"pages", "deploy", "success"} =>
                           runs'[m].tag \in released'
                      /\ runs'[m].job # "deploy"
    BY DEF Indexing
  <2> QED BY <1>t, <1>f, <1>j, <1>u DEF IInv, TypeOK, OneAtATime, Indexing, Jobs
<1>8. Deployed'
  BY <1>t, <1>f, <1>j, <1>u, BoundAssumption
     DEF IInv, TypeOK, Deployed, Jobs, Runs
<1>9. IndexVerifies'
  <2> SUFFICES ASSUME Current' PROVE FALSE
    BY DEF IndexVerifies
  <2>1. site.by \in Runs /\ runs[site.by].job = "success"
    BY <1>u, BoundAssumption DEF IInv, TypeOK, Deployed, Current, Runs
  <2>2. n > site.by
    BY <1>t, <1>j, <2>1 DEF IInv, Ordered, Active, Jobs, Runs
  <2> QED BY <1>t, <1>f, <1>j, <1>u, <2>2 DEF Current
<1>10. SuccessIsIndexed'
  BY <1>t, <1>f, <1>j, <1>u DEF IInv, TypeOK, SuccessIsIndexed, Jobs
<1> QED BY <1>1, <1>2, <1>3, <1>4, <1>5, <1>6, <1>7, <1>8, <1>9, <1>10 DEF IInv

LEMMA BeginUploadStep ==
  ASSUME IInv, NEW n \in 1 .. started, BeginUpload(n)
  PROVE  IInv'
<1> USE DEF NoRun, NoTag
<1>t. /\ n \in Runs /\ n <= started /\ runs[n].tag \in Tags
      /\ runs[n].ref \in Tags /\ BuiltFiles(n) \subseteq Names
      /\ "SHA256SUMS" \in BuiltFiles(n)
  BY BoundAssumption DEF IInv, TypeOK, Begun, Runs, BuiltFiles, Names, Wheels
<1>f. /\ \A m \in Runs : m # n => runs'[m] = runs[m]
      /\ runs'[n].job = "upload" /\ runs'[n].tag = runs[n].tag
      /\ runs'[n].ref = runs[n].ref /\ runs'[n].todo = BuiltFiles(n)
      /\ runs'[n].index = runs[n].index
  BY <1>t DEF IInv, TypeOK, RunsOK, BeginUpload, To, NextJob, Todo
<1>j. runs[n].job = "release"
  BY DEF BeginUpload
<1>u. /\ UNCHANGED <<pushed, started, released, pre, assets, site>>
      /\ runs[n].tag \in released /\ torn' = torn \cup {runs[n].tag}
  BY DEF BeginUpload, store
<1>r. RefsKept
  BY <1>f DEF RefsKept
<1>1. Begun'
  BY <1>f, <1>j, <1>t, <1>u DEF IInv, Begun, Jobs
<1>2. Ordered'
  BY <1>f, <1>j, <1>t, OrderKept DEF IInv, Active, Jobs
<1>3. TypeOK'
  <2>1. pushed' \in 0 .. LastTag /\ started' \in 0 .. MaxRuns
    BY <1>u DEF IInv, TypeOK
  <2>2. RunsOK'
    <3>1. runs' = [runs EXCEPT ![n].job = "upload", ![n].todo = BuiltFiles(n)]
      BY DEF BeginUpload, Todo
    <3>2. /\ RunsOK /\ "upload" \in Jobs \cup Over
          /\ BuiltFiles(n) \in SUBSET Names
      BY <1>t DEF IInv, TypeOK, Jobs
    <3>3. Empty \in Index
      BY BoundAssumption DEF Empty, Index
    <3> QED BY <1>t, <3>1, <3>2, <3>3, FieldsKept
  <2>3. OneAtATime'
    BY <1>2, <1>f, BoundAssumption
       DEF IInv, Ordered, Active, OneAtATime, Runs, Jobs
  <2>4. (released \subseteq Tags /\ pre \subseteq released
         /\ torn \subseteq released)'
    BY <1>t, <1>u DEF IInv, TypeOK
  <2>5. (assets \in [Tags -> [Names -> 0 .. MaxRuns]])'
    BY <1>u DEF IInv, TypeOK
  <2>6. (site \in [tag : released \cup {NoTag}, of : 0 .. MaxRuns,
                  by : 0 .. MaxRuns])'
    BY <1>t, <1>j, <1>u, BoundAssumption DEF IInv, TypeOK
  <2> QED BY <2>1, <2>2, <2>3, <2>4, <2>5, <2>6 DEF TypeOK
<1>4. Uploading'
  BY <1>t, <1>f, <1>j, <1>u
     DEF IInv, TypeOK, OneAtATime, Uploading, BuiltFiles, Jobs
<1>5. AssetsKnown'
  BY <1>t, <1>u DEF IInv, TypeOK, AssetsKnown, Runs
<1>6. ReleaseWhole'
  BY <1>r, <1>u, WholeKept DEF IInv
<1>7. Indexing'
  <2> SUFFICES ASSUME NEW m \in Runs
               PROVE  /\ runs'[m].index.of <= started'
                      /\ runs'[m].job \in {"pages", "deploy", "success"} =>
                           runs'[m].tag \in released'
                      /\ runs'[m].job # "deploy"
    BY DEF Indexing
  <2> QED BY <1>t, <1>f, <1>j, <1>u DEF IInv, TypeOK, OneAtATime, Indexing, Jobs
<1>8. Deployed'
  BY <1>t, <1>f, <1>j, <1>u, BoundAssumption
     DEF IInv, TypeOK, Deployed, Jobs, Runs
<1>9. IndexVerifies'
  <2> SUFFICES ASSUME Current' PROVE FALSE
    BY DEF IndexVerifies
  <2>1. site.by \in Runs /\ runs[site.by].job = "success"
    BY <1>u, BoundAssumption DEF IInv, TypeOK, Deployed, Current, Runs
  <2>2. n > site.by
    BY <1>t, <1>j, <2>1 DEF IInv, Ordered, Active, Jobs, Runs
  <2> QED BY <1>t, <1>f, <1>j, <1>u, <2>2 DEF Current
<1>10. SuccessIsIndexed'
  BY <1>t, <1>f, <1>j, <1>u DEF IInv, TypeOK, SuccessIsIndexed, Jobs
<1> QED BY <1>1, <1>2, <1>3, <1>4, <1>5, <1>6, <1>7, <1>8, <1>9, <1>10 DEF IInv

LEMMA ClobberStep ==
  ASSUME IInv, NEW n \in 1 .. started, NEW f \in Names, Clobber(n, f)
  PROVE  IInv'
<1> USE DEF NoRun, NoTag
<1>t. /\ n \in Runs /\ n <= started /\ runs[n].tag \in Tags
      /\ runs[n].ref \in Tags /\ BuiltFiles(n) \subseteq Names
      /\ "SHA256SUMS" \in BuiltFiles(n)
  BY BoundAssumption DEF IInv, TypeOK, Begun, Runs, BuiltFiles, Names, Wheels
<1>f. runs' = runs
  BY DEF Clobber
<1>j. runs[n].job = "upload"
  BY DEF Clobber
<1>u. /\ UNCHANGED <<pushed, started, released, pre, torn, site>>
      /\ f \in runs[n].todo
      /\ assets' = [assets EXCEPT ![runs[n].tag][f] = NoRun]
  BY DEF Clobber, store
<1>a. /\ assets' \in [Tags -> [Names -> 0 .. MaxRuns]]
      /\ \A u \in Tags, g \in Names : assets'[u][g] =
           IF u = runs[n].tag /\ g = f THEN NoRun ELSE assets[u][g]
  BY <1>t, <1>u, BoundAssumption DEF IInv, TypeOK, Runs
<1>r. RefsKept
  BY <1>f DEF RefsKept
<1>1. Begun'
  BY <1>f, <1>j, <1>t, <1>u DEF IInv, Begun, Jobs
<1>2. Ordered'
  BY <1>f DEF IInv, Ordered, Active
<1>3. TypeOK'
  <2>1. pushed' \in 0 .. LastTag /\ started' \in 0 .. MaxRuns
    BY <1>u DEF IInv, TypeOK
  <2>2. RunsOK'
    BY <1>t, <1>f DEF IInv, TypeOK, RunsOK, Jobs, Over, Clobber, To, NextJob
  <2>3. OneAtATime'
    BY <1>2, <1>f, BoundAssumption
       DEF IInv, Ordered, Active, OneAtATime, Runs, Jobs
  <2>4. (released \subseteq Tags /\ pre \subseteq released
         /\ torn \subseteq released)'
    BY <1>t, <1>u DEF IInv, TypeOK
  <2>5. (assets \in [Tags -> [Names -> 0 .. MaxRuns]])'
    BY <1>a, <1>u DEF IInv, TypeOK
  <2>6. (site \in [tag : released \cup {NoTag}, of : 0 .. MaxRuns,
                  by : 0 .. MaxRuns])'
    BY <1>t, <1>j, <1>u, BoundAssumption DEF IInv, TypeOK
  <2> QED BY <2>1, <2>2, <2>3, <2>4, <2>5, <2>6 DEF TypeOK
<1>4. Uploading'
  <2> SUFFICES ASSUME NEW m \in Runs, runs'[m].job = "upload"
               PROVE  /\ runs'[m].tag \in torn'
                      /\ \A g \in BuiltFiles(m)' \ runs'[m].todo :
                           assets'[runs'[m].tag][g] = m
    BY DEF Uploading
  <2>1. m = n
    BY <1>t, <1>f, <1>j DEF IInv, TypeOK, OneAtATime, Jobs
  <2>2. runs[n].tag \in torn /\ \A g \in BuiltFiles(n) \ runs[n].todo :
          assets[runs[n].tag][g] = n
    BY <1>t, <1>j DEF IInv, Uploading
  <2>3. BuiltFiles(n)' = BuiltFiles(n)
    BY <1>f DEF BuiltFiles
  <2> QED BY <1>t, <1>f, <1>u, <1>a, <2>1, <2>2, <2>3
<1>5. AssetsKnown'
  BY <1>a, <1>t, <1>u DEF IInv, TypeOK, AssetsKnown, Runs
<1>6. ReleaseWhole'
  <2> SUFFICES ASSUME NEW u \in released' \ torn' PROVE WholeNext(u)
    BY DEF ReleaseWhole, WholeNext
  <2>1. u \in Tags /\ u \in released \ torn /\ u # runs[n].tag
    BY <1>t, <1>j, <1>u DEF IInv, TypeOK, Uploading
  <2>2. assets'[u] = assets[u]
    BY <1>t, <1>u, <2>1 DEF IInv, TypeOK
  <2> QED BY <1>r, <2>1, <2>2, OneKept DEF IInv
<1>7. Indexing'
  <2> SUFFICES ASSUME NEW m \in Runs
               PROVE  /\ runs'[m].index.of <= started'
                      /\ runs'[m].job \in {"pages", "deploy", "success"} =>
                           runs'[m].tag \in released'
                      /\ runs'[m].job # "deploy"
    BY DEF Indexing
  <2> QED BY <1>t, <1>f, <1>j, <1>u DEF IInv, TypeOK, OneAtATime, Indexing, Jobs
<1>8. Deployed'
  BY <1>t, <1>f, <1>j, <1>u, BoundAssumption
     DEF IInv, TypeOK, Deployed, Jobs, Runs
<1>9. IndexVerifies'
  <2> SUFFICES ASSUME Current' PROVE FALSE
    BY DEF IndexVerifies
  <2>1. site.by \in Runs /\ runs[site.by].job = "success"
    BY <1>u, BoundAssumption DEF IInv, TypeOK, Deployed, Current, Runs
  <2>2. n > site.by
    BY <1>t, <1>j, <2>1 DEF IInv, Ordered, Active, Jobs, Runs
  <2> QED BY <1>t, <1>f, <1>j, <1>u, <2>2 DEF Current
<1>10. SuccessIsIndexed'
  BY <1>t, <1>f, <1>j, <1>u DEF IInv, TypeOK, SuccessIsIndexed, Jobs
<1> QED BY <1>1, <1>2, <1>3, <1>4, <1>5, <1>6, <1>7, <1>8, <1>9, <1>10 DEF IInv

LEMMA UploadStep ==
  ASSUME IInv, NEW n \in 1 .. started, NEW f \in Names, Upload(n, f)
  PROVE  IInv'
<1> USE DEF NoRun, NoTag
<1>t. /\ n \in Runs /\ n <= started /\ runs[n].tag \in Tags
      /\ runs[n].ref \in Tags /\ BuiltFiles(n) \subseteq Names
      /\ "SHA256SUMS" \in BuiltFiles(n)
  BY BoundAssumption DEF IInv, TypeOK, Begun, Runs, BuiltFiles, Names, Wheels
<1>f. /\ \A m \in Runs : m # n => runs'[m] = runs[m]
      /\ runs'[n].job = "upload" /\ runs'[n].tag = runs[n].tag
      /\ runs'[n].ref = runs[n].ref /\ runs'[n].todo = runs[n].todo \ {f}
      /\ runs'[n].index = runs[n].index
  BY <1>t DEF IInv, TypeOK, RunsOK, Upload, To, NextJob
<1>j. runs[n].job = "upload"
  BY DEF Upload
<1>u. /\ UNCHANGED <<pushed, started, released, pre, torn, site>>
      /\ assets' = [assets EXCEPT ![runs[n].tag][f] = n]
  BY DEF Upload, store
<1>a. /\ assets' \in [Tags -> [Names -> 0 .. MaxRuns]]
      /\ \A u \in Tags, g \in Names : assets'[u][g] =
           IF u = runs[n].tag /\ g = f THEN n ELSE assets[u][g]
  BY <1>t, <1>u, BoundAssumption DEF IInv, TypeOK, Runs
<1>r. RefsKept
  BY <1>f DEF RefsKept
<1>1. Begun'
  BY <1>f, <1>j, <1>t, <1>u DEF IInv, Begun, Jobs
<1>2. Ordered'
  BY <1>f, <1>j, <1>t, OrderKept DEF IInv, Active, Jobs
<1>3. TypeOK'
  <2>1. pushed' \in 0 .. LastTag /\ started' \in 0 .. MaxRuns
    BY <1>u DEF IInv, TypeOK
  <2>2. RunsOK'
    <3>1. runs[n].todo \ {f} \in SUBSET Names
      BY <1>t DEF IInv, TypeOK, RunsOK
    <3>2. runs' = [runs EXCEPT ![n].todo = runs[n].todo \ {f}]
      BY <1>t DEF IInv, TypeOK, RunsOK, Upload
    <3>3. Empty \in Index /\ RunsOK /\ "upload" \in Jobs \cup Over
      BY BoundAssumption DEF Empty, Index, IInv, TypeOK, Jobs
    <3> QED BY <1>t, <3>1, <3>2, <3>3, FieldsKept
  <2>3. OneAtATime'
    BY <1>2, <1>f, BoundAssumption
       DEF IInv, Ordered, Active, OneAtATime, Runs, Jobs
  <2>4. (released \subseteq Tags /\ pre \subseteq released
         /\ torn \subseteq released)'
    BY <1>t, <1>u DEF IInv, TypeOK
  <2>5. (assets \in [Tags -> [Names -> 0 .. MaxRuns]])'
    BY <1>a, <1>u DEF IInv, TypeOK
  <2>6. (site \in [tag : released \cup {NoTag}, of : 0 .. MaxRuns,
                  by : 0 .. MaxRuns])'
    BY <1>t, <1>j, <1>u, BoundAssumption DEF IInv, TypeOK
  <2> QED BY <2>1, <2>2, <2>3, <2>4, <2>5, <2>6 DEF TypeOK
<1>4. Uploading'
  <2> SUFFICES ASSUME NEW m \in Runs, runs'[m].job = "upload"
               PROVE  /\ runs'[m].tag \in torn'
                      /\ \A g \in BuiltFiles(m)' \ runs'[m].todo :
                           assets'[runs'[m].tag][g] = m
    BY DEF Uploading
  <2>1. m = n
    BY <1>t, <1>f, <1>j DEF IInv, TypeOK, OneAtATime, Jobs
  <2>2. runs[n].tag \in torn /\ \A g \in BuiltFiles(n) \ runs[n].todo :
          assets[runs[n].tag][g] = n
    BY <1>t, <1>j DEF IInv, Uploading
  <2>3. BuiltFiles(n)' = BuiltFiles(n)
    BY <1>f DEF BuiltFiles
  <2> QED BY <1>t, <1>f, <1>u, <1>a, <2>1, <2>2, <2>3
<1>5. AssetsKnown'
  BY <1>a, <1>t, <1>u DEF IInv, TypeOK, AssetsKnown, Runs
<1>6. ReleaseWhole'
  <2> SUFFICES ASSUME NEW u \in released' \ torn' PROVE WholeNext(u)
    BY DEF ReleaseWhole, WholeNext
  <2>1. u \in Tags /\ u \in released \ torn /\ u # runs[n].tag
    BY <1>t, <1>j, <1>u DEF IInv, TypeOK, Uploading
  <2>2. assets'[u] = assets[u]
    BY <1>t, <1>u, <2>1 DEF IInv, TypeOK
  <2> QED BY <1>r, <2>1, <2>2, OneKept DEF IInv
<1>7. Indexing'
  <2> SUFFICES ASSUME NEW m \in Runs
               PROVE  /\ runs'[m].index.of <= started'
                      /\ runs'[m].job \in {"pages", "deploy", "success"} =>
                           runs'[m].tag \in released'
                      /\ runs'[m].job # "deploy"
    BY DEF Indexing
  <2> QED BY <1>t, <1>f, <1>j, <1>u DEF IInv, TypeOK, OneAtATime, Indexing, Jobs
<1>8. Deployed'
  BY <1>t, <1>f, <1>j, <1>u, BoundAssumption
     DEF IInv, TypeOK, Deployed, Jobs, Runs
<1>9. IndexVerifies'
  <2> SUFFICES ASSUME Current' PROVE FALSE
    BY DEF IndexVerifies
  <2>1. site.by \in Runs /\ runs[site.by].job = "success"
    BY <1>u, BoundAssumption DEF IInv, TypeOK, Deployed, Current, Runs
  <2>2. n > site.by
    BY <1>t, <1>j, <2>1 DEF IInv, Ordered, Active, Jobs, Runs
  <2> QED BY <1>t, <1>f, <1>j, <1>u, <2>2 DEF Current
<1>10. SuccessIsIndexed'
  BY <1>t, <1>f, <1>j, <1>u DEF IInv, TypeOK, SuccessIsIndexed, Jobs
<1> QED BY <1>1, <1>2, <1>3, <1>4, <1>5, <1>6, <1>7, <1>8, <1>9, <1>10 DEF IInv

LEMMA EndUploadStep ==
  ASSUME IInv, NEW n \in 1 .. started, EndUpload(n)
  PROVE  IInv'
<1> USE DEF NoRun, NoTag
<1>t. /\ n \in Runs /\ n <= started /\ runs[n].tag \in Tags
      /\ runs[n].ref \in Tags /\ BuiltFiles(n) \subseteq Names
      /\ "SHA256SUMS" \in BuiltFiles(n)
  BY BoundAssumption DEF IInv, TypeOK, Begun, Runs, BuiltFiles, Names, Wheels
<1>f. /\ \A m \in Runs : m # n => runs'[m] = runs[m]
      /\ runs'[n].job = "pages" /\ runs'[n].tag = runs[n].tag
      /\ runs'[n].ref = runs[n].ref /\ runs'[n].todo = runs[n].todo
      /\ runs'[n].index = runs[n].index
  BY <1>t DEF IInv, TypeOK, RunsOK, EndUpload, To, NextJob
<1>j. runs[n].job = "upload"
  BY DEF EndUpload
<1>u. /\ UNCHANGED <<pushed, started, released, pre, assets, site>>
      /\ runs[n].todo = {} /\ torn' = torn \ {runs[n].tag}
  BY DEF EndUpload, store
<1>r. RefsKept
  BY <1>f DEF RefsKept
<1>1. Begun'
  BY <1>f, <1>j, <1>t, <1>u DEF IInv, Begun, Jobs
<1>2. Ordered'
  BY <1>f, <1>j, <1>t, OrderKept DEF IInv, Active, Jobs
<1>3. TypeOK'
  <2>1. pushed' \in 0 .. LastTag /\ started' \in 0 .. MaxRuns
    BY <1>u DEF IInv, TypeOK
  <2>2. RunsOK'
    <3>1. runs' = [runs EXCEPT ![n].job = "pages"]
      BY DEF EndUpload, To, NextJob
    <3>2. RunsOK /\ MaxRuns \in Nat /\ "pages" \in Jobs \cup Over
      BY BoundAssumption DEF IInv, TypeOK, Jobs, Over
    <3> QED BY <1>t, <3>1, <3>2, JobKept
  <2>3. OneAtATime'
    BY <1>2, <1>f, BoundAssumption
       DEF IInv, Ordered, Active, OneAtATime, Runs, Jobs
  <2>4. (released \subseteq Tags /\ pre \subseteq released
         /\ torn \subseteq released)'
    BY <1>t, <1>u DEF IInv, TypeOK
  <2>5. (assets \in [Tags -> [Names -> 0 .. MaxRuns]])'
    BY <1>u DEF IInv, TypeOK
  <2>6. (site \in [tag : released \cup {NoTag}, of : 0 .. MaxRuns,
                  by : 0 .. MaxRuns])'
    BY <1>t, <1>j, <1>u, BoundAssumption DEF IInv, TypeOK
  <2> QED BY <2>1, <2>2, <2>3, <2>4, <2>5, <2>6 DEF TypeOK
<1>4. Uploading'
  BY <1>t, <1>f, <1>j, <1>u
     DEF IInv, TypeOK, OneAtATime, Uploading, BuiltFiles, Jobs
<1>5. AssetsKnown'
  BY <1>t, <1>u DEF IInv, TypeOK, AssetsKnown, Runs
<1>6. ReleaseWhole'
  <2> SUFFICES ASSUME NEW u \in released' \ torn' PROVE WholeNext(u)
    BY DEF ReleaseWhole, WholeNext
  <2>1. CASE u = runs[n].tag
    <3>1. \A g \in BuiltFiles(n) : assets'[u][g] = n
      BY <1>t, <1>j, <1>u, <2>1 DEF IInv, Uploading, TypeOK
    <3>2. assets'[u]["SHA256SUMS"] = n /\ runs'[n].ref = runs[n].ref
      BY <1>t, <1>f, <3>1
    <3> QED BY <1>t, <3>1, <3>2 DEF Verifies, WholeNext, BuiltFiles, Runs
  <2>2. CASE u # runs[n].tag
    BY <1>t, <1>u, <1>r, <2>2, OneKept DEF IInv, TypeOK
  <2> QED BY <2>1, <2>2
<1>7. Indexing'
  <2> SUFFICES ASSUME NEW m \in Runs
               PROVE  /\ runs'[m].index.of <= started'
                      /\ runs'[m].job \in {"pages", "deploy", "success"} =>
                           runs'[m].tag \in released'
                      /\ runs'[m].job # "deploy"
    BY DEF Indexing
  <2> QED BY <1>t, <1>f, <1>j, <1>u
     DEF IInv, TypeOK, OneAtATime, Indexing, Jobs, Uploading
<1>8. Deployed'
  BY <1>t, <1>f, <1>j, <1>u, BoundAssumption
     DEF IInv, TypeOK, Deployed, Jobs, Runs
<1>9. IndexVerifies'
  <2> SUFFICES ASSUME Current' PROVE FALSE
    BY DEF IndexVerifies
  <2>1. site.by \in Runs /\ runs[site.by].job = "success"
    BY <1>u, BoundAssumption DEF IInv, TypeOK, Deployed, Current, Runs
  <2>2. n > site.by
    BY <1>t, <1>j, <2>1 DEF IInv, Ordered, Active, Jobs, Runs
  <2> QED BY <1>t, <1>f, <1>j, <1>u, <2>2 DEF Current
<1>10. SuccessIsIndexed'
  BY <1>t, <1>f, <1>j, <1>u DEF IInv, TypeOK, SuccessIsIndexed, Jobs
<1> QED BY <1>1, <1>2, <1>3, <1>4, <1>5, <1>6, <1>7, <1>8, <1>9, <1>10 DEF IInv

LEMMA BuildIndexStep ==
  ASSUME IInv, NEW n \in 1 .. started, BuildIndex(n)
  PROVE  IInv'
<1> USE DEF NoRun, NoTag
<1>0. PICK t \in Tags \cup {NoTag} :
        LET k == IF t = NoTag THEN NoRun ELSE assets[t]["SHA256SUMS"] IN
        /\ Resolve(n, t) /\ (t # NoTag => k # NoRun)
        /\ runs' = [runs EXCEPT ![n].job = "deploy",
                                ![n].index = [tag |-> t, of |-> k]]
  BY DEF BuildIndex
<1> DEFINE k == IF t = NoTag THEN NoRun ELSE assets[t]["SHA256SUMS"]
<1>k. k \in 0 .. MaxRuns /\ k <= started
  BY BoundAssumption DEF IInv, TypeOK, AssetsKnown, Names
<1>t. /\ n \in Runs /\ n <= started /\ runs[n].tag \in Tags
      /\ runs[n].ref \in Tags /\ BuiltFiles(n) \subseteq Names
      /\ "SHA256SUMS" \in BuiltFiles(n)
  BY BoundAssumption DEF IInv, TypeOK, Begun, Runs, BuiltFiles, Names, Wheels
<1>f. /\ \A m \in Runs : m # n => runs'[m] = runs[m]
      /\ runs'[n].job = "deploy" /\ runs'[n].tag = runs[n].tag
      /\ runs'[n].ref = runs[n].ref /\ runs'[n].todo = runs[n].todo
      /\ runs'[n].index = [tag |-> t, of |-> k]
  BY <1>0, <1>t DEF IInv, TypeOK, RunsOK, BuildIndex, To, NextJob
<1>j. runs[n].job = "pages"
  BY DEF BuildIndex
<1>u. /\ UNCHANGED <<pushed, started, released, pre, assets, torn, site>>
  BY DEF BuildIndex, store
<1>r. RefsKept
  BY <1>f DEF RefsKept
<1>1. Begun'
  BY <1>f, <1>j, <1>t, <1>u DEF IInv, Begun, Jobs
<1>2. Ordered'
  BY <1>f, <1>j, <1>t, OrderKept DEF IInv, Active, Jobs
<1>3. TypeOK'
  <2>1. pushed' \in 0 .. LastTag /\ started' \in 0 .. MaxRuns
    BY <1>u DEF IInv, TypeOK
  <2>2. RunsOK'
    <3>1. [tag |-> t, of |-> k] \in Index
      BY <1>k DEF Index
    <3> HIDE DEF k
    <3>2. runs' = [runs EXCEPT ![n].job = "deploy",
                               ![n].index = [tag |-> t, of |-> k]]
      BY <1>0 DEF k
    <3>3. RunsOK /\ "deploy" \in Jobs \cup Over /\ {} \in SUBSET Names
      BY DEF IInv, TypeOK, Jobs
    <3> QED BY <1>t, <3>1, <3>2, <3>3, FieldsKept
  <2>3. OneAtATime'
    BY <1>2, <1>f, BoundAssumption
       DEF IInv, Ordered, Active, OneAtATime, Runs, Jobs
  <2>4. (released \subseteq Tags /\ pre \subseteq released
         /\ torn \subseteq released)'
    BY <1>t, <1>u DEF IInv, TypeOK
  <2>5. (assets \in [Tags -> [Names -> 0 .. MaxRuns]])'
    BY <1>u DEF IInv, TypeOK
  <2>6. (site \in [tag : released \cup {NoTag}, of : 0 .. MaxRuns,
                  by : 0 .. MaxRuns])'
    BY <1>t, <1>j, <1>u, BoundAssumption DEF IInv, TypeOK
  <2> QED BY <2>1, <2>2, <2>3, <2>4, <2>5, <2>6 DEF TypeOK
<1>4. Uploading'
  <2>1. \A m \in Runs :
          runs'[m].job = "upload" => m # n /\ runs'[m] = runs[m]
    BY <1>f
  <2> QED BY <1>u, <2>1 DEF IInv, Uploading, BuiltFiles
<1>5. AssetsKnown'
  BY <1>t, <1>u DEF IInv, TypeOK, AssetsKnown, Runs
<1>6. ReleaseWhole'
  BY <1>r, <1>u, WholeKept DEF IInv
<1>7. Indexing'
  <2> SUFFICES ASSUME NEW m \in Runs
               PROVE  /\ runs'[m].index.of <= started
                      /\ runs'[m].job \in {"pages", "deploy", "success"} =>
                           runs'[m].tag \in released
                      /\ runs'[m].job = "deploy"
                           /\ runs'[m].index.tag # NoTag =>
                           /\ runs'[m].index.tag \in released
                           /\ \A u \in Listed : u <= runs'[m].index.tag
                           /\ runs'[m].index.of =
                                assets[runs'[m].index.tag]["SHA256SUMS"]
                           /\ runs'[m].index.of # NoRun
    BY <1>u DEF Indexing, Listed
  <2>1. CASE m # n
    BY <1>f, <2>1 DEF IInv, Indexing
  <2>2. CASE m = n
    <3>1. runs'[n].index.of <= started /\ runs[n].tag \in released
      BY <1>t, <1>f, <1>j, <1>k DEF IInv, Indexing
    <3>2. t # NoTag => t \in Listed /\ (\A u \in Listed : u <= t) /\ k # NoRun
      BY <1>0 DEF Resolve, IsLatest
    <3> QED BY <1>f, <2>2, <3>1, <3>2 DEF Listed
  <2> QED BY <2>1, <2>2
<1>8. Deployed'
  BY <1>t, <1>f, <1>j, <1>u, BoundAssumption
     DEF IInv, TypeOK, Deployed, Jobs, Runs
<1>9. IndexVerifies'
  <2>1. Current' => Current
    BY <1>t, <1>f, <1>j, <1>u
       DEF IInv, TypeOK, Ordered, Active, Jobs, Deployed, Current, Runs
  <2> QED BY <1>r, <1>u, <2>1, VerifiesKept DEF IInv
<1>10. SuccessIsIndexed'
  BY <1>t, <1>f, <1>j, <1>u DEF IInv, TypeOK, SuccessIsIndexed, Jobs
<1> QED BY <1>1, <1>2, <1>3, <1>4, <1>5, <1>6, <1>7, <1>8, <1>9, <1>10 DEF IInv

LEMMA NoManifestStep ==
  ASSUME IInv, NEW n \in 1 .. started, NoManifest(n)
  PROVE  IInv'
<1> USE DEF NoRun, NoTag
<1>t. /\ n \in Runs /\ n <= started /\ runs[n].tag \in Tags
      /\ runs[n].ref \in Tags /\ BuiltFiles(n) \subseteq Names
      /\ "SHA256SUMS" \in BuiltFiles(n)
  BY BoundAssumption DEF IInv, TypeOK, Begun, Runs, BuiltFiles, Names, Wheels
<1>f. /\ \A m \in Runs : m # n => runs'[m] = runs[m]
      /\ runs'[n].job = "failure" /\ runs'[n].tag = runs[n].tag
      /\ runs'[n].ref = runs[n].ref /\ runs'[n].todo = runs[n].todo
      /\ runs'[n].index = runs[n].index
  BY <1>t DEF IInv, TypeOK, RunsOK, NoManifest, To, NextJob
<1>j. runs[n].job = "pages"
  BY DEF NoManifest
<1>u. /\ UNCHANGED <<pushed, started, released, pre, assets, torn, site>>
  BY DEF NoManifest, store
<1>r. RefsKept
  BY <1>f DEF RefsKept
<1>1. Begun'
  BY <1>f, <1>j, <1>t, <1>u DEF IInv, Begun, Jobs
<1>2. Ordered'
  BY <1>f, <1>j, <1>t, OrderKept DEF IInv, Active, Jobs
<1>3. TypeOK'
  <2>1. pushed' \in 0 .. LastTag /\ started' \in 0 .. MaxRuns
    BY <1>u DEF IInv, TypeOK
  <2>2. RunsOK'
    <3>1. runs' = [runs EXCEPT ![n].job = "failure"]
      BY DEF NoManifest, To, NextJob
    <3>2. RunsOK /\ MaxRuns \in Nat /\ "failure" \in Jobs \cup Over
      BY BoundAssumption DEF IInv, TypeOK, Jobs, Over
    <3> QED BY <1>t, <3>1, <3>2, JobKept
  <2>3. OneAtATime'
    BY <1>2, <1>f, BoundAssumption
       DEF IInv, Ordered, Active, OneAtATime, Runs, Jobs
  <2>4. (released \subseteq Tags /\ pre \subseteq released
         /\ torn \subseteq released)'
    BY <1>t, <1>u DEF IInv, TypeOK
  <2>5. (assets \in [Tags -> [Names -> 0 .. MaxRuns]])'
    BY <1>u DEF IInv, TypeOK
  <2>6. (site \in [tag : released \cup {NoTag}, of : 0 .. MaxRuns,
                  by : 0 .. MaxRuns])'
    BY <1>t, <1>j, <1>u, BoundAssumption DEF IInv, TypeOK
  <2> QED BY <2>1, <2>2, <2>3, <2>4, <2>5, <2>6 DEF TypeOK
<1>4. Uploading'
  <2>1. \A m \in Runs :
          runs'[m].job = "upload" => m # n /\ runs'[m] = runs[m]
    BY <1>f
  <2> QED BY <1>u, <2>1 DEF IInv, Uploading, BuiltFiles
<1>5. AssetsKnown'
  BY <1>t, <1>u DEF IInv, TypeOK, AssetsKnown, Runs
<1>6. ReleaseWhole'
  BY <1>r, <1>u, WholeKept DEF IInv
<1>7. Indexing'
  BY <1>t, <1>f, <1>j, <1>u DEF IInv, TypeOK, OneAtATime, Indexing, Listed, Jobs
<1>8. Deployed'
  BY <1>t, <1>f, <1>j, <1>u, BoundAssumption
     DEF IInv, TypeOK, Deployed, Jobs, Runs
<1>9. IndexVerifies'
  <2>1. Current' => Current
    BY <1>t, <1>f, <1>j, <1>u
       DEF IInv, TypeOK, Ordered, Active, Jobs, Deployed, Current, Runs
  <2> QED BY <1>r, <1>u, <2>1, VerifiesKept DEF IInv
<1>10. SuccessIsIndexed'
  BY <1>t, <1>f, <1>j, <1>u DEF IInv, TypeOK, SuccessIsIndexed, Jobs
<1> QED BY <1>1, <1>2, <1>3, <1>4, <1>5, <1>6, <1>7, <1>8, <1>9, <1>10 DEF IInv

LEMMA DeployStep ==
  ASSUME IInv, NEW n \in 1 .. started, Deploy(n)
  PROVE  IInv'
<1> USE DEF NoRun, NoTag
<1>t. /\ n \in Runs /\ n <= started /\ runs[n].tag \in Tags
      /\ runs[n].ref \in Tags /\ BuiltFiles(n) \subseteq Names
      /\ "SHA256SUMS" \in BuiltFiles(n)
  BY BoundAssumption DEF IInv, TypeOK, Begun, Runs, BuiltFiles, Names, Wheels
<1>f. /\ \A m \in Runs : m # n => runs'[m] = runs[m]
      /\ runs'[n].job = "success" /\ runs'[n].tag = runs[n].tag
      /\ runs'[n].ref = runs[n].ref /\ runs'[n].todo = runs[n].todo
      /\ runs'[n].index = runs[n].index
  BY <1>t DEF IInv, TypeOK, RunsOK, Deploy, To, NextJob
<1>j. runs[n].job = "deploy"
  BY DEF Deploy
<1>u. /\ UNCHANGED <<pushed, started, released, pre, assets, torn>>
      /\ site' = [tag |-> runs[n].index.tag, of |-> runs[n].index.of, by |-> n]
  BY DEF Deploy, store
<1>r. RefsKept
  BY <1>f DEF RefsKept
<1>1. Begun'
  BY <1>f, <1>j, <1>t, <1>u DEF IInv, Begun, Jobs
<1>2. Ordered'
  BY <1>f, <1>j, <1>t, OrderKept DEF IInv, Active, Jobs
<1>3. TypeOK'
  <2>1. pushed' \in 0 .. LastTag /\ started' \in 0 .. MaxRuns
    BY <1>u DEF IInv, TypeOK
  <2>2. RunsOK'
    <3>1. runs' = [runs EXCEPT ![n].job = "success"]
      BY DEF Deploy, To, NextJob
    <3>2. RunsOK /\ MaxRuns \in Nat /\ "success" \in Jobs \cup Over
      BY BoundAssumption DEF IInv, TypeOK, Jobs, Over
    <3> QED BY <1>t, <3>1, <3>2, JobKept
  <2>3. OneAtATime'
    BY <1>2, <1>f, BoundAssumption
       DEF IInv, Ordered, Active, OneAtATime, Runs, Jobs
  <2>4. (released \subseteq Tags /\ pre \subseteq released
         /\ torn \subseteq released)'
    BY <1>t, <1>u DEF IInv, TypeOK
  <2>5. (assets \in [Tags -> [Names -> 0 .. MaxRuns]])'
    BY <1>u DEF IInv, TypeOK
  <2>6. (site \in [tag : released \cup {NoTag}, of : 0 .. MaxRuns,
                  by : 0 .. MaxRuns])'
    BY <1>t, <1>j, <1>u, BoundAssumption
       DEF IInv, TypeOK, RunsOK, Indexing, Runs
  <2> QED BY <2>1, <2>2, <2>3, <2>4, <2>5, <2>6 DEF TypeOK
<1>4. Uploading'
  <2>1. \A m \in Runs :
          runs'[m].job = "upload" => m # n /\ runs'[m] = runs[m]
    BY <1>f
  <2> QED BY <1>u, <2>1 DEF IInv, Uploading, BuiltFiles
<1>5. AssetsKnown'
  BY <1>t, <1>u DEF IInv, TypeOK, AssetsKnown, Runs
<1>6. ReleaseWhole'
  BY <1>r, <1>u, WholeKept DEF IInv
<1>7. Indexing'
  BY <1>t, <1>f, <1>j, <1>u DEF IInv, TypeOK, OneAtATime, Indexing, Listed, Jobs
<1>8. Deployed'
  BY <1>t, <1>f, <1>j, <1>u, BoundAssumption
     DEF IInv, TypeOK, Deployed, Jobs, Runs, Indexing
<1>9. IndexVerifies'
  <2> SUFFICES ASSUME site'.tag \notin (torn \cup {NoTag})'
               PROVE  Verifies(site.tag, site.of)'
    BY DEF IndexVerifies
  <2>0. runs[n].index.tag \in released \ torn
    BY <1>t, <1>j, <1>u DEF IInv, Indexing
  <2>1. PICK t \in released \ torn : t = runs[n].index.tag
    BY <2>0
  <2>2. WholeNext(t)
    BY <1>u, <1>r, OneKept DEF IInv
  <2>3. site'.tag = t /\ site'.of = assets'[t]["SHA256SUMS"]
    BY <1>t, <1>j, <1>u, <2>1 DEF IInv, Indexing
  <2> QED BY <2>2, <2>3 DEF WholeNext, Verifies
<1>10. SuccessIsIndexed'
  <2> SUFFICES ASSUME NEW m \in Runs, runs'[m].job = "success",
                      runs[n].index.tag # NoTag
               PROVE  runs[m].tag <= runs[n].index.tag \/ runs[m].tag \in pre
    BY <1>t, <1>f, <1>u DEF SuccessIsIndexed
  <2>1. runs[m].tag \in released
    BY <1>t, <1>f, <1>j DEF IInv, Indexing
  <2> QED BY <1>t, <1>j, <2>1 DEF IInv, Indexing, Listed
<1> QED BY <1>1, <1>2, <1>3, <1>4, <1>5, <1>6, <1>7, <1>8, <1>9, <1>10 DEF IInv

LEMMA MarkPrereleaseStep ==
  ASSUME IInv, NEW t \in Tags, MarkPrerelease(t)
  PROVE  IInv'
<1> USE DEF NoRun, NoTag
<1>u. /\ UNCHANGED <<pushed, started, runs, released, assets, torn, site>>
      /\ t \in released /\ pre' = pre \cup {t}
  BY DEF MarkPrerelease
<1>1. Begun' /\ Ordered' /\ Uploading' /\ AssetsKnown'
  BY <1>u DEF IInv, Begun, Ordered, Active, Uploading, AssetsKnown, BuiltFiles
<1>2. TypeOK'
  BY <1>u DEF IInv, TypeOK, RunsOK, OneAtATime
<1>3. ReleaseWhole' /\ Deployed' /\ IndexVerifies'
  BY <1>u DEF IInv, ReleaseWhole, Deployed, IndexVerifies, Current, Verifies
<1>4. Indexing'
  BY <1>u DEF IInv, Indexing, Listed
<1>5. SuccessIsIndexed'
  BY <1>u DEF IInv, SuccessIsIndexed
<1> QED BY <1>1, <1>2, <1>3, <1>4, <1>5 DEF IInv

LEMMA TriggeredStep ==
  ASSUME IInv, NEW tag \in Tags, NEW ref \in Tags, Triggered(tag, ref),
         pushed' \in 0 .. LastTag
  PROVE  IInv'
<1> USE DEF NoRun, NoTag
<1> DEFINE new == started + 1
<1>s. started \in Nat /\ started < MaxRuns /\ started' = new
  <2>1. started < MaxRuns /\ started' = new
    BY DEF Triggered
  <2>2. started \in Nat
    BY BoundAssumption DEF IInv, TypeOK
  <2> QED BY <2>1, <2>2
<1>t. new \in Runs /\ started' = new /\ started \in Nat
      /\ runs[new].job = "none"
  <2>1. new \in Runs /\ ~(new <= started)
    BY <1>s, BoundAssumption DEF Runs
  <2> QED BY <1>s, <2>1 DEF IInv, Begun
<1>u. UNCHANGED <<released, pre, assets, torn, site>>
  BY DEF Triggered, store
<1>n. /\ runs'[new].tag = tag /\ runs'[new].ref = ref /\ runs'[new].todo = {}
      /\ runs'[new].index = Empty
      /\ runs'[new].job = IF Busy(new) THEN "pending" ELSE "build"
  BY <1>t DEF Triggered, NotStarted
<1>f. \A m \in Runs : m # new =>
        /\ runs'[m].tag = runs[m].tag /\ runs'[m].ref = runs[m].ref
        /\ runs'[m].todo = runs[m].todo /\ runs'[m].index = runs[m].index
        /\ runs'[m].job = IF runs[m].job = "pending" THEN "cancelled"
                          ELSE runs[m].job
  BY <1>t DEF IInv, TypeOK, RunsOK, Triggered
<1>r. RefsKept
  BY <1>t, <1>f DEF RefsKept
<1>1. Begun'
  BY <1>t, <1>n, <1>f DEF IInv, Begun, Runs
<1>2. Ordered'
  <2> SUFFICES ASSUME NEW m \in Runs, NEW k \in Runs, m < k
               PROVE  /\ runs'[m].job = "pending" => runs'[k].job = "none"
                      /\ Active(m)' =>
                           runs'[k].job \in {"none", "pending", "cancelled"}
    BY DEF Ordered
  <2>1. CASE k = new
    BY <1>t, <1>n, <1>f, <2>1 DEF Active, Busy, Jobs, Runs
  <2>2. CASE k > new
    BY <1>t, <1>f, <2>2 DEF IInv, Begun, Runs
  <2>3. CASE k < new
    BY <1>t, <1>f, <2>3 DEF IInv, Ordered, Active, Jobs, Runs
  <2> QED BY <1>t, <2>1, <2>2, <2>3 DEF Runs
<1>3. TypeOK'
  <2> DEFINE RunType ==
               [tag : Tags \cup {NoTag}, ref : Tags \cup {NoTag},
                job : Jobs \cup Over \cup {"none", "pending"},
                todo : SUBSET Names,
                index : [tag : Tags \cup {NoTag}, of : 0 .. MaxRuns]]
             r(m) == IF m = started'
                     THEN [tag |-> tag, ref |-> ref, todo |-> {},
                           index |-> Empty,
                           job |-> IF Busy(m) THEN "pending" ELSE "build"]
                     ELSE IF runs[m].job = "pending"
                          THEN [runs[m] EXCEPT !.job = "cancelled"]
                     ELSE runs[m]
  <2>1. RunsOK'
    <3>1. ASSUME NEW m \in Runs PROVE r(m) \in RunType
      <4>1. runs[m] \in RunType
        BY DEF IInv, TypeOK, RunsOK
      <4>2. Empty \in [tag : Tags \cup {NoTag}, of : 0 .. MaxRuns]
        BY BoundAssumption DEF Empty
      <4>3. ASSUME NEW job \in {"pending", "build"}
            PROVE  [tag |-> tag, ref |-> ref, todo |-> {}, index |-> Empty,
                    job |-> job] \in RunType
        BY <4>2 DEF Jobs
      <4>4. [runs[m] EXCEPT !.job = "cancelled"] \in RunType
        BY <4>1 DEF Over
      <4> HIDE DEF RunType
      <4> QED BY <4>1, <4>3, <4>4
    <3>2. runs' = [m \in Runs |-> r(m)]
      BY DEF Triggered
    <3> HIDE DEF RunType, r
    <3>3. runs' \in [Runs -> RunType]
      BY <3>1, <3>2
    <3> QED BY <3>3 DEF RunsOK, RunType
  <2>2. OneAtATime'
    BY <1>2 DEF Ordered, Active, OneAtATime, Runs, Jobs
  <2>3. started' \in 0 .. MaxRuns
    BY <1>s, BoundAssumption
  <2> QED BY <1>u, <2>1, <2>2, <2>3 DEF IInv, TypeOK
<1>4. Uploading'
  BY <1>t, <1>n, <1>f, <1>u DEF IInv, Uploading, BuiltFiles
<1>5. AssetsKnown'
  BY <1>t, <1>u, BoundAssumption DEF IInv, TypeOK, AssetsKnown
<1>6. ReleaseWhole'
  BY <1>r, <1>u, WholeKept DEF IInv
<1>7. Indexing'
  <2> SUFFICES ASSUME NEW m \in Runs
               PROVE  /\ runs'[m].index.of <= started'
                      /\ runs'[m].job \in {"pages", "deploy", "success"} =>
                           m # new
    BY <1>f, <1>u DEF IInv, Indexing, Listed
  <2> QED BY <1>t, <1>n, <1>f, BoundAssumption, SMTT(20)
          DEF IInv, TypeOK, RunsOK, Indexing, Empty, Runs
<1>8. Deployed'
  <2>1. site.by # NoRun => site.by \in Runs /\ site.by # new
    BY <1>t, BoundAssumption DEF IInv, TypeOK, Deployed, Runs
  <2>2. site.of <= started'
    BY <1>s, BoundAssumption DEF IInv, TypeOK, Deployed
  <2> QED BY <1>f, <1>u, <2>1, <2>2 DEF IInv, Deployed
<1>9. IndexVerifies'
  <2>1. Current' => Current
    <3> SUFFICES ASSUME Current', NEW m \in Runs, m > site.by
                 PROVE  runs[m].job \in
                          {"none", "pending", "cancelled", "build"}
      BY <1>u DEF Current
    <3>1. runs'[m].job \in {"none", "pending", "cancelled", "build"}
      BY <1>u DEF Current
    <3> QED BY <1>t, <1>f, <3>1
  <2> QED BY <1>r, <1>u, <2>1, VerifiesKept DEF IInv
<1>10. SuccessIsIndexed'
  BY <1>t, <1>n, <1>f, <1>u DEF IInv, SuccessIsIndexed
<1> QED BY <1>1, <1>2, <1>3, <1>4, <1>5, <1>6, <1>7, <1>8, <1>9, <1>10 DEF IInv

LEMMA RunStep ==
  ASSUME IInv, NEW n \in 1 .. started, Run(n)
  PROVE  IInv'
BY AdmitStep, FailStep, BuildStep, CreateStep, BeginUploadStep, ClobberStep,
   UploadStep, EndUploadStep, BuildIndexStep, NoManifestStep, DeployStep
   DEF Run

LEMMA NextStep == IInv /\ [Next]_vars => IInv'
<1> SUFFICES ASSUME IInv, [Next]_vars PROVE IInv'
  OBVIOUS
<1>1. CASE Push
  <2>1. /\ pushed' \in Tags /\ pushed' \in 0 .. LastTag
        /\ Triggered(pushed', pushed')
    BY <1>1, BoundAssumption DEF Push, IInv, TypeOK, Tags
  <2> QED BY <2>1, TriggeredStep
<1>2. ASSUME NEW tag \in Tags, NEW ref \in Tags, Dispatch(tag, ref) PROVE IInv'
  BY <1>2, TriggeredStep DEF Dispatch, IInv, TypeOK
<1>3. ASSUME NEW n \in 1 .. started, Run(n) PROVE IInv'
  BY <1>3, RunStep
<1>4. ASSUME NEW t \in Tags, MarkPrerelease(t) PROVE IInv'
  BY <1>4, MarkPrereleaseStep
<1>5. CASE UNCHANGED vars
  <2>1. UNCHANGED <<pushed, started, runs, released, pre, assets, torn, site>>
    BY <1>5 DEF vars, store
  <2>2. TypeOK' /\ Begun' /\ Ordered' /\ Uploading' /\ AssetsKnown'
    BY <2>1 DEF IInv, TypeOK, RunsOK, OneAtATime, Begun, Ordered, Active,
                Uploading, BuiltFiles, AssetsKnown
  <2>3. ReleaseWhole' /\ Indexing' /\ Deployed'
    BY <2>1 DEF IInv, ReleaseWhole, Verifies, Indexing, Listed, Deployed
  <2>4. IndexVerifies' /\ SuccessIsIndexed'
    BY <2>1 DEF IInv, IndexVerifies, Current, Verifies, SuccessIsIndexed
  <2> QED BY <2>2, <2>3, <2>4 DEF IInv
<1> QED BY <1>1, <1>2, <1>3, <1>4, <1>5 DEF Next

LEMMA InitIInv == Init => IInv
<1> SUFFICES ASSUME Init PROVE IInv
  OBVIOUS
<1> USE DEF NoRun, NoTag
<1>1. TypeOK
  BY BoundAssumption
     DEF Init, TypeOK, RunsOK, OneAtATime, NotStarted, Empty, Jobs, Over
<1>2. Begun /\ Ordered /\ Uploading
  BY BoundAssumption
     DEF Init, Begun, Ordered, Active, Uploading, NotStarted, Jobs, Runs
<1>3. AssetsKnown /\ ReleaseWhole
  BY DEF Init, AssetsKnown, ReleaseWhole
<1>4. Indexing /\ Deployed
  BY DEF Init, Indexing, Deployed, NotStarted, Empty
<1>5. IndexVerifies /\ SuccessIsIndexed
  BY DEF Init, IndexVerifies, Current, SuccessIsIndexed, NotStarted
<1> QED BY <1>1, <1>2, <1>3, <1>4, <1>5 DEF IInv

LEMMA Inductive == Spec => []IInv
BY InitIInv, NextStep, PTL DEF Spec

(* Types, and the group: never two runs in their jobs (release.yml:36-38). *)
THEOREM TypeCorrect == Spec => []TypeOK
<1>1. IInv => TypeOK
  BY DEF IInv
<1> QED BY <1>1, Inductive, PTL

(* However often a release was uploaded to, in whatever order the assets were *)
(* replaced and wherever earlier uploads broke off: after an upload that      *)
(* ended, SHA256SUMS is right about every wheel it names.                     *)
THEOREM ManifestsTrue == Spec => []ManifestTrue
<1>1. IInv => ManifestTrue
  BY DEF IInv, ReleaseWhole, ManifestTrue
<1> QED BY <1>1, Inductive, PTL

(* The deployed index verifies until the next run comes to its release.       *)
THEOREM IndexAlwaysVerifies == Spec => []IndexVerifies
<1>1. IInv => IndexVerifies
  BY DEF IInv
<1> QED BY <1>1, Inductive, PTL

(* A run that succeeded has its release, or a newer one, in the index.        *)
THEOREM SuccessAlwaysIndexed == Spec => []SuccessIsIndexed
<1>1. IInv => SuccessIsIndexed
  BY DEF IInv
<1> QED BY <1>1, Inductive, PTL

LEMMA StepAdvances ==
  IInv /\ [Next]_vars =>
    [site'.tag # NoTag => site'.tag >= site.tag \/ site.tag \in pre]_site
<1> SUFFICES ASSUME IInv, Next, site' # site, site'.tag # NoTag
             PROVE  site'.tag >= site.tag \/ site.tag \in pre
  BY DEF vars
<1>1. PICK n \in 1 .. started : Deploy(n)
  BY DEF Next, Push, Dispatch, Triggered, MarkPrerelease, Run, Admit, Fail,
         Build, Create, BeginUpload, Clobber, Upload, EndUpload, BuildIndex,
         NoManifest, store
<1>2. n \in Runs /\ runs[n].job = "deploy" /\ site'.tag = runs[n].index.tag
  BY <1>1, BoundAssumption DEF Deploy, IInv, TypeOK, Runs
<1>3. /\ site'.tag \in Tags /\ site.tag \in released \cup {NoTag}
      /\ \A u \in Listed : u <= site'.tag
  BY <1>2 DEF IInv, Indexing, TypeOK
<1> QED BY <1>3 DEF Listed, NoTag, Tags

(* The index advances: no deployment takes it back to an older release, but   *)
(* for a release the owner marked as a pre-release.                           *)
THEOREM Advances == Spec => IndexAdvances
BY Inductive, StepAdvances, PTL DEF Spec, IndexAdvances
==============================================================================
