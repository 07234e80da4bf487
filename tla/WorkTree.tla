------------------------------ MODULE WorkTree ------------------------------
(***************************************************************************)
(* The states of the workspace a team-solve run takes, shows and puts back *)
(* (tree.py, and capture_diff with the scope report of taskspec.py).       *)
(*                                                                         *)
(* A workspace is a function from paths to contents.  Others, that is the  *)
(* roles, what they left running and the operator, edit it and the         *)
(* project's git index, branch and commits between any two steps of the    *)
(* run.  A step of the run is one git command or one file written; a crash *)
(* may fall after any of them, and the operation is then begun again.      *)
(*                                                                         *)
(* Paths that git would ignore, that the excludes of snapshot name and     *)
(* that _sensitive names are three sets: they overlap.  A file in          *)
(* __pycache__ is excluded but not sensitive; one called SECRET is         *)
(* sensitive but not excluded.                                             *)
(***************************************************************************)
EXTENDS Naturals, FiniteSets

CONSTANTS
  Paths,      \* the paths of the workspace
  Below,      \* the pairs <<p, d>> where path p lies in d when d is a directory
  Ignored,    \* the paths a .gitignore names
  Excluded,   \* the paths SNAPSHOT_EXCLUDES keeps from `git add`
  Sensitive,  \* the paths _sensitive says yes to
  Scope,      \* the paths the task's Scope names
  Contents, Absent,
  Names,      \* the saved states: "direct", "accepted", "team"
  Found,      \* the workspaces a run may find, with their index and commit
  MaxEdits, MaxOps, MaxCrashes

ASSUME PathsAssumption ==
  /\ Below \subseteq Paths \X Paths /\ \A p \in Paths : <<p, p>> \notin Below
  /\ Ignored \cup Excluded \cup Sensitive \cup Scope \subseteq Paths
  /\ Absent \notin Contents
  /\ "base" \notin Names

VARIABLES
  files,      \* the workspace
  index,      \* the project's index
  real,       \* the workspace is in a git repository, not in the run's shadow one
  head,       \* the branch HEAD is on
  commits,    \* the tree each branch ends in
  base,       \* base.txt: the tree the run started from
  want,       \* head.txt
  tree,       \* the tree each <name>.tree file names
  ref,        \* the tree each ref of the run keeps
  store,      \* the trees the object store holds
  seen,       \* what the last capture_diff showed
  op,         \* the operation under way
  found,      \* history: the workspace as the run found it
  stood,      \* history: the index at each save
  fault,      \* history: names whose save a crash cut off
  count       \* the edits, operations and crashes so far

git == <<real, index, head, commits>>
saved == <<base, want, tree, ref, store>>
vars == <<files, git, saved, seen, op, found, stood, fault, count>>

\* The states of a workspace, or of an index: a path is a file or a directory.
Trees == {f \in [Paths -> Contents \cup {Absent}] :
            \A b \in Below : f[b[1]] = Absent \/ f[b[2]] = Absent}
Branches == {"main", "side"}
None == <<>>
NoBranch == "none"
Idle == [do |-> "idle"]

ASSUME FoundAssumption ==
  \A w \in Found :
    w.real \in BOOLEAN /\ {w.files, w.index, w.main, w.side} \subseteq Trees

-----------------------------------------------------------------------------
(* What git does.                                                          *)

Children(d) == {p \in Paths : <<p, d>> \in Below}
Parents(p) == {d \in Paths : <<p, d>> \in Below}

\* A file put at p takes the place of the directory p and of a file that
\* stands where p needs a directory.
Put(f, p, c) ==
  [q \in Paths |-> IF q = p THEN c
                   ELSE IF c # Absent /\ q \in Children(p) \cup Parents(p) THEN Absent
                   ELSE f[q]]

\* `git add -A` with the excludes, of files f into an index seeded with i; a
\* file that is added takes the place of an entry that is below or above it.
ToAdd(f, i) == {p \in Paths \ Excluded : f[p] # Absent /\ (p \in Ignored => i[p] # Absent)}
Added(f, i) ==
  LET added == ToAdd(f, i) IN
  [p \in Paths |->
     IF p \in added THEN f[p]
     ELSE IF p \in Excluded /\ (Children(p) \cup Parents(p)) \cap added = {} THEN i[p]
     ELSE Absent]

\* Mutant: what is tracked and sensitive stays in the seeded index.
SnapshotKeepsTracked(f, i) == Added(f, i)

\* Tree.snapshot: the sensitive paths are dropped from the private index.
Snapshot(f, i) ==
  LET added == Added(f, i) IN [p \in Paths |-> IF p \in Sensitive THEN Absent ELSE added[p]]

Now == Snapshot(files, index)

\* The trees no `git gc` prunes.
Reachable ==
  {commits[b] : b \in Branches} \cup {ref[n] : n \in {m \in DOMAIN ref : ref[m] # None}}
    \cup (IF \E m \in DOMAIN ref : ref[m] # None THEN {base} ELSE {})

\* `git checkout b`: what differs between the branches must be unchanged.
\* An ignored file in the way is overwritten, and so is one that is tracked
\* and unchanged and is below the path, or differs too; another one refuses.
Moving(b) == {p \in Paths : commits[head][p] # commits[b][p]}
InTheWay(p, b) == {q \in Children(p) \cup Parents(p) :
  /\ files[q] # Absent /\ q \notin Ignored
  /\ ~(files[q] = index[q] /\ q \in Children(p) \cup Moving(b))}
CanCheckout(b) ==
  \A p \in Moving(b) :
    \/ index[p] = commits[b][p]
    \/ /\ index[p] = commits[head][p]
       /\ \/ files[p] = index[p]
          \/ index[p] = Absent /\ (p \in Ignored \/ files[p] = commits[b][p])
       /\ commits[b][p] # Absent => InTheWay(p, b) = {}

\* A path that is put takes the place of those below and above it.
Cover(f, moved, b) ==
  [p \in Paths |->
     IF p \in moved THEN commits[b][p]
     ELSE IF \E q \in moved : commits[b][q] # Absent /\ p \in Children(q) \cup Parents(q) THEN Absent
     ELSE f[p]]
CheckedOut(b) == Cover(files, {p \in Moving(b) : index[p] # commits[b][p]}, b)
IndexAt(b) == Cover(index, Moving(b), b)

-----------------------------------------------------------------------------
(* The others.                                                             *)

\* Found stands for what was edited before the run began.
Edit == found # None /\ count.edits < MaxEdits /\ count' = [count EXCEPT !.edits = @ + 1]
Touch == op' = IF op.do = "idle" THEN op ELSE [op EXCEPT !.touched = TRUE]
Others == Edit /\ Touch /\ UNCHANGED <<saved, seen, found, stood, fault>>

Write == \E p \in Paths, c \in Contents \cup {Absent} :
  /\ Others /\ UNCHANGED git
  /\ files[p] # c
  /\ files' = Put(files, p, c)

\* `git add -f`, or `git rm --cached`
Stage == \E p \in Paths : \E c \in {files[p], Absent} :
  /\ Others /\ UNCHANGED <<files, real, head, commits>>
  /\ real /\ index[p] # c
  /\ index' = Put(index, p, c)

Commit ==
  /\ Others /\ UNCHANGED <<files, real, index, head>>
  /\ real /\ commits[head] # index
  /\ commits' = [commits EXCEPT ![head] = index]

\* `git checkout` of the other branch
CheckOut == \E b \in Branches \ {head} :
  /\ Others /\ UNCHANGED <<real, commits>>
  /\ real /\ CanCheckout(b)
  /\ head' = b /\ index' = IndexAt(b) /\ files' = CheckedOut(b)

\* `git gc --prune=now`
Collect == store # Reachable /\ store' = Reachable
  /\ UNCHANGED <<files, git, base, want, tree, ref, seen, op, found, stood, fault, count>>

-----------------------------------------------------------------------------
(* The run.                                                                *)

Begin(do) ==
  /\ op = Idle
  /\ count.ops < MaxOps /\ count' = [count EXCEPT !.ops = @ + 1]
  /\ do
Goes(step) == op.do = step /\ UNCHANGED count
Then(o) == op' = [o EXCEPT !.touched = op.touched]
Ends == op' = Idle

\* Tree.start: the base is taken once; base.txt is written last.
StartKeep ==
  /\ base = None
  /\ Begin(op' = [do |-> "start", tree |-> Now, touched |-> FALSE])
  /\ ref' = [ref EXCEPT !["base"] = Now] /\ store' = store \cup {Now}
  /\ want' = IF real THEN head ELSE NoBranch
  /\ found' = files
  /\ UNCHANGED <<files, git, base, tree, seen, stood, fault>>
StartName ==
  /\ Goes("start")
  /\ base' = op.tree
  /\ Ends /\ UNCHANGED <<files, git, want, tree, ref, store, seen, found, stood, fault>>

\* Tree.save: the tree, its commit on the base commit and its ref, ...
SaveKeep(n) ==
  /\ base # None /\ base \in store
  /\ Begin(op' = [do |-> "name", name |-> n, tree |-> Now, index |-> index, touched |-> FALSE])
  /\ ref' = [ref EXCEPT ![n] = Now] /\ store' = store \cup {Now}
  /\ UNCHANGED <<files, git, base, want, tree, seen, found, stood, fault>>
\* ... and the file that names it.
SaveName ==
  /\ Goes("name")
  /\ tree' = [tree EXCEPT ![op.name] = op.tree]
  /\ stood' = [stood EXCEPT ![op.name] = op.index]
  /\ fault' = fault \ {op.name}
  /\ Ends /\ UNCHANGED <<files, git, base, want, ref, store, seen, found>>

\* Mutant: only what the two states share is put back; a new file stays.
RestoreLeavesNew(n) ==
  /\ tree[n] # None /\ tree[n] \in store
  /\ Begin(op' = [do |-> "delete", name |-> n, before |-> files, touched |-> FALSE, delete |-> {},
                  write |-> {p \in Paths : tree[n][p] # Absent /\ tree[n][p] # Now[p]}])
  /\ UNCHANGED <<files, git, saved, seen, found, stood, fault>>

\* Tree.restore_tree: what to delete and what to write, from the state now.
Restore(n) ==
  /\ tree[n] # None /\ tree[n] \in store
  /\ Begin(op' = [do |-> "delete", name |-> n, before |-> files, touched |-> FALSE,
                  delete |-> {p \in Paths : Now[p] # Absent /\ tree[n][p] = Absent},
                  write |-> {p \in Paths : tree[n][p] # Absent /\ tree[n][p] # Now[p]}])
  /\ UNCHANGED <<files, git, saved, seen, found, stood, fault>>

RestoreDelete(p) ==
  /\ Goes("delete") /\ p \in op.delete
  /\ files' = [files EXCEPT ![p] = Absent]
  /\ IF \E q \in Children(p) : files[q] # Absent  \* unlink of a directory
     THEN Then([op EXCEPT !.do = "failed"])
     ELSE Then([op EXCEPT !.delete = @ \ {p}])
  /\ UNCHANGED <<git, saved, seen, found, stood, fault>>

\* A directory that stands where the tree has a file goes with all it holds.
Cleared(f, ps) == [q \in Paths |-> IF Parents(q) \cap ps # {} THEN Absent ELSE f[q]]
RestoreClear ==
  /\ Goes("delete") /\ op.delete = {}
  /\ files' = Cleared(files, op.write)
  /\ Then([op EXCEPT !.do = "write"])
  /\ UNCHANGED <<git, saved, seen, found, stood, fault>>

\* `git checkout-index -f` writes one path after the other.
RestoreWrite(p) ==
  /\ Goes("write") /\ p \in op.write
  /\ files' = Put(files, p, tree[op.name][p])
  /\ Then([op EXCEPT !.write = @ \ {p}])
  /\ UNCHANGED <<git, saved, seen, found, stood, fault>>

\* A second snapshot says whether the workspace came back; a TreeError if not.
RestoreEnds ==
  /\ Goes("write") /\ op.write = {}
  /\ Then([op EXCEPT !.do = IF Now = tree[op.name] THEN "restored" ELSE "failed"])
  /\ UNCHANGED <<files, git, saved, seen, found, stood, fault>>
Returns ==
  /\ op.do \in {"restored", "failed", "captured"} /\ Ends
  /\ UNCHANGED <<files, git, saved, seen, found, stood, fault, count>>

\* The paths changed between two trees, as `git diff --numstat --no-renames` has them.
Changed(a, b) == {p \in Paths : a[p] # b[p]}

\* capture_diff: the snapshot the diff is made of.
Capture ==
  /\ base # None /\ base \in store
  /\ Begin(op' = [do |-> "scope", tree |-> Now, touched |-> FALSE])
  /\ store' = store \cup {Now}
  /\ UNCHANGED <<files, git, base, want, tree, ref, seen, found, stood, fault>>

\* Tree.restore_head: HEAD on another branch with another commit is moved back.
HeadMoved == want # NoBranch /\ head # want /\ commits[head] # commits[want]
PutBack == HeadMoved /\ CanCheckout(want)
\* A file beside a file of the Scope that the start did not have is inside it.
Inside(p) == p \in Scope \/ (base[p] = Absent /\ \E s \in Scope : Parents(s) \cap Parents(p) # {})
\* taskspec.scope_report: the changed files are those after HEAD was put back.
CaptureScope ==
  /\ Goes("scope")
  /\ IF PutBack
     THEN /\ files' = CheckedOut(want)
          /\ index' = IndexAt(want)
          /\ head' = want /\ UNCHANGED <<real, commits>>
     ELSE UNCHANGED <<files, git>>
  /\ seen' = [tree |-> op.tree, moved |-> HeadMoved, back |-> PutBack,
              outside |-> {p \in Changed(base, Now') : ~Inside(p)}]
  /\ Then([op EXCEPT !.do = "captured"])
  /\ UNCHANGED <<saved, found, stood, fault>>

\* Tree.drop_refs: the run is finished.
DropRefs ==
  /\ Begin(UNCHANGED op) /\ \E n \in DOMAIN ref : ref[n] # None
  /\ ref' = [n \in DOMAIN ref |-> None]
  /\ fault' = Names
  /\ UNCHANGED <<files, git, base, want, tree, store, seen, found, stood>>

\* The process is killed; the run may be resumed.
Crash ==
  /\ op # Idle /\ count.crashes < MaxCrashes
  /\ count' = [count EXCEPT !.crashes = @ + 1]
  /\ fault' = IF op.do = "name" THEN fault \cup {op.name} ELSE fault
  /\ Ends /\ UNCHANGED <<files, git, saved, seen, found, stood>>

-----------------------------------------------------------------------------
Init ==
  /\ \E w \in Found : files = w.files /\ index = w.index
       /\ commits = [main |-> w.main, side |-> w.side] /\ real = w.real
  /\ head = "main" /\ want = NoBranch /\ base = None
  /\ tree = [n \in Names |-> None] /\ ref = [n \in Names \cup {"base"} |-> None]
  /\ store = Reachable
  /\ seen = None /\ op = Idle
  /\ found = None /\ stood = [n \in Names |-> None] /\ fault = {}
  /\ count = [edits |-> 0, ops |-> 0, crashes |-> 0]

Next ==
  \/ Write \/ Stage \/ Commit \/ CheckOut \/ Collect
  \/ StartKeep \/ StartName
  \/ \E n \in Names : SaveKeep(n) \/ Restore(n)
  \/ SaveName
  \/ \E p \in Paths : RestoreDelete(p) \/ RestoreWrite(p)
  \/ RestoreClear \/ RestoreEnds \/ Returns
  \/ Capture \/ CaptureScope
  \/ DropRefs \/ Crash

Spec == Init /\ [][Next]_vars
-----------------------------------------------------------------------------
\* The paths `git add -A` and the drop of the sensitive ones decide alone,
\* whatever the project's index holds.
Plain == Paths \ (Ignored \cup Excluded \cup Sensitive)

\* No path whose name is excluded or sensitive is a file at one time and a directory at
\* another: a tracked file whose name is excluded, with a directory in its place, stays
\* in the snapshot and cannot be deleted.
SecretsAreFiles == \A p \in Excluded \cup Sensitive : Children(p) = {}

\* A restore that returns has put every path of the saved state back and left
\* alone the ignored and the sensitive files, but for those below a path the
\* saved state has a file at.  It raises only when somebody edited the
\* workspace or the index under it, or had git track an ignored or excluded
\* path otherwise than at the save.
RestoreIsExact ==
  /\ op.do = "restored" /\ ~op.touched =>
       LET t == tree[op.name] IN
       \A p \in Paths :
         \/ p \in Plain /\ files[p] = t[p]
         \/ p \notin Plain /\ files[p] \in {op.before[p], t[p]}
         \/ p \notin Plain /\ \E d \in Parents(p) : t[d] # Absent
  /\ op.do = "failed" =>
       op.touched \/ \E p \in Ignored \cup Excluded : index[p] # stood[op.name][p]

\* A diff a role is shown is of the workspace it is left with, unless HEAD was
\* put back in between, and names a plain path just when its content is not
\* the one the run found: neither a commit, nor `git add`, nor the operator's
\* own uncommitted work changes that.  No sensitive path is ever in a state.
DiffIsTheWork ==
  /\ op.do = "captured" /\ ~op.touched /\ ~seen.back =>
       /\ seen.tree = Now
       /\ Changed(base, seen.tree) \cap Plain = {p \in Plain : files[p] # found[p]}
  /\ \A t \in {tree[n] : n \in Names} \cup {base} :
       t # None => \A p \in Sensitive : t[p] = Absent

\* The trees a run may put back survive `git gc`, but for a save cut off
\* between its ref and its file, and for a run that has dropped its refs.
SavedIsKept ==
  /\ \A n \in Names : tree[n] \notin store \cup {None} =>
       n \in fault \/ (op.do = "name" /\ op.name = n)
  /\ base \notin store \cup {None} => ref["base"] = None

\* A state a run may put back is there to be put back, and putting it back is exact
\* (save_tree, restore_tree).
SavedComesBack == SavedIsKept /\ RestoreIsExact
=============================================================================
