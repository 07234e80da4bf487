------------------------------ MODULE Download ------------------------------
(***************************************************************************)
(* scripts/download_model.py: the model, the vision projector and the      *)
(* draft model are put into the models volume.                             *)
(*                                                                         *)
(* A run looks at each file in turn: what is there is kept when it is what *)
(* the Hub serves, kept stale or set aside and fetched again.  The Hub may *)
(* replace a file, or be out of reach, between any two steps; a run may be *)
(* killed between any two.  A content stands for a file's bytes and for    *)
(* their sha256; Size tells which contents have the same length.           *)
(***************************************************************************)
EXTENDS Naturals, Sequences

CONSTANTS
  Versions,     \* the contents the Hub serves
  Damaged,      \* a content nobody published
  Size,         \* the length of each content
  NoFile, Unlisted,
  Volumes,      \* the files found in the volume, with what the Hub serves
  Envs,         \* the environments a run is started with
  MaxDownloads, MaxReplaced, MaxAttempts

VARIABLES
  env,          \* the environment of the run
  doing,        \* the step the run is at
  left,         \* the files left to fetch, the first one under way
  meta,         \* what _remote_meta said of it
  attempt,
  target,       \* the files in the models volume
  backup,       \* their .superseded files
  cache,        \* whole files in .hf-cache
  hub,          \* what the Hub serves
  verified,     \* VERIFIED
  kept,         \* history: the files this run kept though stale
  said,         \* history: what _remote_meta said of each file of this run
  hadWhole,         \* history: a whole copy was in place
  harmed,       \* history: a transfer came damaged and was put in place
  spent         \* the runs and replacements so far

onDisk == <<target, backup, cache>>
running == <<env, doing, left, meta, attempt, verified, kept, said>>
downloadVars == <<running, onDisk, hub, hadWhole, harmed, spent>>

Files == {"gguf", "mmproj", "draft"}
Contents == Versions \cup {Damaged}

ASSUME DownloadAssumption ==
  /\ NoFile \notin Contents
  /\ Volumes \subseteq [target : [Files -> Contents \cup {NoFile}], hub : [Files -> Versions]]
  /\ MaxAttempts \in Nat \ {0}

-----------------------------------------------------------------------------
\* Half a draft pin, or no model, ends a run before it touches anything.
Configured(e) == "gguf" \in e.pins /\ ("draft_repo" \in e.pins <=> "draft" \in e.pins)
Todo(e) ==
  <<"gguf">> \o (IF "mmproj" \in e.pins THEN <<"mmproj">> ELSE <<>>)
             \o (IF "draft" \in e.pins THEN <<"draft">> ELSE <<>>)

\* The size and the sha256 the Hub may publish; neither when out of reach.
HubAnswers(c) == [size : {Size[c], Unlisted}, sha : {c, Unlisted}]

\* _verify is FALSE for a definite mismatch only.
Matches(c) ==
  /\ meta.size \in {Unlisted, Size[c]}
  /\ meta.sha # Unlisted /\ ~env.skip => meta.sha = c
Hashed(c) == meta.sha # Unlisted /\ ~env.skip /\ Matches(c)

\* What _verify adds to VERIFIED.
Verified(f, c) ==
  verified' = IF Hashed(c) THEN [verified EXCEPT ![f] = meta.sha] ELSE verified

WholeCopy(f) == {target[f], backup[f], cache[f]} \cap Versions # {}

DownloadInit ==
  /\ env = [pins |-> {}, redo |-> FALSE, skip |-> FALSE]
  /\ doing = "off" /\ left = <<>> /\ attempt = 0
  /\ meta = [size |-> Unlisted, sha |-> Unlisted]
  /\ \E v \in Volumes : target = v.target /\ hub = v.hub
  /\ backup = [f \in Files |-> NoFile]
  /\ cache = [f \in Files |-> NoFile]
  /\ verified = [f \in Files |-> NoFile]
  /\ said = [f \in Files |-> meta]
  /\ hadWhole = {f \in Files : target[f] \in Versions}
  /\ kept = {} /\ harmed = {}
  /\ spent = [runs |-> 0, replaced |-> 0]

-----------------------------------------------------------------------------
BeginRun(e) ==
  /\ doing = "off" /\ spent.runs < MaxDownloads
  /\ spent' = [spent EXCEPT !.runs = @ + 1]
  /\ env' = e
  /\ IF Configured(e) THEN doing' = "look" /\ left' = Todo(e)
                      ELSE doing' = "off" /\ left' = <<>>
  /\ verified' = [f \in Files |-> NoFile]
  /\ said' = [f \in Files |-> [size |-> Unlisted, sha |-> Unlisted]]
  /\ kept' = {}
  /\ UNCHANGED <<meta, attempt, onDisk, hub, hadWhole, harmed>>

\* The file fetch is called for.
f1 == Head(left)

\* fetch returns: the next file, or the end of the run's cache.
Returns == IF Len(left) > 1 THEN doing' = "look" /\ left' = Tail(left)
                            ELSE doing' = "prune" /\ left' = <<>>

AskHub ==
  /\ doing = "look"
  /\ meta' \in HubAnswers(hub[f1])
  /\ said' = [said EXCEPT ![f1] = meta']
  /\ doing' = "seen"
  /\ attempt' = 0
  /\ UNCHANGED <<env, left, verified, kept, onDisk, hub, hadWhole, harmed, spent>>

\* A file that is there is kept if it is what the Hub serves, or unless
\* REDOWNLOAD_STALE asks for another.
LookAt ==
  /\ doing = "seen"
  /\ \/ /\ target[f1] = NoFile
        /\ doing' = "get"
        /\ UNCHANGED <<left, verified, kept>>
     \/ /\ target[f1] # NoFile
        /\ Verified(f1, target[f1])
        /\ IF Matches(target[f1]) THEN Returns /\ kept' = kept
           ELSE IF ~env.redo THEN Returns /\ kept' = kept \cup {f1}
           ELSE doing' = "unlink" /\ UNCHANGED <<left, kept>>
  /\ UNCHANGED <<env, meta, attempt, said, onDisk, hub, hadWhole, harmed, spent>>

UnlinkBackup ==
  /\ doing = "unlink"
  /\ backup' = [backup EXCEPT ![f1] = NoFile]
  /\ doing' = "rename"
  /\ UNCHANGED <<env, left, meta, attempt, verified, kept, said, target, cache, hub, hadWhole, harmed, spent>>

RenameStale ==
  /\ doing = "rename"
  /\ backup' = [backup EXCEPT ![f1] = target[f1]]
  /\ target' = [target EXCEPT ![f1] = NoFile]
  /\ doing' = "get"
  /\ UNCHANGED <<env, left, meta, attempt, verified, kept, said, cache, hub, hadWhole, harmed, spent>>

\* hf_hub_download checks the length of what it received, not its bytes; a
\* Hub out of reach is served from the cache.
GetFile ==
  /\ doing = "get"
  /\ \E c \in {hub[f1]} \cup {d \in {Damaged} : Size[d] = Size[hub[f1]]}
              \cup ({cache[f1]} \ {NoFile}) :
       cache' = [cache EXCEPT ![f1] = c]
  /\ doing' = "move"
  /\ UNCHANGED <<env, left, meta, attempt, verified, kept, said, target, backup, hub, hadWhole, harmed, spent>>

GetFails ==
  /\ doing = "get"
  /\ attempt' = attempt + 1
  /\ doing' = IF attempt' = MaxAttempts THEN "off" ELSE "get"
  /\ UNCHANGED <<env, left, meta, verified, kept, said, onDisk, hub, hadWhole, harmed, spent>>

MoveIntoPlace ==
  /\ doing = "move"
  /\ target' = [target EXCEPT ![f1] = cache[f1]]
  /\ cache' = [cache EXCEPT ![f1] = NoFile]
  /\ IF cache[f1] \in Versions THEN hadWhole' = hadWhole \cup {f1} /\ UNCHANGED harmed
                              ELSE harmed' = harmed \cup {f1} /\ UNCHANGED hadWhole
  /\ doing' = "check"
  /\ UNCHANGED <<env, left, meta, attempt, verified, kept, said, backup, hub, spent>>

\* Mutant: what was fetched is taken to be what the Hub had announced.
CheckNothing ==
  /\ doing = "check"
  /\ Returns
  /\ UNCHANGED <<env, meta, attempt, verified, kept, said, onDisk, hub, hadWhole, harmed, spent>>

CheckFetched ==
  /\ doing = "check"
  /\ Verified(f1, target[f1])
  /\ IF Matches(target[f1])
     THEN Returns
     ELSE doing' = "off" /\ left' = <<>>
  /\ UNCHANGED <<env, meta, attempt, kept, said, onDisk, hub, hadWhole, harmed, spent>>

PruneCache ==
  /\ doing = "prune"
  /\ cache' = [f \in Files |-> NoFile]
  /\ doing' = "done"
  /\ UNCHANGED <<env, left, meta, attempt, verified, kept, said, target, backup, hub, hadWhole, harmed, spent>>

\* The report is printed and the process ends with 0.
EndDownload ==
  /\ doing = "done"
  /\ doing' = "off"
  /\ UNCHANGED <<env, left, meta, attempt, verified, kept, said, onDisk, hub, hadWhole, harmed, spent>>

KillDownload ==
  /\ doing \notin {"off", "done"}
  /\ doing' = "off" /\ left' = <<>>
  /\ UNCHANGED <<env, meta, attempt, verified, kept, said, onDisk, hub, hadWhole, harmed, spent>>

Replace(f, c) ==
  /\ spent.replaced < MaxReplaced /\ c # hub[f]
  /\ hub' = [hub EXCEPT ![f] = c]
  /\ spent' = [spent EXCEPT !.replaced = @ + 1]
  /\ UNCHANGED <<running, onDisk, hadWhole, harmed>>

DownloadNext ==
  \/ \E e \in Envs : BeginRun(e)
  \/ AskHub \/ LookAt \/ UnlinkBackup \/ RenameStale
  \/ GetFile \/ GetFails \/ MoveIntoPlace \/ CheckFetched
  \/ PruneCache \/ EndDownload \/ KillDownload
  \/ \E f \in Files, c \in Versions : Replace(f, c)

DownloadSpec == DownloadInit /\ [][DownloadNext]_downloadVars

-----------------------------------------------------------------------------
\* A run that ends well leaves, for each file, the bytes the Hub announced
\* when the run came to it, as far as the Hub published them; a file it kept
\* though stale is one nobody asked it to replace.  A hash it prints for
\* versions.lock is that of the bytes on the disk.
DoneIsAnnounced ==
  doing = "done" => \A f \in Files :
    /\ verified[f] # NoFile => verified[f] = target[f] /\ f \notin kept
    /\ f \in {Todo(env)[i] : i \in 1..Len(Todo(env))} =>
         \/ f \in kept /\ ~env.redo
         \/ /\ target[f] # NoFile
            /\ said[f].size \in {Unlisted, Size[target[f]]}
            /\ said[f].sha # Unlisted /\ ~env.skip => said[f].sha = target[f]

\* Once a whole copy of a file was in place there is one in the volume, as
\* the model, as its .superseded or in the cache, whatever is killed when and
\* whatever the Hub does; but one transfer that came damaged and was put in
\* place is enough for the next replacement to delete the older, whole copy.
WholeCopyIsKept == \A f \in hadWhole \ harmed : WholeCopy(f)

\* The volume is never worse off for a download, and is what was asked for after one that
\* ends well.
DownloadIsSafe == DoneIsAnnounced /\ WholeCopyIsKept
=============================================================================
