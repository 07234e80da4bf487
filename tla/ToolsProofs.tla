----------------------------- MODULE ToolsProofs -----------------------------
(***************************************************************************)
(* What holds of the tools beside the agents for every value of their      *)
(* constants: Download, RoleReuse, BenchArms and SweepVerdict.  They share *)
(* nothing, and each has its inductive invariant in a section of its own.  *)
(***************************************************************************)
EXTENDS Download, RoleReuse, BenchArms, SweepVerdict, FiniteSetTheorems, SequenceTheorems,
        NaturalsInduction, WellFoundedInduction, TLAPS

-----------------------------------------------------------------------------
(* Download *)

(* The inductive invariant, by what each part is about *)

Elements(s) == {s[i] : i \in 1..Len(s)}
Apart(s) == \A i, j \in 1..Len(s) : i # j => s[i] # s[j]

\* A run works on the first file that is left.
AtFile == {"look", "seen", "unlink", "rename", "get", "move", "check"}
Asked == AtFile \ {"look"}
Works == AtFile \cup {"prune", "done"}

Meta == [size : {Size[c] : c \in Versions} \cup {Unlisted}, sha : Versions \cup {Unlisted}]

FilesType ==
  /\ target \in [Files -> Contents \cup {NoFile}] /\ backup \in [Files -> Contents \cup {NoFile}]
  /\ cache \in [Files -> Contents \cup {NoFile}] /\ hub \in [Files -> Versions]
RunType ==
  /\ doing \in AtFile \cup {"prune", "done", "off"}
  /\ meta \in Meta /\ said \in [Files -> Meta]
  /\ verified \in [Files -> Versions \cup {Unlisted, NoFile}]
  /\ kept \subseteq Files

\* What is left to fetch: each file once, and one as long as one is under way.
Left ==
  /\ left \in Seq(Files) /\ Apart(left)
  /\ doing \in AtFile => left # <<>>
  /\ doing \in {"prune", "done"} => left = <<>>

\* What is done with the file under way follows from what was asked of it.
UnderWay ==
  /\ doing \in Asked => meta = said[f1]
  /\ doing \in {"unlink", "rename", "check"} => target[f1] # NoFile
  /\ doing = "move" => cache[f1] # NoFile

\* Nothing is said yet of the files that are left; each other file is as the property has it.
Waiting == doing \in Works => \A f \in Elements(left) : f \notin kept /\ verified[f] = NoFile
Printed == doing \in Works => \A f \in Files : verified[f] # NoFile => verified[f] = target[f] /\ f \notin kept
Announced(f) ==
  \/ f \in kept /\ ~env.redo
  \/ /\ target[f] # NoFile
     /\ said[f].size \in {Unlisted, Size[target[f]]}
     /\ said[f].sha # Unlisted /\ ~env.skip => said[f].sha = target[f]
Settled == doing \in Works => \A f \in Elements(Todo(env)) : f \in Elements(left) \/ Announced(f)

\* A whole copy is the model, or its .superseded while the model is away.
Safe ==
  /\ hadWhole \subseteq Files
  /\ \A f \in hadWhole \ harmed : target[f] \in Versions \/ (target[f] = NoFile /\ backup[f] \in Versions)

DownloadInv == FilesType /\ RunType /\ Left /\ UnderWay /\ Waiting /\ Printed /\ Settled /\ Safe

-----------------------------------------------------------------------------
(* Sequences *)

\* What is left after the first: one element fewer, still each once.
LEMMA Rest ==
  ASSUME NEW s \in Seq(Files), s # <<>>, Apart(s)
  PROVE  /\ Head(s) \in Files /\ Head(s) \in Elements(s) /\ Elements(s) \subseteq Files
         /\ Tail(s) \in Seq(Files) /\ Apart(Tail(s)) /\ Elements(Tail(s)) = Elements(s) \ {Head(s)}
         /\ Len(s) > 1 <=> Tail(s) # <<>>
<1>1. Len(s) \in Nat \ {0} /\ Head(s) = s[1] /\ \A i \in 1..Len(s) : s[i] \in Files
  OBVIOUS
<1>2. Tail(s) \in Seq(Files) /\ Len(Tail(s)) = Len(s) - 1 /\ \A i \in 1..(Len(s) - 1) : Tail(s)[i] = s[i + 1]
  OBVIOUS
<1>3. Apart(Tail(s))
  BY <1>1, <1>2 DEF Apart
<1>4. Elements(Tail(s)) = Elements(s) \ {Head(s)}
  <2>1. ASSUME NEW f \in Elements(Tail(s)) PROVE f \in Elements(s) \ {Head(s)}
    <3>1. PICK i \in 1..(Len(s) - 1) : f = s[i + 1]
      BY <1>2, <2>1 DEF Elements
    <3>2. i + 1 \in 1..Len(s) /\ i + 1 # 1 /\ 1 \in 1..Len(s)
      BY <1>1
    <3> QED
      BY <1>1, <3>1, <3>2 DEF Elements, Apart
  <2>2. ASSUME NEW f \in Elements(s) \ {Head(s)} PROVE f \in Elements(Tail(s))
    <3>1. PICK i \in 1..Len(s) : f = s[i]
      BY <2>2 DEF Elements
    <3>2. i # 1
      BY <1>1, <2>2, <3>1
    <3>3. i - 1 \in 1..Len(Tail(s)) /\ Tail(s)[i - 1] = s[(i - 1) + 1] /\ (i - 1) + 1 = i
      BY <1>1, <1>2, <3>2
    <3> QED
      BY <3>1, <3>3 DEF Elements
  <2> QED
    BY <2>1, <2>2
<1>5. Len(s) > 1 <=> Tail(s) # <<>>
  <2>1. Tail(s) # <<>> => Len(Tail(s)) \in Nat \ {0}
    BY <1>2, EmptySeq
  <2>2. Tail(s) = <<>> => Len(Tail(s)) = 0
    BY EmptySeq
  <2> QED
    BY <1>1, <1>2, <2>1, <2>2
<1>6. Head(s) \in Files /\ Head(s) \in Elements(s) /\ Elements(s) \subseteq Files
  <2>1. 1 \in 1..Len(s)
    BY <1>1
  <2> QED
    BY <1>1, <2>1 DEF Elements
<1> QED
  BY <1>2, <1>3, <1>4, <1>5, <1>6

\* Two sequences of one file, put together.
LEMMA Two == ASSUME NEW a \in Files, NEW b \in Files PROVE <<a>> \o <<b>> = <<a, b>>
<1>1. <<a>> \in Seq(Files) /\ <<b>> \in Seq(Files) /\ <<a, b>> \in Seq(Files)
      /\ Len(<<a>>) = 1 /\ Len(<<b>>) = 1 /\ Len(<<a, b>>) = 2
  OBVIOUS
<1>2. <<a>> \o <<b>> \in Seq(Files) /\ Len(<<a>> \o <<b>>) = 2
      /\ (<<a>> \o <<b>>)[1] = a /\ (<<a>> \o <<b>>)[2] = b
  BY <1>1, ConcatProperties
<1>3. \A i \in 1..2 : (<<a>> \o <<b>>)[i] = <<a, b>>[i]
  <2>1. \A i \in 1..2 : i = 1 \/ i = 2
    OBVIOUS
  <2> QED
    BY <1>2, <2>1
<1> QED
  BY <1>1, <1>2, <1>3, SeqEqual

\* Three sequences of one file, put together.
LEMMA Three ==
  ASSUME NEW a \in Files, NEW b \in Files, NEW c \in Files
  PROVE  <<a>> \o <<b>> \o <<c>> = <<a, b, c>>
<1>1. <<c>> \in Seq(Files) /\ <<a, b>> \in Seq(Files) /\ <<a, b, c>> \in Seq(Files)
      /\ Len(<<c>>) = 1 /\ Len(<<a, b>>) = 2 /\ Len(<<a, b, c>>) = 3
  OBVIOUS
<1>2. <<a, b>> \o <<c>> \in Seq(Files) /\ Len(<<a, b>> \o <<c>>) = 3
      /\ (<<a, b>> \o <<c>>)[1] = a /\ (<<a, b>> \o <<c>>)[2] = b /\ (<<a, b>> \o <<c>>)[3] = c
  BY <1>1, ConcatProperties
<1>3. <<a, b>> \o <<c>> = <<a, b, c>>
  <2>1. \A i \in 1..3 : i = 1 \/ i = 2 \/ i = 3
    OBVIOUS
  <2>2. \A i \in 1..3 : (<<a, b>> \o <<c>>)[i] = <<a, b, c>>[i]
    BY <1>2, <2>1
  <2> QED
    BY <1>1, <1>2, <2>2, SeqEqual
<1> QED
  BY <1>3, Two

\* What an environment asks for, the model first.
LEMMA TodoIs ==
  ASSUME NEW e
  PROVE  Todo(e) \in {<<"gguf">>, <<"gguf", "mmproj">>, <<"gguf", "draft">>, <<"gguf", "mmproj",
      "draft">>}
<1> DEFINE m == "mmproj"
           d == "draft"
<1>f. "gguf" \in Files /\ m \in Files /\ d \in Files /\ <<"gguf">> \in Seq(Files) /\ <<"gguf", "mmproj">> \in Seq(Files)
  BY DEF Files
<1>1. CASE m \in e.pins /\ d \in e.pins
  <2>1. Todo(e) = <<"gguf">> \o <<m>> \o <<d>>
    BY <1>1, Zenon DEF Todo
  <2> QED
    BY <2>1, <1>f, Three
<1>2. CASE m \in e.pins /\ d \notin e.pins
  <2>1. Todo(e) = <<"gguf">> \o <<m>> \o <<>>
    BY <1>2, Zenon DEF Todo
  <2>2. <<"gguf">> \o <<m>> = <<"gguf", m>>
    BY <1>f, Two
  <2> QED
    BY <2>1, <2>2, <1>f, ConcatEmptySeq
<1>3. CASE m \notin e.pins /\ d \in e.pins
  <2>1. Todo(e) = <<"gguf">> \o <<>> \o <<d>>
    BY <1>3, Zenon DEF Todo
  <2>2. <<"gguf">> \o <<>> = <<"gguf">> /\ <<"gguf">> \o <<d>> = <<"gguf", d>>
    BY <1>f, Two, ConcatEmptySeq
  <2> QED
    BY <2>1, <2>2
<1>4. CASE m \notin e.pins /\ d \notin e.pins
  <2>1. Todo(e) = <<"gguf">> \o <<>> \o <<>>
    BY <1>4, Zenon DEF Todo
  <2>2. <<"gguf">> \o <<>> = <<"gguf">>
    BY <1>f, ConcatEmptySeq
  <2> QED
    BY <2>1, <2>2
<1> QED
  BY <1>1, <1>2, <1>3, <1>4

\* What a run has to fetch is made of the files that are configured, each once.
LEMMA TodoFiles ==
  ASSUME NEW e
  PROVE  Todo(e) \in Seq(Files) /\ Apart(Todo(e)) /\ Todo(e) # <<>>
<1> DEFINE s == Todo(e)
<1> SUFFICES s \in Seq(Files) /\ Apart(s) /\ s # <<>>
  OBVIOUS
<1> HIDE DEF s
<1> USE DEF Files, Apart
<1>1. CASE s = <<"gguf">>
  BY <1>1
<1>2. CASE s = <<"gguf", "mmproj">>
  BY <1>2
<1>3. CASE s = <<"gguf", "draft">>
  BY <1>3
<1>4. CASE s = <<"gguf", "mmproj", "draft">>
  BY <1>4
<1> QED
  BY <1>1, <1>2, <1>3, <1>4, TodoIs DEF s

-----------------------------------------------------------------------------
(* Steps *)

\* fetch returns: the file that was under way is no longer left.
LEMMA Returned ==
  ASSUME Left, doing \in AtFile, Returns
  PROVE  /\ Left' /\ doing' \in {"look", "prune"} /\ Elements(left') = Elements(left) \ {f1}
         /\ f1 \in Files /\ f1 \in Elements(left) /\ Elements(left) \subseteq Files
<1>1. /\ f1 \in Files /\ f1 \in Elements(left) /\ Elements(left) \subseteq Files
      /\ Tail(left) \in Seq(Files) /\ Apart(Tail(left)) /\ Elements(Tail(left)) = Elements(left) \ {f1}
      /\ Len(left) > 1 <=> Tail(left) # <<>>
  BY Rest DEF Left, f1
<1>2. CASE Len(left) > 1
  BY <1>1, <1>2 DEF Returns, Left
<1>3. CASE ~(Len(left) > 1)
  <2>1. doing' = "prune" /\ left' = <<>> /\ Tail(left) = <<>>
    BY <1>1, <1>3 DEF Returns
  <2> QED
    BY <1>1, <2>1 DEF Left, AtFile
<1> QED
  BY <1>2, <1>3

\* A file is under way, and one of the files.
LEMMA FirstLeft ==
  ASSUME Left, doing \in AtFile
  PROVE  f1 \in Files /\ f1 \in Elements(left) /\ Elements(left) \subseteq Files
  BY Rest DEF Left, f1

\* What the hub answers of a version is a size or Unlisted, and a hash or Unlisted.
LEMMA MetaType == ASSUME NEW c \in Versions PROVE HubAnswers(c) \subseteq Meta
  BY DEF HubAnswers, Meta

\* Two looks at a file: it is what was asked for, or it is not.
LEMMA SaidIs ==
  ASSUME UnderWay, doing \in Asked, FilesType, RunType, f1 \in Files, Verified(f1, target[f1])
  PROVE  /\ ~Matches(target[f1]) => verified' = verified
         /\ \A f \in Files : f # f1 => verified'[f] = verified[f]
         /\ Matches(target[f1]) => verified'[f1] \in {verified[f1], target[f1]}
         /\ Matches(target[f1]) => /\ said[f1].size \in {Unlisted, Size[target[f1]]}
                                   /\ said[f1].sha # Unlisted /\ ~env.skip => said[f1].sha = target[f1]
  BY DEF Verified, Hashed, Matches, UnderWay, RunType

\* The contents of the files.
LEMMA FilesTypeStep ==
  ASSUME FilesType, RunType, Left, DownloadNext
  PROVE  FilesType'
<1> USE DEF onDisk, running, AtFile, Asked, Works, Contents, FilesType
<1>1. ASSUME NEW e \in Envs, BeginRun(e) PROVE FilesType'
  BY <1>1 DEF BeginRun
<1>2. CASE AskHub
  BY <1>2 DEF AskHub
<1>3. CASE LookAt
  BY <1>3 DEF LookAt
<1>4. CASE UnlinkBackup
  BY <1>4 DEF UnlinkBackup
<1>5. CASE RenameStale
  BY <1>5 DEF RenameStale
<1>6. CASE GetFile
  <2>1. f1 \in Files
    BY <1>6, FirstLeft DEF GetFile
  <2>2. hub[f1] \in Contents /\ ({cache[f1]} \ {NoFile}) \subseteq Contents
    BY <2>1
  <2> QED
    BY <1>6, <2>1, <2>2 DEF GetFile
<1>7. CASE GetFails
  BY <1>7 DEF GetFails
<1>8. CASE MoveIntoPlace
  BY <1>8 DEF MoveIntoPlace
<1>9. CASE CheckFetched
  BY <1>9 DEF CheckFetched
<1>10. CASE PruneCache
  BY <1>10 DEF PruneCache
<1>11. CASE EndDownload
  BY <1>11 DEF EndDownload
<1>12. CASE KillDownload
  BY <1>12 DEF KillDownload
<1>13. ASSUME NEW f \in Files, NEW c \in Versions, Replace(f, c) PROVE FilesType'
  BY <1>13 DEF Replace
<1> QED
  BY <1>1, <1>2, <1>3, <1>4, <1>5, <1>6, <1>7, <1>8, <1>9, <1>10, <1>11, <1>12, <1>13 DEF
    DownloadNext

\* The run, and what it was told.
LEMMA RunTypeStep ==
  ASSUME FilesType, RunType, Left, DownloadNext
  PROVE  RunType'
<1> USE DEF onDisk, running, AtFile, Asked, Works, Contents, RunType
<1>1. ASSUME NEW e \in Envs, BeginRun(e) PROVE RunType'
  BY <1>1 DEF BeginRun, Meta
<1>2. CASE AskHub
  <2>1. f1 \in Files /\ hub[f1] \in Versions
    BY <1>2, FirstLeft DEF AskHub, FilesType
  <2>2. meta' \in Meta
    BY <1>2, <2>1, MetaType DEF AskHub
  <2> QED
    BY <1>2, <2>1, <2>2 DEF AskHub
<1>3. CASE LookAt
  <2>1. f1 \in Files /\ verified' \in [Files -> Versions \cup {Unlisted, NoFile}]
    BY <1>3, FirstLeft DEF LookAt, Verified, Meta
  <2>2. doing' \in AtFile \cup {"prune", "done", "off"} /\ kept' \subseteq Files
    BY <1>3, <2>1 DEF LookAt, Returns
  <2> QED
    BY <1>3, <2>1, <2>2 DEF LookAt
<1>4. CASE UnlinkBackup
  BY <1>4 DEF UnlinkBackup
<1>5. CASE RenameStale
  BY <1>5 DEF RenameStale
<1>6. CASE GetFile
  BY <1>6 DEF GetFile
<1>7. CASE GetFails
  BY <1>7 DEF GetFails
<1>8. CASE MoveIntoPlace
  BY <1>8 DEF MoveIntoPlace
<1>9. CASE CheckFetched
  <2>1. f1 \in Files /\ verified' \in [Files -> Versions \cup {Unlisted, NoFile}]
    BY <1>9, FirstLeft DEF CheckFetched, Verified, Meta
  <2> QED
    BY <1>9, <2>1 DEF CheckFetched, Returns
<1>10. CASE PruneCache
  BY <1>10 DEF PruneCache
<1>11. CASE EndDownload
  BY <1>11 DEF EndDownload
<1>12. CASE KillDownload
  BY <1>12 DEF KillDownload
<1>13. ASSUME NEW f \in Files, NEW c \in Versions, Replace(f, c) PROVE RunType'
  BY <1>13 DEF Replace
<1> QED
  BY <1>1, <1>2, <1>3, <1>4, <1>5, <1>6, <1>7, <1>8, <1>9, <1>10, <1>11, <1>12, <1>13 DEF
    DownloadNext

\* The files are taken one after the other.
LEMMA LeftStep ==
  ASSUME FilesType, RunType, Left, DownloadNext
  PROVE  Left'
<1> USE DEF onDisk, running, AtFile, Asked, Works, Contents, Left
<1>1. ASSUME NEW e \in Envs, BeginRun(e) PROVE Left'
  <2>1. CASE Configured(e)
    BY <1>1, <2>1, TodoFiles DEF BeginRun
  <2>2. CASE ~Configured(e)
    BY <1>1, <2>2, EmptySeq DEF BeginRun, Apart
  <2> QED
    BY <2>1, <2>2
<1>2. CASE AskHub
  BY <1>2 DEF AskHub
<1>3. CASE LookAt
  <2>1. CASE Returns
    BY <1>3, <2>1, Returned DEF LookAt
  <2>2. CASE ~Returns
    BY <1>3, <2>2 DEF LookAt
  <2> QED
    BY <2>1, <2>2
<1>4. CASE UnlinkBackup
  BY <1>4 DEF UnlinkBackup
<1>5. CASE RenameStale
  BY <1>5 DEF RenameStale
<1>6. CASE GetFile
  BY <1>6 DEF GetFile
<1>7. CASE GetFails
  BY <1>7 DEF GetFails
<1>8. CASE MoveIntoPlace
  BY <1>8 DEF MoveIntoPlace
<1>9. CASE CheckFetched
  <2>1. CASE Returns
    BY <1>9, <2>1, Returned DEF CheckFetched
  <2>2. CASE ~Returns
    <3>1. doing' = "off" /\ left' = <<>>
      BY <1>9, <2>2 DEF CheckFetched
    <3> QED
      BY <3>1, EmptySeq DEF Apart
  <2> QED
    BY <2>1, <2>2
<1>10. CASE PruneCache
  BY <1>10 DEF PruneCache
<1>11. CASE EndDownload
  BY <1>11 DEF EndDownload
<1>12. CASE KillDownload
  BY <1>12, EmptySeq DEF KillDownload, Apart
<1>13. ASSUME NEW f \in Files, NEW c \in Versions, Replace(f, c) PROVE Left'
  BY <1>13 DEF Replace
<1> QED
  BY <1>1, <1>2, <1>3, <1>4, <1>5, <1>6, <1>7, <1>8, <1>9, <1>10, <1>11, <1>12, <1>13 DEF
    DownloadNext

\* The file under way changes only when it is done with.
LEMMA UnderWayStep ==
  ASSUME FilesType, RunType, Left, UnderWay, DownloadNext
  PROVE  UnderWay'
<1> USE DEF onDisk, running, AtFile, Asked, Works, Contents, UnderWay, f1
<1>1. ASSUME NEW e \in Envs, BeginRun(e) PROVE UnderWay'
  BY <1>1 DEF BeginRun
<1>2. CASE AskHub
  <2>1. f1 \in Files
    BY <1>2, FirstLeft DEF AskHub
  <2> QED
    BY <1>2, <2>1 DEF AskHub, RunType
<1>3. CASE LookAt
  <2>1. CASE Returns
    BY <1>3, <2>1, Returned DEF LookAt
  <2>2. CASE ~Returns
    BY <1>3, <2>2 DEF LookAt
  <2> QED
    BY <2>1, <2>2
<1>4. CASE UnlinkBackup
  BY <1>4 DEF UnlinkBackup
<1>5. CASE RenameStale
  BY <1>5 DEF RenameStale
<1>6. CASE GetFile
  <2>1. f1 \in Files /\ hub[f1] \in Contents /\ f1' = f1
    BY <1>6, FirstLeft DEF GetFile, FilesType
  <2>2. \A c \in Contents \cup ({cache[f1]} \ {NoFile}) : c # NoFile
    BY DownloadAssumption
  <2>3. cache'[f1] # NoFile
    BY <1>6, <2>1, <2>2 DEF GetFile, FilesType
  <2> QED
    BY <1>6, <2>1, <2>3 DEF GetFile
<1>7. CASE GetFails
  BY <1>7 DEF GetFails
<1>8. CASE MoveIntoPlace
  <2>1. f1 \in Files /\ f1' = f1
    BY <1>8, FirstLeft DEF MoveIntoPlace
  <2>2. target'[f1] # NoFile
    BY <1>8, <2>1 DEF MoveIntoPlace, FilesType
  <2> QED
    BY <1>8, <2>1, <2>2 DEF MoveIntoPlace
<1>9. CASE CheckFetched
  <2>1. CASE Returns
    BY <1>9, <2>1, Returned DEF CheckFetched
  <2>2. CASE ~Returns
    BY <1>9, <2>2 DEF CheckFetched
  <2> QED
    BY <2>1, <2>2
<1>10. CASE PruneCache
  BY <1>10 DEF PruneCache
<1>11. CASE EndDownload
  BY <1>11 DEF EndDownload
<1>12. CASE KillDownload
  BY <1>12 DEF KillDownload
<1>13. ASSUME NEW f \in Files, NEW c \in Versions, Replace(f, c) PROVE UnderWay'
  BY <1>13 DEF Replace
<1> QED
  BY <1>1, <1>2, <1>3, <1>4, <1>5, <1>6, <1>7, <1>8, <1>9, <1>10, <1>11, <1>12, <1>13 DEF
    DownloadNext

\* What is set aside is set aside as it was; what comes damaged is known to be.
LEMMA SafeStep ==
  ASSUME FilesType, RunType, Left, UnderWay, Safe, DownloadNext
  PROVE  Safe'
<1> USE DEF onDisk, running, AtFile, Asked, Works, Contents, Safe, FilesType
<1>1. ASSUME NEW e \in Envs, BeginRun(e) PROVE Safe'
  BY <1>1 DEF BeginRun
<1>2. CASE AskHub
  BY <1>2 DEF AskHub
<1>3. CASE LookAt
  BY <1>3 DEF LookAt
<1>4. CASE UnlinkBackup
  <2>1. f1 \in Files
    BY <1>4, FirstLeft DEF UnlinkBackup
  <2> QED
    BY <1>4, <2>1, DownloadAssumption DEF UnlinkBackup, UnderWay
<1>5. CASE RenameStale
  <2>1. f1 \in Files
    BY <1>5, FirstLeft DEF RenameStale
  <2> QED
    BY <1>5, <2>1, DownloadAssumption DEF RenameStale, UnderWay
<1>6. CASE GetFile
  BY <1>6 DEF GetFile
<1>7. CASE GetFails
  BY <1>7 DEF GetFails
<1>8. CASE MoveIntoPlace
  <2>1. f1 \in Files
    BY <1>8, FirstLeft DEF MoveIntoPlace
  <2> QED
    BY <1>8, <2>1, DownloadAssumption DEF MoveIntoPlace, UnderWay
<1>9. CASE CheckFetched
  BY <1>9 DEF CheckFetched
<1>10. CASE PruneCache
  BY <1>10 DEF PruneCache
<1>11. CASE EndDownload
  BY <1>11 DEF EndDownload
<1>12. CASE KillDownload
  BY <1>12 DEF KillDownload
<1>13. ASSUME NEW f \in Files, NEW c \in Versions, Replace(f, c) PROVE Safe'
  BY <1>13 DEF Replace
<1> QED
  BY <1>1, <1>2, <1>3, <1>4, <1>5, <1>6, <1>7, <1>8, <1>9, <1>10, <1>11, <1>12, <1>13 DEF
    DownloadNext

\* Something is said of the file under way only when it is done with.
LEMMA WaitingStep ==
  ASSUME FilesType, RunType, Left, UnderWay, Waiting, DownloadNext
  PROVE  Waiting'
<1> USE DEF onDisk, running, AtFile, Asked, Works, Contents
<1>1. ASSUME NEW e \in Envs, BeginRun(e) PROVE Waiting'
  <2>1. CASE Configured(e)
    <3>1. left' = Todo(e) /\ env' = e /\ Elements(Todo(e)) \subseteq Files
      BY <1>1, <2>1, TodoFiles, Rest DEF BeginRun
    <3>2. kept' = {} /\ \A f \in Files : verified'[f] = NoFile
      BY <1>1 DEF BeginRun
    <3> QED
      BY <3>1, <3>2 DEF Waiting
  <2>2. CASE ~Configured(e)
    BY <1>1, <2>2 DEF BeginRun, Waiting
  <2> QED
    BY <2>1, <2>2
<1>2. CASE AskHub
  BY <1>2 DEF AskHub, Waiting
<1>3. CASE LookAt
  <2>1. f1 \in Files /\ f1 \in Elements(left) /\ Elements(left) \subseteq Files
    BY <1>3, FirstLeft DEF LookAt
  <2>2. ASSUME target[f1] # NoFile
        PROVE  /\ ~Matches(target[f1]) => verified' = verified
               /\ \A f \in Files : f # f1 => verified'[f] = verified[f]
               /\ Matches(target[f1]) => verified'[f1] \in {verified[f1], target[f1]}
               /\ Matches(target[f1]) => /\ said[f1].size \in {Unlisted, Size[target[f1]]}
                                         /\ said[f1].sha # Unlisted /\ ~env.skip => said[f1].sha = target[f1]
    BY <1>3, <2>1, <2>2, SaidIs DEF LookAt
  <2>o. \A f \in Elements(left) : f \notin kept /\ verified[f] = NoFile
    BY <1>3 DEF LookAt, Waiting
  <2>3. CASE Returns
    <3>1. Elements(left') = Elements(left) \ {f1}
      BY <1>3, <2>3, Returned DEF LookAt
    <3>2. /\ target[f1] # NoFile /\ UNCHANGED <<env, said, target>>
          /\ \/ Matches(target[f1]) /\ kept' = kept
             \/ ~Matches(target[f1]) /\ kept' = kept \cup {f1} /\ ~env.redo
      BY <1>3, <2>3 DEF LookAt, UnderWay, Returns
    <3>3. ASSUME NEW f \in Elements(left') PROVE f \notin kept' /\ verified'[f] = NoFile
      BY <2>1, <2>2, <2>o, <3>1, <3>2, <3>3
    <3> QED
      BY <3>3 DEF Waiting
  <2>4. CASE ~Returns
    <3>1. /\ doing' \in {"get", "unlink"} /\ left' = left /\ kept' = kept /\ UNCHANGED <<env, said, target>>
          /\ target[f1] # NoFile => ~Matches(target[f1])
      BY <1>3, <2>4 DEF LookAt
    <3>2. verified' = verified
      BY <1>3, <2>2, <3>1 DEF LookAt
    <3> QED
      BY <2>o, <3>1, <3>2 DEF Waiting
  <2> QED
    BY <2>3, <2>4
<1>4. CASE UnlinkBackup
  BY <1>4 DEF UnlinkBackup, Waiting
<1>5. CASE RenameStale
  BY <1>5 DEF RenameStale, Waiting
<1>6. CASE GetFile
  BY <1>6 DEF GetFile, Waiting
<1>7. CASE GetFails
  BY <1>7 DEF GetFails, Waiting
<1>8. CASE MoveIntoPlace
  BY <1>8 DEF MoveIntoPlace, Waiting
<1>9. CASE CheckFetched
  <2>1. f1 \in Files /\ f1 \in Elements(left) /\ Elements(left) \subseteq Files
    BY <1>9, FirstLeft DEF CheckFetched
  <2>2. ASSUME target[f1] # NoFile
        PROVE  /\ ~Matches(target[f1]) => verified' = verified
               /\ \A f \in Files : f # f1 => verified'[f] = verified[f]
               /\ Matches(target[f1]) => verified'[f1] \in {verified[f1], target[f1]}
               /\ Matches(target[f1]) => /\ said[f1].size \in {Unlisted, Size[target[f1]]}
                                         /\ said[f1].sha # Unlisted /\ ~env.skip => said[f1].sha = target[f1]
    BY <1>9, <2>1, <2>2, SaidIs DEF CheckFetched
  <2>o. \A f \in Elements(left) : f \notin kept /\ verified[f] = NoFile
    BY <1>9 DEF CheckFetched, Waiting
  <2>3. CASE Returns
    <3>1. Elements(left') = Elements(left) \ {f1}
      BY <1>9, <2>3, Returned DEF CheckFetched
    <3>2. /\ target[f1] # NoFile /\ UNCHANGED <<env, said, target>>
          /\ \/ Matches(target[f1]) /\ kept' = kept
             \/ ~Matches(target[f1]) /\ kept' = kept \cup {f1} /\ ~env.redo
      BY <1>9, <2>3 DEF CheckFetched, UnderWay, Returns
    <3>3. ASSUME NEW f \in Elements(left') PROVE f \notin kept' /\ verified'[f] = NoFile
      BY <2>1, <2>2, <2>o, <3>1, <3>2, <3>3
    <3> QED
      BY <3>3 DEF Waiting
  <2>4. CASE ~Returns
    <3>1. doing' = "off"
      BY <1>9, <2>4 DEF CheckFetched
    <3> QED
      BY <3>1 DEF Waiting
  <2> QED
    BY <2>3, <2>4
<1>10. CASE PruneCache
  BY <1>10 DEF PruneCache, Waiting
<1>11. CASE EndDownload
  BY <1>11 DEF EndDownload, Waiting
<1>12. CASE KillDownload
  BY <1>12 DEF KillDownload, Waiting
<1>13. ASSUME NEW f \in Files, NEW c \in Versions, Replace(f, c) PROVE Waiting'
  BY <1>13 DEF Replace, Waiting
<1> QED
  BY <1>1, <1>2, <1>3, <1>4, <1>5, <1>6, <1>7, <1>8, <1>9, <1>10, <1>11, <1>12, <1>13 DEF
    DownloadNext

\* A hash is that of the file in place, which stays in place from then on.
LEMMA PrintedStep ==
  ASSUME FilesType, RunType, Left, UnderWay, Waiting, Printed, DownloadNext
  PROVE  Printed'
<1> USE DEF onDisk, running, AtFile, Asked, Works, Contents
<1>1. ASSUME NEW e \in Envs, BeginRun(e) PROVE Printed'
  <2>1. CASE Configured(e)
    <3>1. left' = Todo(e) /\ env' = e /\ Elements(Todo(e)) \subseteq Files
      BY <1>1, <2>1, TodoFiles, Rest DEF BeginRun
    <3>2. kept' = {} /\ \A f \in Files : verified'[f] = NoFile
      BY <1>1 DEF BeginRun
    <3> QED
      BY <3>1, <3>2 DEF Printed, Waiting, FilesType
  <2>2. CASE ~Configured(e)
    BY <1>1, <2>2 DEF BeginRun, Printed, Waiting, FilesType
  <2> QED
    BY <2>1, <2>2
<1>2. CASE AskHub
  <2>1. f1 \in Files /\ f1 \in Elements(left) /\ Elements(left) \subseteq Files
    BY <1>2, FirstLeft DEF AskHub
  <2> QED
    BY <1>2, <2>1 DEF AskHub, Printed, Waiting, FilesType
<1>3. CASE LookAt
  <2>1. f1 \in Files /\ f1 \in Elements(left) /\ Elements(left) \subseteq Files
    BY <1>3, FirstLeft DEF LookAt
  <2>2. ASSUME target[f1] # NoFile
        PROVE  /\ ~Matches(target[f1]) => verified' = verified
               /\ \A f \in Files : f # f1 => verified'[f] = verified[f]
               /\ Matches(target[f1]) => verified'[f1] \in {verified[f1], target[f1]}
               /\ Matches(target[f1]) => /\ said[f1].size \in {Unlisted, Size[target[f1]]}
                                         /\ said[f1].sha # Unlisted /\ ~env.skip => said[f1].sha = target[f1]
    BY <1>3, <2>1, <2>2, SaidIs DEF LookAt
  <2>o. /\ \A f \in Elements(left) : f \notin kept /\ verified[f] = NoFile
        /\ \A f \in Files : verified[f] # NoFile => verified[f] = target[f] /\ f \notin kept
    BY <1>3 DEF LookAt, Waiting, Printed
  <2>3. CASE Returns
    <3>1. Elements(left') = Elements(left) \ {f1}
      BY <1>3, <2>3, Returned DEF LookAt
    <3>2. /\ target[f1] # NoFile /\ UNCHANGED <<env, said, target>>
          /\ \/ Matches(target[f1]) /\ kept' = kept
             \/ ~Matches(target[f1]) /\ kept' = kept \cup {f1} /\ ~env.redo
      BY <1>3, <2>3 DEF LookAt, UnderWay, Returns
    <3>3. ASSUME NEW f \in Files, verified'[f] # NoFile PROVE verified'[f] = target'[f] /\ f \notin kept'
      <4>1. CASE f = f1
        BY <2>1, <2>2, <2>o, <3>2, <3>3, <4>1
      <4>2. CASE f # f1
        BY <2>1, <2>2, <2>o, <3>2, <3>3, <4>2
      <4> QED
        BY <4>1, <4>2
    <3> QED
      BY <3>3 DEF Printed
  <2>4. CASE ~Returns
    <3>1. /\ doing' \in {"get", "unlink"} /\ left' = left /\ kept' = kept /\ UNCHANGED <<env, said, target>>
          /\ target[f1] # NoFile => ~Matches(target[f1])
      BY <1>3, <2>4 DEF LookAt
    <3>2. verified' = verified
      BY <1>3, <2>2, <3>1 DEF LookAt
    <3> QED
      BY <2>o, <3>1, <3>2 DEF Printed, Waiting, FilesType
  <2> QED
    BY <2>3, <2>4
<1>4. CASE UnlinkBackup
  <2>1. f1 \in Files /\ f1 \in Elements(left) /\ Elements(left) \subseteq Files
    BY <1>4, FirstLeft DEF UnlinkBackup
  <2> QED
    BY <1>4, <2>1 DEF UnlinkBackup, Printed, Waiting, FilesType
<1>5. CASE RenameStale
  <2>1. f1 \in Files /\ f1 \in Elements(left) /\ Elements(left) \subseteq Files
    BY <1>5, FirstLeft DEF RenameStale
  <2> QED
    BY <1>5, <2>1 DEF RenameStale, Printed, Waiting, FilesType
<1>6. CASE GetFile
  <2>1. f1 \in Files /\ f1 \in Elements(left) /\ Elements(left) \subseteq Files
    BY <1>6, FirstLeft DEF GetFile
  <2> QED
    BY <1>6, <2>1 DEF GetFile, Printed, Waiting, FilesType
<1>7. CASE GetFails
  BY <1>7 DEF GetFails, Printed
<1>8. CASE MoveIntoPlace
  <2>1. f1 \in Files /\ f1 \in Elements(left) /\ Elements(left) \subseteq Files
    BY <1>8, FirstLeft DEF MoveIntoPlace
  <2> QED
    BY <1>8, <2>1 DEF MoveIntoPlace, Printed, Waiting, FilesType
<1>9. CASE CheckFetched
  <2>1. f1 \in Files /\ f1 \in Elements(left) /\ Elements(left) \subseteq Files
    BY <1>9, FirstLeft DEF CheckFetched
  <2>2. ASSUME target[f1] # NoFile
        PROVE  /\ ~Matches(target[f1]) => verified' = verified
               /\ \A f \in Files : f # f1 => verified'[f] = verified[f]
               /\ Matches(target[f1]) => verified'[f1] \in {verified[f1], target[f1]}
               /\ Matches(target[f1]) => /\ said[f1].size \in {Unlisted, Size[target[f1]]}
                                         /\ said[f1].sha # Unlisted /\ ~env.skip => said[f1].sha = target[f1]
    BY <1>9, <2>1, <2>2, SaidIs DEF CheckFetched
  <2>o. /\ \A f \in Elements(left) : f \notin kept /\ verified[f] = NoFile
        /\ \A f \in Files : verified[f] # NoFile => verified[f] = target[f] /\ f \notin kept
    BY <1>9 DEF CheckFetched, Waiting, Printed
  <2>3. CASE Returns
    <3>1. Elements(left') = Elements(left) \ {f1}
      BY <1>9, <2>3, Returned DEF CheckFetched
    <3>2. /\ target[f1] # NoFile /\ UNCHANGED <<env, said, target>>
          /\ \/ Matches(target[f1]) /\ kept' = kept
             \/ ~Matches(target[f1]) /\ kept' = kept \cup {f1} /\ ~env.redo
      BY <1>9, <2>3 DEF CheckFetched, UnderWay, Returns
    <3>3. ASSUME NEW f \in Files, verified'[f] # NoFile PROVE verified'[f] = target'[f] /\ f \notin kept'
      <4>1. CASE f = f1
        BY <2>1, <2>2, <2>o, <3>2, <3>3, <4>1
      <4>2. CASE f # f1
        BY <2>1, <2>2, <2>o, <3>2, <3>3, <4>2
      <4> QED
        BY <4>1, <4>2
    <3> QED
      BY <3>3 DEF Printed
  <2>4. CASE ~Returns
    <3>1. doing' = "off"
      BY <1>9, <2>4 DEF CheckFetched
    <3> QED
      BY <3>1 DEF Printed, Waiting, FilesType
  <2> QED
    BY <2>3, <2>4
<1>10. CASE PruneCache
  BY <1>10 DEF PruneCache, Printed
<1>11. CASE EndDownload
  BY <1>11 DEF EndDownload, Printed
<1>12. CASE KillDownload
  BY <1>12 DEF KillDownload, Printed
<1>13. ASSUME NEW f \in Files, NEW c \in Versions, Replace(f, c) PROVE Printed'
  BY <1>13 DEF Replace, Printed
<1> QED
  BY <1>1, <1>2, <1>3, <1>4, <1>5, <1>6, <1>7, <1>8, <1>9, <1>10, <1>11, <1>12, <1>13 DEF
    DownloadNext

\* The file under way is as announced when it is done with.
LEMMA SettledStep ==
  ASSUME FilesType, RunType, Left, UnderWay, Waiting, Settled, DownloadNext
  PROVE  Settled'
<1> USE DEF onDisk, running, AtFile, Asked, Works, Contents
<1>1. ASSUME NEW e \in Envs, BeginRun(e) PROVE Settled'
  <2>1. CASE Configured(e)
    <3>1. left' = Todo(e) /\ env' = e /\ Elements(Todo(e)) \subseteq Files
      BY <1>1, <2>1, TodoFiles, Rest DEF BeginRun
    <3>2. kept' = {} /\ \A f \in Files : verified'[f] = NoFile
      BY <1>1 DEF BeginRun
    <3> QED
      BY <3>1, <3>2 DEF Settled, Announced, FilesType, RunType
  <2>2. CASE ~Configured(e)
    BY <1>1, <2>2 DEF BeginRun, Settled, Announced, FilesType, RunType
  <2> QED
    BY <2>1, <2>2
<1>2. CASE AskHub
  <2>1. f1 \in Files /\ f1 \in Elements(left) /\ Elements(left) \subseteq Files
    BY <1>2, FirstLeft DEF AskHub
  <2> QED
    BY <1>2, <2>1 DEF AskHub, Settled, Announced, FilesType, RunType
<1>3. CASE LookAt
  <2>1. f1 \in Files /\ f1 \in Elements(left) /\ Elements(left) \subseteq Files
    BY <1>3, FirstLeft DEF LookAt
  <2>2. ASSUME target[f1] # NoFile
        PROVE  /\ ~Matches(target[f1]) => verified' = verified
               /\ \A f \in Files : f # f1 => verified'[f] = verified[f]
               /\ Matches(target[f1]) => verified'[f1] \in {verified[f1], target[f1]}
               /\ Matches(target[f1]) => /\ said[f1].size \in {Unlisted, Size[target[f1]]}
                                         /\ said[f1].sha # Unlisted /\ ~env.skip => said[f1].sha = target[f1]
    BY <1>3, <2>1, <2>2, SaidIs DEF LookAt
  <2>o. \A f \in Elements(Todo(env)) : f \in Elements(left) \/ Announced(f)
    BY <1>3 DEF LookAt, Settled
  <2>3. CASE Returns
    <3>1. Elements(left') = Elements(left) \ {f1}
      BY <1>3, <2>3, Returned DEF LookAt
    <3>2. /\ target[f1] # NoFile /\ UNCHANGED <<env, said, target>>
          /\ \/ Matches(target[f1]) /\ kept' = kept
             \/ ~Matches(target[f1]) /\ kept' = kept \cup {f1} /\ ~env.redo
      BY <1>3, <2>3 DEF LookAt, UnderWay, Returns
    <3>3. ASSUME NEW f \in Elements(Todo(env)), f \notin Elements(left') PROVE Announced(f)'
      <4>1. CASE f = f1
        BY <2>1, <2>2, <3>2, <4>1 DEF Announced
      <4>2. CASE f # f1
        BY <2>1, <2>o, <3>1, <3>2, <3>3, <4>2 DEF Announced
      <4> QED
        BY <4>1, <4>2
    <3> QED
      BY <3>2, <3>3 DEF Settled
  <2>4. CASE ~Returns
    <3>1. /\ doing' \in {"get", "unlink"} /\ left' = left /\ kept' = kept /\ UNCHANGED <<env, said, target>>
          /\ target[f1] # NoFile => ~Matches(target[f1])
      BY <1>3, <2>4 DEF LookAt
    <3>2. verified' = verified
      BY <1>3, <2>2, <3>1 DEF LookAt
    <3> QED
      BY <2>o, <3>1, <3>2 DEF Settled, Announced, FilesType, RunType
  <2> QED
    BY <2>3, <2>4
<1>4. CASE UnlinkBackup
  <2>1. f1 \in Files /\ f1 \in Elements(left) /\ Elements(left) \subseteq Files
    BY <1>4, FirstLeft DEF UnlinkBackup
  <2> QED
    BY <1>4, <2>1 DEF UnlinkBackup, Settled, Announced, FilesType, RunType
<1>5. CASE RenameStale
  <2>1. f1 \in Files /\ f1 \in Elements(left) /\ Elements(left) \subseteq Files
    BY <1>5, FirstLeft DEF RenameStale
  <2> QED
    BY <1>5, <2>1 DEF RenameStale, Settled, Announced, FilesType, RunType
<1>6. CASE GetFile
  <2>1. f1 \in Files /\ f1 \in Elements(left) /\ Elements(left) \subseteq Files
    BY <1>6, FirstLeft DEF GetFile
  <2> QED
    BY <1>6, <2>1 DEF GetFile, Settled, Announced, FilesType, RunType
<1>7. CASE GetFails
  BY <1>7 DEF GetFails, Settled, Announced, Left
<1>8. CASE MoveIntoPlace
  <2>1. f1 \in Files /\ f1 \in Elements(left) /\ Elements(left) \subseteq Files
    BY <1>8, FirstLeft DEF MoveIntoPlace
  <2> QED
    BY <1>8, <2>1 DEF MoveIntoPlace, Settled, Announced, FilesType, RunType
<1>9. CASE CheckFetched
  <2>1. f1 \in Files /\ f1 \in Elements(left) /\ Elements(left) \subseteq Files
    BY <1>9, FirstLeft DEF CheckFetched
  <2>2. ASSUME target[f1] # NoFile
        PROVE  /\ ~Matches(target[f1]) => verified' = verified
               /\ \A f \in Files : f # f1 => verified'[f] = verified[f]
               /\ Matches(target[f1]) => verified'[f1] \in {verified[f1], target[f1]}
               /\ Matches(target[f1]) => /\ said[f1].size \in {Unlisted, Size[target[f1]]}
                                         /\ said[f1].sha # Unlisted /\ ~env.skip => said[f1].sha = target[f1]
    BY <1>9, <2>1, <2>2, SaidIs DEF CheckFetched
  <2>o. \A f \in Elements(Todo(env)) : f \in Elements(left) \/ Announced(f)
    BY <1>9 DEF CheckFetched, Settled
  <2>3. CASE Returns
    <3>1. Elements(left') = Elements(left) \ {f1}
      BY <1>9, <2>3, Returned DEF CheckFetched
    <3>2. /\ target[f1] # NoFile /\ UNCHANGED <<env, said, target>>
          /\ \/ Matches(target[f1]) /\ kept' = kept
             \/ ~Matches(target[f1]) /\ kept' = kept \cup {f1} /\ ~env.redo
      BY <1>9, <2>3 DEF CheckFetched, UnderWay, Returns
    <3>3. ASSUME NEW f \in Elements(Todo(env)), f \notin Elements(left') PROVE Announced(f)'
      <4>1. CASE f = f1
        BY <2>1, <2>2, <3>2, <4>1 DEF Announced
      <4>2. CASE f # f1
        BY <2>1, <2>o, <3>1, <3>2, <3>3, <4>2 DEF Announced
      <4> QED
        BY <4>1, <4>2
    <3> QED
      BY <3>2, <3>3 DEF Settled
  <2>4. CASE ~Returns
    <3>1. doing' = "off"
      BY <1>9, <2>4 DEF CheckFetched
    <3> QED
      BY <3>1 DEF Settled, Announced, FilesType, RunType
  <2> QED
    BY <2>3, <2>4
<1>10. CASE PruneCache
  BY <1>10 DEF PruneCache, Settled, Announced, Left
<1>11. CASE EndDownload
  BY <1>11 DEF EndDownload, Settled, Announced, Left
<1>12. CASE KillDownload
  BY <1>12 DEF KillDownload, Settled, Announced, Left
<1>13. ASSUME NEW f \in Files, NEW c \in Versions, Replace(f, c) PROVE Settled'
  BY <1>13 DEF Replace, Settled, Announced, Left
<1> QED
  BY <1>1, <1>2, <1>3, <1>4, <1>5, <1>6, <1>7, <1>8, <1>9, <1>10, <1>11, <1>12, <1>13 DEF
    DownloadNext
-----------------------------------------------------------------------------
(* The theorems *)

\* The volumes that are found, with no run started, satisfy the invariant.
LEMMA DownloadInitInv == ASSUME DownloadInit PROVE DownloadInv
<1>1. FilesType
  <2>1. PICK v \in Volumes : target = v.target /\ hub = v.hub
    BY DEF DownloadInit
  <2>2. v.target \in [Files -> Contents \cup {NoFile}] /\ v.hub \in [Files -> Versions]
    BY <2>1, DownloadAssumption
  <2> QED
    BY <2>1, <2>2 DEF DownloadInit, FilesType
<1>2. RunType
  BY DEF DownloadInit, RunType, Meta
<1>3. Left
  BY EmptySeq DEF DownloadInit, Left, Apart, AtFile
<1>4. UnderWay /\ Waiting /\ Printed /\ Settled
  BY DEF DownloadInit, UnderWay, Waiting, Printed, Settled, Asked, Works, AtFile
<1>5. Safe
  BY DEF DownloadInit, Safe
<1> QED
  BY <1>1, <1>2, <1>3, <1>4, <1>5 DEF DownloadInv

\* A step that leaves the files and the run alone keeps the invariant.
LEMMA DownloadStutters == ASSUME DownloadInv, UNCHANGED downloadVars PROVE DownloadInv'
<1> USE DEF DownloadInv, downloadVars, onDisk, running
<1>1. FilesType' /\ RunType'
  BY DEF FilesType, RunType
<1>2. Left' /\ UnderWay'
  BY DEF Left, Apart, UnderWay, f1
<1>3. Waiting' /\ Printed' /\ Settled'
  BY DEF Waiting, Printed, Settled, Announced
<1>4. Safe'
  BY DEF Safe
<1> QED
  BY <1>1, <1>2, <1>3, <1>4

\* At every point of every run, killed or not, whatever the Hub does: the files
\* and what is known of them have their types, what the run has said of a file
\* is true of the file in place, what it has still to say nothing of is what is
\* left, and a copy that was whole is where the next step will not lose it.
THEOREM DownloadInvariance == DownloadSpec => []DownloadInv
<1>1. ASSUME DownloadInv, [DownloadNext]_downloadVars PROVE DownloadInv'
  <2>1. CASE DownloadNext
    BY <1>1, <2>1, FilesTypeStep, RunTypeStep, LeftStep, UnderWayStep, WaitingStep, PrintedStep,
      SettledStep, SafeStep DEF DownloadInv
  <2>2. CASE UNCHANGED downloadVars
    BY <1>1, <2>2, DownloadStutters
  <2> QED
    BY <1>1, <2>1, <2>2
<1> QED
  BY <1>1, DownloadInitInv, PTL DEF DownloadSpec

\* A download that ends well has left, for each file it was asked for, the bytes
\* the Hub announced or the copy it was not asked to replace, and prints no hash
\* but that of the bytes in place; a whole copy that was in place is never lost,
\* but to a transfer that came damaged.
THEOREM DownloadSafe == DownloadSpec => []DownloadIsSafe
<1>1. DownloadInv => DoneIsAnnounced
  BY EmptySeq DEF DownloadInv, Left, Printed, Settled, Announced, Elements, DoneIsAnnounced, Works,
    AtFile
<1>2. DownloadInv => WholeCopyIsKept
  BY DEF DownloadInv, Safe, WholeCopyIsKept, WholeCopy
<1> QED
  BY <1>1, <1>2, DownloadInvariance, PTL DEF DownloadIsSafe

-----------------------------------------------------------------------------
(* RoleReuse *)

\* The roles a stage may wait for; those of a round past the first differ.
WaitsFor(st, r) ==
  CASE st = "direct+plan" -> {"direct", "plan"}
    [] st = "ideate" -> {"ideate-a", "ideate-b"}
    [] st = "work" -> IF r > 1 THEN {"repair"} ELSE {"solve"}
    [] st \in {"triage", "review", "judge", "manager", "audit"} -> {st}
    [] OTHER -> {}

StageNames == {"direct+plan", "test-0", "ideate", "work", "triage", "review", "judge", "manager", "final", "audit"}

Diff(r) == <<"diff", r>>

IsRecord(rec) ==
  rec = [status |-> rec.status, told |-> rec.told, evidence |-> rec.evidence, seen |-> rec.seen,
         answer |-> rec.answer]

\* A record is of one state of the files: what the role read is what was compared.
OneState(role, r, rec) ==
  \E worker \in {"direct", "solve", "repair"} \X {r}, shown \in BOOLEAN :
    /\ DOMAIN rec.evidence = EvidenceAs(role, r, worker, shown)
    /\ rec.evidence = [f \in DOMAIN rec.evidence |-> rec.evidence[f]]
    /\ DOMAIN rec.seen = NamedAs(role, r, worker, shown)
    /\ rec.seen = [f \in DOMAIN rec.seen |-> rec.seen[f]]
    /\ \A f \in NamedAs(role, r, worker, shown) \cap EvidenceAs(role, r, worker, shown) :
         rec.seen[f] = rec.evidence[f]

\* Records name the diff that was captured last when they were made.
OfDiff(role, r) ==
  CASE role = "review" -> Diff(r) [] role = "repair" -> Diff(r - 1)

\* A review, and a repair, that the sitting has yet to come to.
Due(role, r) ==
  /\ stage \notin {"final", "audit"}
  /\ \/ r > round
     \/ r = round /\ role \in waiting
     \/ r = round /\ role = "review" /\ stage \in {"direct+plan", "test-0", "ideate", "work", "triage"}

ReuseType ==
  /\ DOMAIN files = Names /\ DOMAIN records = Keys
  /\ \A k \in Keys : IsRecord(records[k])
  /\ stage \in StageNames /\ round \in RoundNumbers
  /\ stage \in {"direct+plan", "test-0", "ideate"} => round = 1
  /\ waiting \subseteq WaitsFor(stage, round)
  /\ sitting \in Nat
  /\ \A r \in RoundNumbers : files[Diff(r)] \in Nat /\ files[Diff(r)] <= sitting

\* The diff of the round whose work is looked at was captured in this sitting.
Captured ==
  /\ stage \in {"triage", "review", "judge", "manager"} => files[Diff(round)] = sitting
  /\ stage = "work" /\ round > 1 => files[Diff(round - 1)] = sitting

Recorded ==
  \A role \in Roles, r \in RoundNumbers :
    records[<<role, r>>].status # "none" => OneState(role, r, records[<<role, r>>])

\* What the sitting has yet to come to was recorded with the diff of an earlier one.
Earlier ==
  \A role \in {"review", "repair"}, r \in RoundNumbers :
    /\ records[<<role, r>>].status # "none" /\ (role = "repair" => r > 1) =>
         /\ records[<<role, r>>].evidence[OfDiff(role, r)] \in Nat
         /\ records[<<role, r>>].evidence[OfDiff(role, r)] <= sitting
    /\ records[<<role, r>>].status = "done" /\ (role = "repair" => r > 1) /\ Due(role, r) =>
         records[<<role, r>>].evidence[OfDiff(role, r)] # sitting

ReuseInv == ReuseType /\ Captured /\ Recorded /\ Earlier

-----------------------------------------------------------------------------
\* Rounds are numbered from 1.
LEMMA FirstRound == 1 \in RoundNumbers /\ RoundNumbers \subseteq Nat \ {0} /\ MaxRounds \in RoundNumbers
  BY RoleReuseAssumption DEF RoundNumbers

\* A role that has not run has a record like any other.
LEMMA NoneIsRecord == IsRecord(NoRecord) /\ NoRecord.status = "none"
  BY DEF IsRecord, NoRecord

\* Diffs of different rounds are different files.
LEMMA DiffsApart ==
    ASSUME NEW r \in RoundNumbers
    PROVE  /\ Diff(r) \in Names /\ Diff(r) # Task /\ Diff(r) # Tasks
           /\ \A q : Diff(r) = Diff(q) <=> r = q
           /\ \A q : \A name \in {"tasks-initial", "tasks-before", "direct-check", "direct-diff", "check",
                                "scope", "final-check", "final-diff"} : Diff(r) # <<name, q>>
  BY DEF Diff, Names, RoundNames, Task, Tasks

\* A record made in one reading of the files is of one state of them.
LEMMA OneStateOf ==
    ASSUME NEW role, NEW r, NEW rec, NEW w \in {"direct", "solve", "repair"} \X {r}, NEW s \in BOOLEAN,
           DOMAIN rec.evidence = EvidenceAs(role, r, w, s),
           rec.evidence = [f \in DOMAIN rec.evidence |-> rec.evidence[f]],
           DOMAIN rec.seen = NamedAs(role, r, w, s),
           rec.seen = [f \in DOMAIN rec.seen |-> rec.seen[f]],
           \A f \in NamedAs(role, r, w, s) \cap EvidenceAs(role, r, w, s) : rec.seen[f] = rec.evidence[f]
    PROVE  OneState(role, r, rec)
  BY Zenon DEF OneState

\* A new run has no record, and no diff.
LEMMA ReuseInitInv == ReuseInit => ReuseInv
<1> SUFFICES ASSUME ReuseInit PROVE ReuseInv
  OBVIOUS
<1> USE DEF ReuseInit
<1>1. \A k \in Keys : records[k] = NoRecord /\ records[k].status = "none"
  BY DEF NoRecord
<1>2. \A r \in RoundNumbers : Diff(r) \in Names /\ files[Diff(r)] = 0
  BY DEF Diff, Names, RoundNames, Missing, Prompt, Task
<1>3. ReuseType
  <2>1. DOMAIN files = Names /\ DOMAIN records = Keys /\ waiting \subseteq WaitsFor(stage, round)
    BY DEF WaitsFor
  <2> QED
    BY <1>1, <1>2, <2>1, NoneIsRecord, FirstRound DEF ReuseType, StageNames
<1>4. Captured
  BY DEF Captured
<1>5. \A role \in Roles, r \in RoundNumbers : records[<<role, r>>].status = "none"
  BY <1>1 DEF Keys
<1>6. Recorded /\ Earlier
  BY <1>5 DEF Recorded, Earlier, Roles
<1> QED
  BY <1>3, <1>4, <1>6 DEF ReuseInv

\* Only a reply writes the output of a role, and only a verify the diff of a round.
LEMMA Asks ==
    ASSUME ReuseInv, NEW role \in Roles, Ask(role)
    PROVE  ReuseInv'
<1> DEFINE new == [status |-> "running", told |-> Told(role, round), evidence |-> Evidence(role, round),
                   seen |-> ReadNow(role, round), answer |-> Missing]
<1>1. /\ records' = [records EXCEPT ![<<role, round>>] = new]
      /\ UNCHANGED <<operator, files, saved, stage, round, waiting, sitting, changes>>
  BY DEF Ask
<1>2. /\ new.status = "running" /\ new.evidence = Evidence(role, round)
      /\ new.seen = ReadNow(role, round) /\ IsRecord(new)
  BY DEF IsRecord
<1> HIDE DEF new
<1>3. <<role, round>> \in Keys /\ DOMAIN records = Keys
  BY DEF Keys, ReuseInv, ReuseType
<1>4. \A k \in Keys : records'[k] = IF k = <<role, round>> THEN new ELSE records[k]
  BY <1>1, <1>3
<1>5. ReuseType'
  BY <1>1, <1>2, <1>3, <1>4 DEF ReuseInv, ReuseType, WaitsFor, StageNames
<1>6. Captured'
  BY <1>1 DEF ReuseInv, Captured
<1>7. OneState(role, round, new)
  <2> DEFINE worker == Worker(round)
             shown == round \in saved.sees
  <2>1. worker \in {"direct", "solve", "repair"} \X {round} /\ shown \in BOOLEAN
    BY DEF Worker
  <2>2. /\ DOMAIN new.evidence = EvidenceAs(role, round, worker, shown)
        /\ \A f \in DOMAIN new.evidence : new.evidence[f] = files[f]
        /\ new.evidence = [f \in DOMAIN new.evidence |-> new.evidence[f]]
    BY <1>2 DEF Evidence, EvidenceOf
  <2>3. /\ DOMAIN new.seen = NamedAs(role, round, worker, shown)
        /\ \A f \in DOMAIN new.seen : new.seen[f] = files[f]
        /\ new.seen = [f \in DOMAIN new.seen |-> new.seen[f]]
    BY <1>2 DEF ReadNow, Named
  <2> HIDE DEF worker, shown
  <2> QED
    BY <2>1, <2>2, <2>3, OneStateOf
<1>8. Recorded'
  BY <1>1, <1>3, <1>4, <1>7 DEF ReuseInv, Recorded, Keys
<1>9. ASSUME role \in {"review", "repair"}, role = "repair" => round > 1
      PROVE  new.evidence[OfDiff(role, round)] \in Nat /\ new.evidence[OfDiff(role, round)] <= sitting
  <2>1. OfDiff(role, round) \in DOMAIN new.evidence
    BY <1>2, <1>9 DEF OfDiff, Diff, Evidence, EvidenceOf, EvidenceAs, Work
  <2>2. new.evidence[OfDiff(role, round)] = files[OfDiff(role, round)]
    BY <1>2, <2>1 DEF Evidence
  <2>3. \E r \in RoundNumbers : OfDiff(role, round) = Diff(r)
    BY <1>9, RoleReuseAssumption DEF OfDiff, ReuseInv, ReuseType, RoundNumbers
  <2> QED
    BY <2>2, <2>3 DEF ReuseInv, ReuseType
<1>10. Due(role, round)' = Due(role, round) /\ \A q, r : Due(q, r)' = Due(q, r)
  BY <1>1 DEF Due
<1>11. Earlier'
  BY <1>1, <1>2, <1>3, <1>4, <1>9, <1>10 DEF ReuseInv, Earlier, Keys, Roles
<1> QED
  BY <1>5, <1>6, <1>8, <1>11 DEF ReuseInv

\* A role that answers: its own record and file change, and no record names what it wrote.
LEMMA Replies ==
    ASSUME ReuseInv, NEW role \in Roles, NEW c \in AnswerVersions, Reply(role, c)
    PROVE  ReuseInv'
<1>1. /\ role \in waiting /\ Running(role, round) /\ waiting' = waiting \ {role}
      /\ files' = [files EXCEPT ![<<role, round>>] = c]
      /\ records' = [records EXCEPT ![<<role, round>>].status = "done", ![<<role, round>>].answer = c]
      /\ UNCHANGED <<operator, saved, stage, round, sitting>>
  BY DEF Reply
<1> DEFINE old == records[<<role, round>>]
           new == records'[<<role, round>>]
<1>2. <<role, round>> \in Keys /\ DOMAIN records = Keys /\ IsRecord(old)
  BY DEF Keys, ReuseInv, ReuseType
<1>3. \A k \in Keys : k # <<role, round>> => records'[k] = records[k]
  BY <1>1, <1>2
<1>4. new = [old EXCEPT !.status = "done", !.answer = c]
  BY <1>1, <1>2
<1>5. /\ new.status = "done" /\ new.evidence = old.evidence /\ new.seen = old.seen
      /\ IsRecord(new) /\ old.status = "running"
  <2> HIDE DEF old, new
  <2>1. old = [status |-> old.status, told |-> old.told, evidence |-> old.evidence,
               seen |-> old.seen, answer |-> old.answer]
    BY <1>2 DEF IsRecord
  <2>2. new = [status |-> "done", told |-> old.told, evidence |-> old.evidence,
               seen |-> old.seen, answer |-> c]
    BY <1>4, <2>1
  <2>3. old.status = "running"
    BY <1>1 DEF Running, old
  <2> QED
    BY <2>2, <2>3 DEF IsRecord
<1>6. \A r \in RoundNumbers : Diff(r) # <<role, round>> /\ files'[Diff(r)] = files[Diff(r)]
  BY <1>1 DEF Diff, Roles, ReuseInv, ReuseType, Names, RoundNames
<1>7. ReuseType'
  BY <1>1, <1>2, <1>3, <1>5, <1>6 DEF ReuseInv, ReuseType, WaitsFor, StageNames
<1>8. Captured'
  BY <1>1, <1>6, RoleReuseAssumption DEF ReuseInv, Captured, ReuseType, RoundNumbers
<1>9. Recorded'
  <2> HIDE DEF new, old
  <2>1. OneState(role, round, new)
    <3>1. OneState(role, round, old)
      BY <1>5 DEF ReuseInv, Recorded, ReuseType, old
    <3> QED
      BY <1>5, <3>1 DEF OneState
  <2>2. ASSUME NEW q \in Roles, NEW r \in RoundNumbers, records'[<<q, r>>].status # "none"
        PROVE  OneState(q, r, records'[<<q, r>>])
    <3>1. CASE <<q, r>> = <<role, round>>
      BY <2>1, <3>1 DEF new
    <3>2. CASE <<q, r>> # <<role, round>>
      BY <1>3, <2>2, <3>2 DEF ReuseInv, Recorded, Keys
    <3> QED
      BY <3>1, <3>2
  <2> QED
    BY <2>2 DEF Recorded
<1>10. ASSUME NEW q \in {"review", "repair"}, NEW r \in RoundNumbers, Due(q, r)'
       PROVE  Due(q, r) /\ <<q, r>> # <<role, round>>
  <2>1. stage' = stage /\ round' = round /\ waiting' \subseteq waiting /\ role \notin waiting'
    BY <1>1
  <2>2. role = "review" => stage = "review"
    BY <1>1 DEF ReuseInv, ReuseType, WaitsFor
  <2> QED
    BY <1>10, <2>1, <2>2, FirstRound DEF Due, ReuseInv, ReuseType
<1>11. Earlier'
  <2> HIDE DEF new, old
  <2> SUFFICES ASSUME NEW q \in {"review", "repair"}, NEW r \in RoundNumbers, q = "repair" => r > 1
               PROVE  /\ records'[<<q, r>>].status # "none" =>
                            /\ records'[<<q, r>>].evidence[OfDiff(q, r)] \in Nat
                            /\ records'[<<q, r>>].evidence[OfDiff(q, r)] <= sitting
                      /\ records'[<<q, r>>].status = "done" /\ Due(q, r)' =>
                            records'[<<q, r>>].evidence[OfDiff(q, r)] # sitting
    BY <1>1 DEF Earlier
  <2>1. CASE <<q, r>> = <<role, round>>
    BY <1>5, <1>10, <2>1 DEF ReuseInv, Earlier, new, old
  <2>2. CASE <<q, r>> # <<role, round>>
    <3>1. records'[<<q, r>>] = records[<<q, r>>]
      BY <1>3, <2>2 DEF Keys, Roles
    <3> QED
      BY <1>10, <3>1 DEF ReuseInv, Earlier
  <2> QED
    BY <2>1, <2>2
<1> QED
  BY <1>7, <1>8, <1>9, <1>11 DEF ReuseInv

\* The steps of the orchestrator leave the records alone.  What they must keep: the stage
\* waits for its roles, the diff is this sitting's, and nothing becomes due again.
LEMMA Steps ==
    ASSUME ReuseInv, UNCHANGED <<records, sitting>>,
           stage' \in StageNames, round' \in RoundNumbers,
           stage' \in {"direct+plan", "test-0", "ideate"} => round' = 1,
           waiting' \subseteq WaitsFor(stage', round'),
           DOMAIN files' = Names,
           \A r \in RoundNumbers : files'[Diff(r)] \in {files[Diff(r)], sitting},
           Captured',
           \A q \in {"review", "repair"}, r \in RoundNumbers : Due(q, r)' => Due(q, r)
    PROVE  ReuseInv'
<1>1. ReuseType'
  BY DEF ReuseInv, ReuseType
<1>2. Recorded'
  BY DEF ReuseInv, Recorded
<1>3. Earlier'
  BY DEF ReuseInv, Earlier
<1> QED
  BY <1>1, <1>2, <1>3 DEF ReuseInv

\* A step to another stage keeps the records, and what is due is still due on the same diff.
LEMMA Moves ==
    ASSUME ReuseInv,
           \/ Settle \/ Ideate \/ BeginRound \/ NoProgress \/ Review \/ ReviewDecides \/ AskJudge
           \/ JudgeDecides
           \/ \E s \in CheckStatuses : FinalCheck(s) \/ \E b \in BOOLEAN : TestZero(s, b)
           \/ \E s \in CheckStatuses, c \in AnswerVersions : Verify(s, c)
           \/ \E b \in BOOLEAN : Managed(b)
    PROVE  ReuseInv'
<1> USE DEF ReuseInv
<1>1. CASE Settle
  <2>1. /\ stage = "direct+plan" /\ stage' = "test-0" /\ waiting' = {}
        /\ UNCHANGED <<records, round, sitting>>
        /\ \E x, y, z : files' = [files EXCEPT ![Task] = x, ![Tasks] = y, ![<<"tasks-initial", 1>>] = z]
    BY <1>1, Zenon DEF Settle, Stage
  <2>3. DOMAIN files' = Names /\ \A r \in RoundNumbers : files'[Diff(r)] = files[Diff(r)]
    BY <2>1, DiffsApart DEF ReuseType
  <2>2. Captured' /\ \A q \in {"review", "repair"}, r \in RoundNumbers : Due(q, r)' => Due(q, r)
    BY <2>1 DEF Captured, Due
  <2> QED
    BY <2>1, <2>2, <2>3, Steps DEF ReuseType, StageNames
<1>2. CASE Ideate
  <2>1. /\ stage = "test-0" /\ stage' = "ideate" /\ waiting' \subseteq {"ideate-a", "ideate-b"}
        /\ UNCHANGED <<files, records, round, sitting>>
    BY <1>2 DEF Ideate, Stage
  <2>2. Captured' /\ \A q \in {"review", "repair"}, r \in RoundNumbers : Due(q, r)' => Due(q, r)
    BY <2>1 DEF Captured, Due
  <2> QED
    BY <2>1, <2>2, Steps DEF ReuseType, StageNames, WaitsFor
<1>3. CASE BeginRound
  <2>1. /\ stage = "ideate" /\ round = 1 /\ stage' = "work" /\ waiting' \subseteq {"solve"} /\ round' = 1
        /\ UNCHANGED <<records, sitting>>
        /\ DOMAIN files' = Names /\ \A r \in RoundNumbers : files'[Diff(r)] = files[Diff(r)]
    BY <1>3 DEF BeginRound, StartRound, Stage, ReuseType, Diff
  <2>2. Captured' /\ \A q \in {"review", "repair"}, r \in RoundNumbers : Due(q, r)' => Due(q, r)
    BY <2>1 DEF Captured, Due
  <2> QED
    BY <2>1, <2>2, Steps, FirstRound DEF ReuseType, StageNames, WaitsFor
<1>4. CASE NoProgress
  <2>1. /\ round > 1 /\ round' = round - 1 /\ stage' = "final" /\ waiting' = {}
        /\ UNCHANGED <<files, records, sitting>>
    BY <1>4 DEF NoProgress, Stage
  <2>2. round' \in RoundNumbers
    BY <2>1, RoleReuseAssumption DEF ReuseType, RoundNumbers
  <2>3. Captured' /\ \A q \in {"review", "repair"}, r \in RoundNumbers : Due(q, r)' => Due(q, r)
    BY <2>1 DEF Captured, Due
  <2> QED
    BY <2>1, <2>2, <2>3, Steps DEF ReuseType, StageNames
<1>5. CASE \E s \in CheckStatuses, c \in AnswerVersions : Verify(s, c)
  <2>1. /\ stage = "work" /\ stage' = "triage" /\ waiting' = {"triage"}
        /\ UNCHANGED <<records, round, sitting>>
        /\ DOMAIN files' = Names /\ files'[Diff(round)] = sitting
        /\ \A r \in RoundNumbers : files'[Diff(r)] \in {files[Diff(r)], sitting}
    <3>1. PICK x, y, z : files' = [files EXCEPT ![<<"check", round>>] = x, ![Diff(round)] = sitting,
                                               ![<<"scope", round>>] = z]
      BY <1>5, Zenon DEF Verify, Diff
    <3>2. DOMAIN files' = Names /\ files'[Diff(round)] = sitting
      BY <3>1, DiffsApart DEF ReuseType
    <3>3. \A r \in RoundNumbers : files'[Diff(r)] \in {files[Diff(r)], sitting}
      BY <3>1, DiffsApart DEF ReuseType
    <3> QED
      BY <1>5, <3>2, <3>3 DEF Verify, Stage
  <2>2. Captured' /\ \A q \in {"review", "repair"}, r \in RoundNumbers : Due(q, r)' => Due(q, r)
    BY <2>1 DEF Captured, Due
  <2> QED
    BY <2>1, <2>2, Steps DEF ReuseType, StageNames, WaitsFor
<1>6. CASE Review \/ AskJudge \/ ReviewDecides \/ JudgeDecides
  <2>1. /\ stage \in {"triage", "review", "judge"} /\ stage' \in {"review", "judge", "manager"}
        /\ waiting' = {stage'}
        /\ stage' = "review" => stage = "triage"
        /\ UNCHANGED <<files, records, round, sitting>>
    BY <1>6 DEF Review, AskJudge, ReviewDecides, JudgeDecides, Decided, Stage
  <2>2. Captured' /\ \A q \in {"review", "repair"}, r \in RoundNumbers : Due(q, r)' => Due(q, r)
    BY <2>1 DEF Captured, Due
  <2> QED
    BY <2>1, <2>2, Steps DEF ReuseType, StageNames, WaitsFor
<1>7. CASE \E b \in BOOLEAN : Managed(b)
  <2>1. /\ stage = "manager" /\ UNCHANGED <<records, sitting>>
        /\ DOMAIN files' = Names /\ \A r \in RoundNumbers : files'[Diff(r)] = files[Diff(r)]
        /\ \/ stage' = "final" /\ waiting' = {} /\ round' = round
           \/ round # MaxRounds /\ stage' = "work" /\ waiting' = {"repair"} /\ round' = round + 1
    <3>1. PICK b \in BOOLEAN : Managed(b)
      BY <1>7
    <3>2. /\ stage = "manager" /\ UNCHANGED <<records, sitting>>
          /\ \/ stage' = "final" /\ waiting' = {} /\ round' = round
             \/ round # MaxRounds /\ stage' = "work" /\ waiting' = {"repair"} /\ round' = round + 1
      BY <3>1 DEF Managed, Stage
    <3>3. \E x : \/ files' = [files EXCEPT ![Tasks] = x]
                 \/ files' = [files EXCEPT ![Tasks] = x, ![<<"tasks-before", round + 1>>] = x]
      BY <3>1, Zenon DEF Managed
    <3>4. DOMAIN files' = Names /\ \A r \in RoundNumbers : files'[Diff(r)] = files[Diff(r)]
      BY <3>3, DiffsApart DEF ReuseType
    <3> QED
      BY <3>2, <3>4
  <2>2. round' \in RoundNumbers /\ (stage' = "work" => round' > 1 /\ round' - 1 = round)
    BY <2>1, RoleReuseAssumption DEF ReuseType, RoundNumbers
  <2>3. Captured'
    BY <2>1, <2>2 DEF Captured, ReuseType
  <2>4. ASSUME NEW q \in {"review", "repair"}, NEW r \in RoundNumbers, Due(q, r)' PROVE Due(q, r)
    BY <2>1, <2>2, <2>4, FirstRound DEF Due, ReuseType
  <2> QED
    BY <2>1, <2>2, <2>3, <2>4, Steps DEF ReuseType, StageNames, WaitsFor
<1>8. CASE \E s \in CheckStatuses : FinalCheck(s) \/ \E b \in BOOLEAN : TestZero(s, b)
  <2>1. /\ UNCHANGED <<records, round, sitting>>
        /\ DOMAIN files' = Names /\ \A r \in RoundNumbers : files'[Diff(r)] = files[Diff(r)]
        /\ \/ stage' = "audit" /\ waiting' = {"audit"}
           \/ stage = "test-0" /\ UNCHANGED <<stage, waiting>>
    <3>1. \E x : \/ files' = [files EXCEPT ![<<"final-check", 0>>] = x, ![<<"final-diff", 0>>] = sitting]
                 \/ files' = [files EXCEPT ![<<"direct-check", 1>>] = x, ![<<"direct-diff", 1>>] = sitting]
      BY <1>8, Zenon DEF FinalCheck, TestZero
    <3>2. DOMAIN files' = Names /\ \A r \in RoundNumbers : files'[Diff(r)] = files[Diff(r)]
      BY <3>1, DiffsApart DEF ReuseType
    <3> QED
      BY <1>8, <3>2 DEF FinalCheck, TestZero, Stage
  <2>2. Captured' /\ \A q \in {"review", "repair"}, r \in RoundNumbers : Due(q, r)' => Due(q, r)
    BY <2>1 DEF Captured, Due
  <2> QED
    BY <2>1, <2>2, Steps DEF ReuseType, StageNames, WaitsFor
<1> QED
  BY <1>1, <1>2, <1>3, <1>4, <1>5, <1>6, <1>7, <1>8

\* What a killed sitting leaves is of a sitting before the next.
LEMMA Resumes ==
    ASSUME ReuseInv, ResumeRun
    PROVE  ReuseInv'
<1>1. /\ sitting' = sitting + 1 /\ round' = 1 /\ stage' = "direct+plan" /\ waiting' = {"direct", "plan"}
      /\ records' = [k \in Keys |-> IF records[k].status = "running" THEN NoRecord ELSE records[k]]
      /\ UNCHANGED files
  BY DEF ResumeRun, Stage
<1>2. \A k \in Keys : \/ records'[k] = records[k] /\ records[k].status # "running"
                      \/ records'[k].status = "none" /\ IsRecord(records'[k])
  <2> TAKE k \in Keys
  <2>1. records'[k] = IF records[k].status = "running" THEN NoRecord ELSE records[k]
    BY <1>1
  <2> QED
    BY <2>1, NoneIsRecord
<1>3. DOMAIN records' = Keys
  BY <1>1
<1>4. /\ sitting' = sitting + 1 /\ round' = 1 /\ stage' = "direct+plan" /\ waiting' = {"direct", "plan"}
      /\ UNCHANGED files
  BY <1>1
<1>5. ReuseType'
  BY <1>2, <1>3, <1>4, FirstRound DEF ReuseInv, ReuseType, WaitsFor, StageNames
<1>6. Captured'
  BY <1>4 DEF Captured
<1>7. Recorded'
  BY <1>2 DEF ReuseInv, Recorded, Keys
<1>8. Earlier'
  <2> SUFFICES ASSUME NEW q \in {"review", "repair"}, NEW r \in RoundNumbers, q = "repair" => r > 1,
                      records'[<<q, r>>].status # "none"
               PROVE  /\ records'[<<q, r>>].evidence[OfDiff(q, r)] \in Nat
                      /\ records'[<<q, r>>].evidence[OfDiff(q, r)] <= sitting'
                      /\ records'[<<q, r>>].evidence[OfDiff(q, r)] # sitting'
    BY DEF Earlier
  <2>1. records'[<<q, r>>] = records[<<q, r>>]
    BY <1>2 DEF Keys, Roles
  <2> QED
    BY <1>4, <2>1 DEF ReuseInv, Earlier, ReuseType
<1> QED
  BY <1>5, <1>6, <1>7, <1>8 DEF ReuseInv

\* Every step keeps the invariant of the records.
LEMMA ReuseNextInv == ReuseInv /\ [ReuseNext]_reuseVars => ReuseInv'
<1> SUFFICES ASSUME ReuseInv, [ReuseNext]_reuseVars PROVE ReuseInv'
  OBVIOUS
<1>1. CASE \E role \in Roles : Reuse(role)
  <2>1. /\ UNCHANGED <<files, records, stage, round, sitting>> /\ waiting' \subseteq waiting
    BY <1>1 DEF Reuse
  <2>2. Captured' /\ \A q \in {"review", "repair"}, r \in RoundNumbers : Due(q, r)' => Due(q, r)
    BY <2>1 DEF Captured, Due, ReuseInv
  <2> QED
    BY <2>1, <2>2, Steps DEF ReuseInv, ReuseType
<1>2. CASE \E role \in Roles : Ask(role)
  BY <1>2, Asks
<1>3. CASE \E role \in Roles, c \in AnswerVersions : Reply(role, c)
  BY <1>3, Replies
<1>4. CASE ResumeRun
  BY <1>4, Resumes
<1>5. CASE UNCHANGED reuseVars
  <2>1. Captured' /\ \A q \in {"review", "repair"}, r \in RoundNumbers : Due(q, r)' => Due(q, r)
    BY <1>5 DEF Captured, Due, ReuseInv, reuseVars
  <2> QED
    BY <1>5, <2>1, Steps DEF ReuseInv, ReuseType, reuseVars
<1> QED
  BY <1>1, <1>2, <1>3, <1>4, <1>5, Moves DEF ReuseNext

-----------------------------------------------------------------------------
\* What is compared decides which worker the manager was told of, and whether the judge was
\* shown the check: the files named are those named when the role was asked.
LEMMA SameNames ==
    ASSUME NEW role \in Roles, NEW r \in RoundNumbers,
           NEW w1 \in {"direct", "solve", "repair"} \X {r}, NEW w2 \in {"direct", "solve", "repair"} \X {r},
           NEW s1 \in BOOLEAN, NEW s2 \in BOOLEAN,
           EvidenceAs(role, r, w1, s1) = EvidenceAs(role, r, w2, s2)
    PROVE  NamedAs(role, r, w1, s1) = NamedAs(role, r, w2, s2)
<1>1. CASE role = "manager"
  <2>1. w1 \in EvidenceAs(role, r, w1, s1) /\ w2 \in EvidenceAs(role, r, w2, s2)
    BY <1>1 DEF EvidenceAs
  <2>2. w1 \notin OfRound(r) \cup Work(r) \cup {<<"triage", r>>, <<"review", r>>}
    BY DEF OfRound, Work, Task
  <2>3. w1 = w2
    BY <1>1, <2>1, <2>2 DEF EvidenceAs
  <2> QED
    BY <1>1, <2>3 DEF NamedAs
<1>2. CASE role = "judge"
  <2>1. s1 <=> <<"check", r>> \in EvidenceAs(role, r, w1, s1)
    BY <1>2 DEF EvidenceAs, Task
  <2>2. s2 <=> <<"check", r>> \in EvidenceAs(role, r, w2, s2)
    BY <1>2 DEF EvidenceAs, Task
  <2> QED
    BY <1>2, <2>1, <2>2 DEF NamedAs
<1> QED
  BY <1>1, <1>2 DEF NamedAs, Roles

\* But for scope.txt and the last judge.md, what a role is to read is compared.
LEMMA NamedAreCompared ==
    ASSUME NEW role \in Roles \ {"review", "repair"}, NEW r \in RoundNumbers,
           NEW w \in {"direct", "solve", "repair"} \X {r}, NEW s \in BOOLEAN
    PROVE  NamedAs(role, r, w, s) \subseteq EvidenceAs(role, r, w, s)
  BY DEF NamedAs, EvidenceAs, OfRound, Work, Roles

\* In a state of the invariant, what a step reuses is current.
LEMMA ReuseStepIsCurrent ==
    ASSUME ReuseInv, NEW role \in Roles, sitting' = sitting, role \in waiting \ waiting',
           records[<<role, round>>].status = "done", [ReuseNext]_reuseVars
    PROVE  records[<<role, round>>].seen = ReadNow(role, round)
<1> DEFINE rec == records[<<role, round>>]
<1>1. Reuse(role)
  <2>1. waiting # {} /\ waiting' # waiting
    OBVIOUS
  <2>2. sitting \in Nat
    BY DEF ReuseInv, ReuseType
  <2>3. stage # "final"
    BY <2>1 DEF ReuseInv, ReuseType, WaitsFor
  <2>4. ~Running(role, round)
    BY DEF Running
  <2>5. PICK q \in Roles : Reuse(q) \/ \E c \in AnswerVersions : Reply(q, c)
    <3>1. ~(Settle \/ BeginRound \/ NoProgress \/ Review \/ ReviewDecides \/ AskJudge \/ JudgeDecides)
      BY <2>1 DEF Settle, BeginRound, NoProgress, Review, ReviewDecides, AskJudge, JudgeDecides
    <3>2. ~Ideate
      BY <2>1 DEF Ideate, ReuseInv, ReuseType, WaitsFor
    <3>3. ~\E s \in CheckStatuses : FinalCheck(s) \/ \E b \in BOOLEAN : TestZero(s, b)
      BY <2>1, <2>3 DEF FinalCheck, TestZero
    <3>4. ~(\E s \in CheckStatuses, c \in AnswerVersions : Verify(s, c)) /\ ~\E b \in BOOLEAN : Managed(b)
      BY <2>1 DEF Verify, Managed
    <3>5. ~ResumeRun
      BY <2>2 DEF ResumeRun
    <3>6. ~UNCHANGED reuseVars /\ ~\E q \in Roles : Ask(q)
      BY <2>1 DEF reuseVars, Ask
    <3> QED
      BY <3>1, <3>2, <3>3, <3>4, <3>5, <3>6 DEF ReuseNext
  <2>6. q = role
    BY <2>5 DEF Reuse, Reply
  <2> QED
    BY <2>4, <2>5, <2>6 DEF Reply
<1>2. rec.evidence = Evidence(role, round) /\ rec.status = "done" /\ round \in RoundNumbers
  BY <1>1 DEF Reuse, Cached, ReuseInv, ReuseType
<1>3. role \notin {"review", "repair"}
  <2> SUFFICES ASSUME role \in {"review", "repair"} PROVE FALSE
    OBVIOUS
  <2>1. Due(role, round) /\ (role = "repair" => round > 1)
    BY DEF Due, ReuseInv, ReuseType, WaitsFor
  <2>2. files[OfDiff(role, round)] = sitting
    BY DEF OfDiff, Captured, ReuseInv, ReuseType, WaitsFor
  <2>3. OfDiff(role, round) \in EvidenceOf(role, round)
    BY DEF OfDiff, Diff, EvidenceOf, EvidenceAs, Work
  <2>4. rec.evidence[OfDiff(role, round)] = sitting
    BY <1>2, <2>2, <2>3 DEF Evidence
  <2> QED
    BY <1>2, <2>1, <2>4 DEF ReuseInv, Earlier
<1>4. PICK worker \in {"direct", "solve", "repair"} \X {round}, shown \in BOOLEAN :
        /\ DOMAIN rec.evidence = EvidenceAs(role, round, worker, shown)
        /\ DOMAIN rec.seen = NamedAs(role, round, worker, shown)
        /\ rec.seen = [f \in DOMAIN rec.seen |-> rec.seen[f]]
        /\ \A f \in NamedAs(role, round, worker, shown) \cap EvidenceAs(role, round, worker, shown) :
             rec.seen[f] = rec.evidence[f]
  <2>1. OneState(role, round, rec)
    BY <1>2 DEF ReuseInv, Recorded
  <2> QED
    BY <2>1, Zenon DEF OneState
<1> HIDE DEF rec
<1> DEFINE itsWorker == Worker(round)
           seesCheck == round \in saved.sees
<1>5. itsWorker \in {"direct", "solve", "repair"} \X {round} /\ seesCheck \in BOOLEAN
  BY DEF Worker
<1>6. EvidenceAs(role, round, worker, shown) = EvidenceAs(role, round, itsWorker, seesCheck)
  BY <1>2, <1>4 DEF Evidence, EvidenceOf
<1>7. NamedAs(role, round, worker, shown) = Named(role, round)
  <2>1. Named(role, round) = NamedAs(role, round, itsWorker, seesCheck)
    BY DEF Named
  <2> HIDE DEF itsWorker, seesCheck
  <2> QED
    BY <1>2, <1>5, <1>6, <2>1, SameNames
<1>8. \A f \in DOMAIN rec.seen : rec.seen[f] = files[f]
  <2>1. DOMAIN rec.seen \subseteq DOMAIN rec.evidence
    BY <1>2, <1>3, <1>4, NamedAreCompared
  <2>2. \A f \in DOMAIN rec.evidence : rec.evidence[f] = files[f]
    BY <1>2 DEF Evidence
  <2> QED
    BY <1>4, <2>1, <2>2
<1> QED
  BY <1>4, <1>7, <1>8 DEF ReadNow, rec

\* A resumed run takes over only answers that are of the files as they are.
THEOREM ReuseCurrent == ReuseSpec => ReuseIsCurrent
<1>1. ReuseInv /\ [ReuseNext]_reuseVars =>
        \A role \in Roles : sitting' = sitting /\ role \in waiting \ waiting' /\ records[<<role, round>>].status = "done"
                           => records[<<role, round>>].seen = ReadNow(role, round)
  BY ReuseStepIsCurrent
<1> QED
  BY <1>1, ReuseInitInv, ReuseNextInv, PTL DEF ReuseSpec, ReuseIsCurrent

-----------------------------------------------------------------------------
(* BenchArms *)

RoundsOf == [ok : BOOLEAN, rate : BOOLEAN, reused : BOOLEAN]

BenchType ==
  /\ nonces \in Nat /\ Cardinality(Arms) <= nonces
  /\ DOMAIN slot = Arms /\ DOMAIN took = Arms /\ DOMAIN shape = Arms /\ DOMAIN verdict = Arms
  /\ rounds \in [Arms -> Seq(RoundsOf)]

\* No server has read a prompt that is still to be built.
SlotsRead == \A a \in Arms : slot[a] \in Nat /\ slot[a] <= nonces

BenchInv == BenchType /\ SlotsRead /\ ShapeWasAccepted /\ CacheGuard

\* There are finitely many arms, numbered from 1.
LEMMA ArmsAre == Cardinality(Arms) \in Nat /\ Arms \subseteq 1..Cardinality(Arms)
  BY BenchAssumption, FS_CardinalityType

\* Before the first arm is sent anything, the invariant holds.
LEMMA BenchInitInv == BenchInit => BenchInv
<1> SUFFICES ASSUME BenchInit PROVE BenchInv
  OBVIOUS
<1>0. /\ shape = [a \in Arms |-> <<>>] /\ rounds = [a \in Arms |-> <<>>] /\ verdict = [a \in Arms |-> "none"]
      /\ nonces = Cardinality(Arms) /\ slot = [a \in Arms |-> 0] /\ took = [a \in Arms |-> {}]
  BY DEF BenchInit
<1>1. BenchType
  <2>1. rounds \in [Arms -> Seq(RoundsOf)]
    BY <1>0, EmptySeq
  <2> QED
    BY <1>0, <2>1, ArmsAre DEF BenchType
<1>2. SlotsRead
  BY <1>0, ArmsAre DEF SlotsRead
<1>3. ShapeWasAccepted
  BY <1>0 DEF ShapeWasAccepted
<1>4. CacheGuard
  <2>1. \A a \in Arms : DOMAIN rounds[a] = {} /\ verdict[a] # "works"
    BY <1>0
  <2> QED
    BY <2>1 DEF CacheGuard
<1> QED
  BY <1>1, <1>2, <1>3, <1>4 DEF BenchInv

\* The command line does not change, and with it what an adjustment makes of a request.
LEMMA SameAdjusted ==
    ASSUME option' = option, NEW a, shape'[a] = shape[a]
    PROVE  Adjusted(shape[a])' = Adjusted(shape[a])
<1>1. Full' = Full
  BY DEF Full
<1> QED
  BY <1>1 DEF Adjusted

\* What a request leaves: the prompt in the server's slot, and a request taken if it was ok.
Sent(a, request, prompt, outcome) ==
  /\ DOMAIN slot' = Arms /\ DOMAIN took' = Arms
  /\ \A b \in Arms : slot'[b] = slot[b] \/ (b = a /\ slot'[b] = prompt)
  /\ \A b \in Arms : took[b] \subseteq took'[b]
  /\ outcome = "ok" /\ a \in Arms => request \in took'[a]

\* What sending a prompt is found to be, from its definition.
LEMMA Sends ==
    ASSUME BenchType, NEW a, NEW request, NEW prompt, NEW outcome, Post(a, request, prompt, outcome)
    PROVE  Sent(a, request, prompt, outcome)
  BY DEF Post, Sent, BenchType

\* A step keeps the invariant if it keeps what the arms have, or adds what was measured.
LEMMA Benched ==
    ASSUME BenchInv, UNCHANGED <<servers, option>>,
           nonces' \in {nonces, nonces + 1},
           NEW a, NEW request, NEW prompt, NEW outcome, Sent(a, request, prompt, outcome),
           a \in Arms => prompt \in Nat /\ prompt <= nonces',
           \/ UNCHANGED shape
           \/ \E s : shape' = [shape EXCEPT ![a] = s] /\ (a \in Arms => Adjusted(shape[a])' = request /\ outcome = "ok"),
           \/ UNCHANGED rounds
           \/ \E x \in RoundsOf : rounds' = [rounds EXCEPT ![a] = Append(@, x)] /\ (a \in Arms /\ x.rate => ~x.reused),
           \/ UNCHANGED verdict
           \/ \E v : verdict' = [verdict EXCEPT ![a] = v] /\ (v = "works" => servers[a].reports = "reuse")
    PROVE  BenchInv'
<1> USE DEF BenchInv
<1>1. BenchType'
  <2>1. nonces' \in Nat /\ Cardinality(Arms) <= nonces'
    BY ArmsAre DEF BenchType
  <2>2. rounds' \in [Arms -> Seq(RoundsOf)]
    <3>1. CASE UNCHANGED rounds
      BY <3>1 DEF BenchType
    <3>2. ASSUME NEW x \in RoundsOf, rounds' = [rounds EXCEPT ![a] = Append(@, x)]
          PROVE  rounds' \in [Arms -> Seq(RoundsOf)]
      <4>1. a \in Arms => Append(rounds[a], x) \in Seq(RoundsOf)
        BY AppendProperties DEF BenchType
      <4> QED
        BY <3>2, <4>1 DEF BenchType
    <3> QED
      BY <3>1, <3>2
  <2> QED
    BY <2>1, <2>2 DEF BenchType, Sent
<1>2. SlotsRead'
  BY DEF SlotsRead, Sent, BenchType
<1>3. ShapeWasAccepted'
  <2> SUFFICES ASSUME NEW b \in Arms, shape'[b] # <<>> PROVE Adjusted(shape[b])' \in took'[b]
    BY DEF ShapeWasAccepted
  <2>1. CASE shape'[b] = shape[b]
    <3>1. Adjusted(shape[b])' = Adjusted(shape[b])
      BY <2>1, SameAdjusted
    <3> QED
      BY <2>1, <3>1 DEF ShapeWasAccepted, Sent
  <2>2. CASE shape'[b] # shape[b]
    <3>1. b = a /\ Adjusted(shape[a])' = request /\ outcome = "ok"
      BY <2>2 DEF BenchType
    <3> QED
      BY <3>1 DEF Sent
  <2> QED
    BY <2>1, <2>2
<1>4. CacheGuard'
  <2>1. ASSUME NEW b \in Arms, NEW i \in DOMAIN rounds'[b], rounds'[b][i].rate PROVE ~rounds'[b][i].reused
    <3>1. CASE rounds'[b] = rounds[b]
      BY <2>1, <3>1 DEF CacheGuard
    <3>2. CASE rounds'[b] # rounds[b]
      <4>1. PICK x \in RoundsOf : b = a /\ rounds'[b] = Append(rounds[b], x) /\ (x.rate => ~x.reused)
        BY <3>2 DEF BenchType
      <4>2. rounds[b] \in Seq(RoundsOf)
        BY DEF BenchType
      <4>3. /\ DOMAIN rounds'[b] = 1..Len(rounds[b]) + 1 /\ Len(rounds[b]) \in Nat
            /\ \A j \in 1..Len(rounds[b]) : rounds'[b][j] = rounds[b][j]
            /\ rounds'[b][Len(rounds[b]) + 1] = x
        BY <4>1, <4>2
      <4>4. CASE i = Len(rounds[b]) + 1
        BY <2>1, <4>1, <4>3, <4>4
      <4>5. CASE i # Len(rounds[b]) + 1
        <5>1. i \in 1..Len(rounds[b]) /\ DOMAIN rounds[b] = 1..Len(rounds[b])
          BY <4>2, <4>3, <4>5
        <5> QED
          BY <2>1, <4>3, <5>1 DEF CacheGuard
      <4> QED
        BY <4>4, <4>5
    <3> QED
      BY <3>1, <3>2
  <2>2. ASSUME NEW b \in Arms, verdict'[b] = "works" PROVE servers[b].reports = "reuse"
    BY <2>2 DEF CacheGuard, BenchType
  <2> QED
    BY <2>1, <2>2 DEF CacheGuard
<1> QED
  BY <1>1, <1>2, <1>3, <1>4

\* Every step of a bench keeps its invariant.
LEMMA BenchNextInv == BenchInv /\ [BenchNext]_benchVars => BenchInv'
<1> SUFFICES ASSUME BenchInv, [BenchNext]_benchVars PROVE BenchInv'
  OBVIOUS
<1> USE DEF BenchInv
<1>0. \A request, prompt : UNCHANGED <<slot, took>> => Sent(arm, request, prompt, "400")
  BY DEF Sent, BenchType
<1>1. CASE UNCHANGED benchVars \/ BuildProbe \/ SkipInert
  <2>1. /\ UNCHANGED <<servers, option, shape, rounds, verdict, slot, took>>
        /\ nonces' \in {nonces, nonces + 1}
    BY <1>1 DEF benchVars, BuildProbe, SkipInert, NextPrompt
  <2>2. nonces' \in Nat /\ 0 <= nonces'
    BY <2>1 DEF BenchType
  <2>3. Sent(arm, {}, 0, "400")
    BY <1>0, <2>1
  <2> QED
    BY <2>1, <2>2, <2>3, Benched
<1>2. CASE \E outcome \in {"ok", "400", "fault"} : Warmup(outcome) \/ WarmAgain(outcome)
  <2>1. PICK outcome, request :
          /\ Post(arm, request, NextPrompt, outcome) /\ nonces' = nonces + 1
          /\ UNCHANGED <<servers, option, shape, rounds, verdict>>
    BY <1>2, Zenon DEF Warmup, WarmAgain, NextPrompt
  <2>2. Sent(arm, request, NextPrompt, outcome)
    BY <2>1, Sends
  <2>3. NextPrompt \in Nat /\ NextPrompt <= nonces'
    BY <2>1 DEF NextPrompt, BenchType
  <2> QED
    BY <2>1, <2>2, <2>3, Benched
<1>3. ASSUME NEW outcome \in {"ok", "400", "fault"}, Attempt(outcome) PROVE BenchInv'
  <2>1. PICK a, request, rungs : a = arm /\ request = Adjusted(Rungs) /\ rungs = Rungs
    OBVIOUS
  <2>2. /\ Post(a, request, nonces, outcome)
        /\ UNCHANGED <<servers, option, rounds, verdict, nonces>>
        /\ \/ UNCHANGED shape
           \/ outcome = "ok" /\ shape' = [shape EXCEPT ![a] = rungs]
    BY <1>3, <2>1 DEF Attempt, Kept
  <2>3. Sent(a, request, nonces, outcome)
    BY <2>2, Sends
  <2>4. ASSUME a \in Arms, shape' = [shape EXCEPT ![a] = rungs]
        PROVE  Adjusted(shape[a])' = request
    <3>1. Full' = Full /\ shape'[a] = rungs
      BY <2>2, <2>4 DEF Full, BenchType
    <3>2. request = Adjusted(rungs)
      BY <2>1
    <3> QED
      BY <3>1, <3>2 DEF Adjusted
  <2>5. nonces \in Nat /\ nonces <= nonces'
    BY <2>2 DEF BenchType
  <2> QED
    BY <2>2, <2>3, <2>4, <2>5, Benched
<1>4. ASSUME NEW outcome \in {"ok", "400", "fault"}, Measure(outcome) PROVE BenchInv'
  <2> DEFINE request == Adjusted(shape[arm])
             x == Round(arm, request, NextPrompt, outcome)
  <2>1. /\ Post(arm, request, NextPrompt, outcome) /\ nonces' = nonces + 1
        /\ rounds' = [rounds EXCEPT ![arm] = Append(@, x)]
        /\ UNCHANGED <<servers, option, shape, verdict>>
    BY <1>4 DEF Measure, NextPrompt
  <2>2. Sent(arm, request, NextPrompt, outcome)
    BY <2>1, Sends
  <2>3. NextPrompt \in Nat /\ NextPrompt <= nonces' /\ NextPrompt = nonces + 1
    BY <2>1 DEF NextPrompt, BenchType
  <2>4. x \in RoundsOf
    BY DEF Round, RoundsOf
  <2>5. arm \in Arms /\ x.rate => ~x.reused
    <3>1. arm \in Arms => slot[arm] # NextPrompt
      BY <2>3 DEF SlotsRead, BenchType
    <3>2. x.reused = (slot[arm] = NextPrompt)
      BY DEF Round
    <3> QED
      BY <3>1, <3>2
  <2> QED
    BY <2>1, <2>2, <2>3, <2>4, <2>5, Benched
<1>5. ASSUME NEW outcome \in {"ok", "400", "fault"}, First(outcome) \/ Second(outcome) PROVE BenchInv'
  <2>1. PICK request :
          /\ Post(arm, request, arm, outcome)
          /\ UNCHANGED <<servers, option, shape, rounds, nonces>>
    BY <1>5, Zenon DEF First, Second, ControlPrompt
  <2>2. Sent(arm, request, arm, outcome)
    BY <2>1, Sends
  <2>3. arm \in Arms => arm \in Nat /\ arm <= nonces'
    BY <2>1, ArmsAre DEF BenchType
  <2>4. \/ UNCHANGED verdict
        \/ \E v : verdict' = [verdict EXCEPT ![arm] = v] /\ (v = "works" => servers[arm].reports = "reuse")
    <3>1. CASE First(outcome)
      <4>1. UNCHANGED verdict \/ verdict' = [verdict EXCEPT ![arm] = "inconclusive"]
        BY <3>1 DEF First
      <4> QED
        BY <4>1
    <3>2. CASE Second(outcome)
      <4> DEFINE seen == Reported(arm, Adjusted(shape[arm]), ControlPrompt)
                 v == CASE outcome # "ok" -> "inconclusive" [] seen = "some" /\ outcome = "ok" -> "works"
                        [] OTHER -> seen
      <4>1. verdict' = [verdict EXCEPT ![arm] = v]
        BY <3>2 DEF Second
      <4>2. seen \in {"absent", "some", "zero"} /\ (seen = "some" => servers[arm].reports = "reuse")
        BY DEF Reported
      <4>3. v = "works" => servers[arm].reports = "reuse"
        BY <4>2
      <4> QED
        BY <4>1, <4>3
    <3> QED
      BY <1>5, <3>1, <3>2
  <2> QED
    BY <2>1, <2>2, <2>3, <2>4, Benched
<1> QED
  BY <1>1, <1>2, <1>3, <1>4, <1>5 DEF BenchNext

\* What an arm reports was measured of a request its server took, and no rate is of a prompt
\* it had read.
THEOREM ArmMeasured == BenchSpec => []ArmIsMeasured
<1>1. BenchInv => ArmIsMeasured
  BY DEF BenchInv, ArmIsMeasured
<1> QED
  BY <1>1, BenchInitInv, BenchNextInv, PTL DEF BenchSpec

-----------------------------------------------------------------------------
(* SweepVerdict *)

\* The numbers are well founded.
LEMMA Less == IsWellFoundedOn({ss \in Nat \X Nat : ss[1] < ss[2]}, Nat)
  BY NatLessThanWellFounded DEF OpToRel

\* A set of numbers that is not empty has a least one.
LEMMA Least ==
    ASSUME NEW T, T \subseteq Nat, T # {}
    PROVE  \E x \in T : \A y \in T : x <= y
<1> DEFINE R == {ss \in Nat \X Nat : ss[1] < ss[2]}
<1>1. \A x, y \in Nat : y < x => <<y, x>> \in R
  OBVIOUS
<1>2. PICK x \in T : \A y \in T : ~(<<y, x>> \in R)
  BY Less, WFMin
<1>3. \A y \in T : ~(y < x)
  BY <1>1, <1>2
<1> QED
  BY <1>3

\* A finite set of sets that is not empty has one with the fewest elements.
LEMMA Fewest ==
    ASSUME NEW S, IsFiniteSet(S), NEW T, T \subseteq SUBSET S, T # {}
    PROVE  \E x \in T : \A y \in T : Cardinality(x) <= Cardinality(y)
<1> DEFINE N == {Cardinality(x) : x \in T}
<1>1. N \subseteq Nat /\ N # {}
  BY FS_Subset, FS_CardinalityType
<1>2. PICK n \in N : \A m \in N : n <= m
  <2> HIDE DEF N
  <2> QED
    BY <1>1, Least
<1> QED
  BY <1>2

\* A finite set of numbers that is not empty has a greatest one.
HasGreatest(T) == \E x \in T : \A y \in T : y <= x

\* Max is the greatest number of a finite set.
LEMMA Greatest ==
    ASSUME NEW S, IsFiniteSet(S), S \subseteq Nat, S # {}
    PROVE  Max(S) \in S /\ \A y \in S : y <= Max(S)
<1> DEFINE Bad == {T \in SUBSET S : T # {} /\ ~HasGreatest(T)}
<1>1. Bad = {}
  <2> SUFFICES ASSUME Bad # {} PROVE FALSE
    OBVIOUS
  <2>1. PICK T \in Bad : \A U \in Bad : Cardinality(T) <= Cardinality(U)
    <3>1. Bad \subseteq SUBSET S
      OBVIOUS
    <3> HIDE DEF Bad
    <3> QED
      BY <3>1, Fewest
  <2>2. T \subseteq S /\ T # {} /\ ~HasGreatest(T)
    BY <2>1
  <2>3. PICK t \in T : TRUE
    BY <2>2
  <2>4. Cardinality(T \ {t}) = Cardinality(T) - 1 /\ Cardinality(T) \in Nat
    BY <2>2, FS_Subset, FS_RemoveElement, FS_CardinalityType
  <2>5. T \ {t} \notin Bad
    BY <2>1, <2>4
  <2>6. CASE T \ {t} = {}
    <3>1. \A y \in T : y = t /\ y \in Nat
      BY <2>2, <2>6
    <3> QED
      BY <2>2, <2>3, <3>1 DEF HasGreatest
  <2>7. CASE T \ {t} # {}
    <3>1. HasGreatest(T \ {t})
      BY <2>2, <2>5, <2>7
    <3>2. PICK x \in T \ {t} : \A y \in T \ {t} : y <= x
      BY <3>1 DEF HasGreatest
    <3>3. CASE t <= x
      BY <2>2, <3>2, <3>3 DEF HasGreatest
    <3>4. CASE ~(t <= x)
      <4>1. \A y \in T : y <= t
        BY <2>2, <3>2, <3>4
      <4> QED
        BY <2>2, <2>3, <4>1 DEF HasGreatest
    <3> QED
      BY <3>3, <3>4
  <2> QED
    BY <2>6, <2>7
<1>2. HasGreatest(S)
  BY <1>1
<1>3. \E x \in S : \A y \in S : x >= y
  BY <1>2 DEF HasGreatest
<1> QED
  BY <1>3 DEF Max

\* Min is the least number of a set.
LEMMA Smallest ==
    ASSUME NEW S, S \subseteq Nat, S # {}
    PROVE  Min(S) \in S /\ \A y \in S : Min(S) <= y
<1>1. \E x \in S : \A y \in S : x <= y
  BY Least
<1> QED
  BY <1>1 DEF Min

-----------------------------------------------------------------------------
\* The sum of a finite set's rates is a number.
Sums(pool, S, f) == f = [s \in SUBSET S |-> IF s = {} THEN 0
                                            ELSE LET x == CHOOSE x \in s : TRUE IN f[s \ {x}] + pool[x]]

\* A sum is the value at its set of some function that adds one sample at a time.
LEMMA SumIs ==
    ASSUME NEW pool, NEW S
    PROVE  SumOf(pool, S) = (CHOOSE f : Sums(pool, S, f))[S]
  BY DEF SumOf, FoldSet, MapThenFoldSet, Sums

\* There is such a function: on the empty set it is 0, and one element more is one step more.
LEMMA SumsExist ==
    ASSUME NEW S, IsFiniteSet(S), NEW pool, \A x \in S : pool[x] \in Nat
    PROVE  \E f \in [SUBSET S -> Nat] : Sums(pool, S, f)
<1> DEFINE Pick(s) == CHOOSE x \in s : TRUE
           Upto(n) == {s \in SUBSET S : Cardinality(s) <= n}
           SumsTo(n, f) == /\ f \in [Upto(n) -> Nat]
                           /\ \A s \in Upto(n) :
                                f[s] = IF s = {} THEN 0 ELSE f[s \ {Pick(s)}] + pool[Pick(s)]
           Bad == {n \in Nat : ~\E f : SumsTo(n, f)}
<1>1. \A s \in SUBSET S : IsFiniteSet(s) /\ Cardinality(s) \in Nat /\ Cardinality(s) <= Cardinality(S)
  BY FS_Subset, FS_CardinalityType
<1>2. \A s \in SUBSET S : s # {} =>
        /\ Pick(s) \in s /\ s \ {Pick(s)} \in SUBSET S
        /\ Cardinality(s \ {Pick(s)}) = Cardinality(s) - 1 /\ Cardinality(s) # 0
  <2> SUFFICES ASSUME NEW s \in SUBSET S, s # {}
               PROVE  /\ Pick(s) \in s /\ s \ {Pick(s)} \in SUBSET S
                      /\ Cardinality(s \ {Pick(s)}) = Cardinality(s) - 1 /\ Cardinality(s) # 0
    OBVIOUS
  <2>1. Pick(s) \in s
    OBVIOUS
  <2> HIDE DEF Pick
  <2> QED
    BY <1>1, <2>1, FS_RemoveElement, FS_EmptySet
<1> HIDE DEF Pick
<1>3. Bad = {}
  <2> SUFFICES ASSUME Bad # {} PROVE FALSE
    OBVIOUS
  <2>1. PICK n \in Bad : \A m \in Bad : n <= m
    <3>1. Bad \subseteq Nat
      OBVIOUS
    <3> HIDE DEF Bad
    <3> QED
      BY <3>1, Least
  <2>2. n \in Nat /\ ~\E f : SumsTo(n, f)
    BY <2>1
  <2>3. n # 0
    <3>1. \A s \in Upto(0) : s = {}
      BY <1>1, FS_EmptySet
    <3>2. SumsTo(0, [s \in Upto(0) |-> 0])
      BY <3>1
    <3> HIDE DEF SumsTo
    <3> QED
      BY <2>2, <3>2
  <2>4. n - 1 \in Nat /\ n - 1 \notin Bad
    <3>1. n - 1 \in Nat /\ ~(n <= n - 1)
      BY <2>2, <2>3
    <3> HIDE DEF Bad
    <3> QED
      BY <2>1, <3>1
  <2>5. PICK f : SumsTo(n - 1, f)
    <3> HIDE DEF SumsTo
    <3> QED
      BY <2>4
  <2> DEFINE g == [s \in Upto(n) |-> IF s \in Upto(n - 1) THEN f[s] ELSE f[s \ {Pick(s)}] + pool[Pick(s)]]
  <2>6. ASSUME NEW s \in Upto(n)
        PROVE  g[s] \in Nat /\ g[s] = IF s = {} THEN 0 ELSE g[s \ {Pick(s)}] + pool[Pick(s)]
    <3>1. s # {} => s \ {Pick(s)} \in Upto(n - 1) /\ s \ {Pick(s)} \in Upto(n) /\ pool[Pick(s)] \in Nat
      BY <1>1, <1>2, <2>2
    <3>2. s # {} => g[s \ {Pick(s)}] = f[s \ {Pick(s)}] /\ f[s \ {Pick(s)}] \in Nat
      BY <2>5, <3>1
    <3>3. CASE s \in Upto(n - 1)
      <4>1. g[s] = f[s]
        BY <3>3
      <4>2. f[s] \in Nat /\ f[s] = IF s = {} THEN 0 ELSE f[s \ {Pick(s)}] + pool[Pick(s)]
        BY <2>5, <3>3
      <4> HIDE DEF g
      <4> QED
        BY <3>2, <4>1, <4>2
    <3>4. CASE s \notin Upto(n - 1)
      <4>1. s # {}
        <5>1. Cardinality({}) = 0 /\ {} \in Upto(n - 1)
          BY <2>4, FS_EmptySet
        <5> QED
          BY <3>4, <5>1
      <4>2. g[s] = f[s \ {Pick(s)}] + pool[Pick(s)]
        BY <3>4
      <4> HIDE DEF g
      <4> QED
        BY <3>1, <3>2, <4>1, <4>2
    <3> QED
      BY <3>3, <3>4
  <2>7. SumsTo(n, g)
    <3>1. g = [s \in Upto(n) |-> g[s]]
      OBVIOUS
    <3> HIDE DEF g
    <3> QED
      BY <2>6, <3>1
  <2> HIDE DEF SumsTo
  <2> QED
    BY <2>2, <2>7
<1>4. Cardinality(S) \in Nat /\ Upto(Cardinality(S)) = SUBSET S
  BY <1>1, FS_CardinalityType
<1>5. PICK f : SumsTo(Cardinality(S), f)
  <2> HIDE DEF SumsTo
  <2> QED
    BY <1>3, <1>4
<1>6. Sums(pool, S, f) /\ f \in [SUBSET S -> Nat]
  BY <1>4, <1>5 DEF Sums, Pick
<1> QED
  BY <1>6

\* The sum of rates is a number.
LEMMA SumIsNumber ==
    ASSUME NEW S, IsFiniteSet(S), NEW pool, \A x \in S : pool[x] \in Nat
    PROVE  SumOf(pool, S) \in Nat
<1> DEFINE g == CHOOSE f : Sums(pool, S, f)
<1>1. Sums(pool, S, g)
  BY SumsExist
<1>2. SumOf(pool, S) = g[S]
  BY SumIs
<1> HIDE DEF g
<1> DEFINE Bad == {s \in SUBSET S : g[s] \notin Nat}
<1>3. Bad = {}
  <2> SUFFICES ASSUME Bad # {} PROVE FALSE
    OBVIOUS
  <2>1. PICK s \in Bad : \A t \in Bad : Cardinality(s) <= Cardinality(t)
    <3>1. Bad \subseteq SUBSET S
      OBVIOUS
    <3> HIDE DEF Bad
    <3> QED
      BY <3>1, Fewest
  <2>2. s \subseteq S /\ g[s] \notin Nat
    BY <2>1
  <2> DEFINE x == CHOOSE x \in s : TRUE
  <2>3. s # {} /\ g[s] = g[s \ {x}] + pool[x]
    <3>1. g[s] = IF s = {} THEN 0 ELSE g[s \ {x}] + pool[x]
      BY <1>1, <2>2 DEF Sums
    <3> QED
      BY <2>2, <3>1
  <2>4. x \in s
    BY <2>3
  <2> HIDE DEF x
  <2>5. Cardinality(s \ {x}) = Cardinality(s) - 1 /\ Cardinality(s) \in Nat
    BY <2>2, <2>4, FS_Subset, FS_RemoveElement, FS_CardinalityType
  <2>6. s \ {x} \notin Bad
    BY <2>1, <2>5
  <2>7. g[s \ {x}] \in Nat /\ pool[x] \in Nat
    BY <2>2, <2>4, <2>6
  <2> QED
    BY <2>2, <2>3, <2>7
<1> QED
  BY <1>2, <1>3

-----------------------------------------------------------------------------
\* The permutation test: of all ways to deal the samples out, few are called significant.

\* The distance of a deal is a number.
LEMMA Dealt ==
    ASSUME NEW pool, IsFiniteSet(DOMAIN pool), \A x \in DOMAIN pool : pool[x] \in Nat,
           NEW chosen \in SUBSET DOMAIN pool
    PROVE  Distance(pool, chosen) \in Nat
<1> DEFINE rest == DOMAIN pool \ chosen
           x == Cardinality(rest) * SumOf(pool, chosen)
           y == Cardinality(chosen) * SumOf(pool, rest)
<1>1. IsFiniteSet(chosen) /\ IsFiniteSet(rest)
  BY FS_Subset
<1>2. Cardinality(chosen) \in Nat /\ Cardinality(rest) \in Nat
  BY <1>1, FS_CardinalityType
<1>3. SumOf(pool, chosen) \in Nat /\ SumOf(pool, rest) \in Nat
  BY <1>1, SumIsNumber
<1>4. \A m, n \in Nat : m * n \in Nat
  OBVIOUS
<1>5. x \in Nat /\ y \in Nat
  BY <1>2, <1>3, <1>4
<1>6. Distance(pool, chosen) = IF x >= y THEN x - y ELSE y - x
  BY DEF Distance
<1> HIDE DEF x, y
<1> QED
  BY <1>5, <1>6

\* A product grows with its second factor.
LEMMA Times ==
    ASSUME NEW k \in Nat, NEW m \in Nat, NEW n \in Nat, m <= n
    PROVE  k * m <= k * n /\ k * m \in Nat /\ k * n \in Nat
  OBVIOUS

\* The significant deals of one size are fewer than one in Level: all lie at least as far out as the nearest of them.
LEMMA FewAreSignificant ==
    ASSUME NEW pool, IsFiniteSet(DOMAIN pool), \A x \in DOMAIN pool : pool[x] \in Nat,
           NEW chosen \in SUBSET DOMAIN pool, Significant(pool, chosen)
    PROVE  Level * Cardinality({s \in Splits(pool, Cardinality(chosen)) : Significant(pool, s)})
             < Cardinality(Splits(pool, Cardinality(chosen)))
<1> DEFINE k == Cardinality(chosen)
           All == Splits(pool, k)
           Few == {s \in All : Significant(pool, s)}
           Farther(s) == {t \in All : Distance(pool, t) >= Distance(pool, s)}
           Distances == {Distance(pool, s) : s \in Few}
<1>1. IsFiniteSet(All)
  BY FS_SUBSET, FS_Subset DEF Splits
<1>2. \A s \in All : s \in SUBSET DOMAIN pool /\ Cardinality(s) = k /\ Distance(pool, s) \in Nat
  BY Dealt DEF Splits
<1>3. \A s \in Few : Hits(pool, s) = Cardinality(Farther(s)) /\ Level * Hits(pool, s) < Cardinality(All)
  BY <1>2 DEF Hits, Significant
<1>4. Distances \subseteq Nat /\ Distances # {}
  <2>1. chosen \in All
    BY DEF Splits
  <2> QED
    BY <1>2, <2>1
<1>5. PICK s \in Few : \A t \in Few : Distance(pool, s) <= Distance(pool, t)
  <2>1. PICK d \in Distances : \A e \in Distances : d <= e
    <3> HIDE DEF Distances
    <3> QED
      BY <1>4, Least
  <2> QED
    BY <2>1
<1>6. Few \subseteq Farther(s)
  BY <1>2, <1>5
<1>7. Cardinality(Few) <= Cardinality(Farther(s)) /\ Cardinality(Few) \in Nat /\ Cardinality(Farther(s)) \in Nat
  <2>1. IsFiniteSet(Farther(s))
    BY <1>1, FS_Subset
  <2> HIDE DEF Few, Farther
  <2> QED
    BY <1>6, <2>1, FS_Subset, FS_CardinalityType
<1>8. Level * Cardinality(Few) <= Level * Cardinality(Farther(s))
  BY <1>7, Times, SweepAssumption
<1>9. Level * Cardinality(Farther(s)) < Cardinality(All)
  BY <1>3
<1>10. Cardinality(All) \in Nat /\ Level * Cardinality(Few) \in Nat /\ Level * Cardinality(Farther(s)) \in Nat
  BY <1>1, <1>7, Times, SweepAssumption, FS_CardinalityType
<1> HIDE DEF Few, Farther, All
<1>11. Level * Cardinality(Few) < Cardinality(All)
  BY <1>8, <1>9, <1>10
<1> QED
  BY <1>11 DEF Few, All

-----------------------------------------------------------------------------
SweepType ==
  /\ DOMAIN results \subseteq Cells
  /\ \A a \in DOMAIN results : results[a].rows \in Rows /\ results[a].load \in Loads

SweepInv == SweepType /\ ComparedAlike /\ SignificantIsRare

\* There are finitely many cells that hold results.
LEMMA CellsFinite == SweepType => IsFiniteSet(Data) /\ Data \subseteq Rounds \X Configs
<1>1. IsFiniteSet(Cells)
  BY SweepAssumption, FS_Product DEF Cells
<1> QED
  BY <1>1, FS_Subset DEF SweepType, Data, Cells

\* A cell has finitely many samples, each with a rate.
LEMMA SamplesFinite ==
    ASSUME SweepType, NEW a \in Data
    PROVE  /\ IsFiniteSet(Samples(a))
           /\ \A i \in Samples(a) : results[a].rows[i].tps \in Nat
<1>1. results[a].rows \in Seq([tps : Nat, ok : BOOLEAN])
  BY SweepAssumption DEF SweepType, Data
<1>2. DOMAIN results[a].rows = 1..Len(results[a].rows) /\ Len(results[a].rows) \in Nat
  BY <1>1, LenProperties
<1>3. IsFiniteSet(DOMAIN results[a].rows)
  <2>1. \A n \in Nat : IsFiniteSet(1..n)
    BY FS_Interval
  <2> QED
    BY <1>2, <2>1
<1>4. Samples(a) \subseteq DOMAIN results[a].rows
  BY DEF Samples
<1>5. \A i \in DOMAIN results[a].rows : results[a].rows[i] \in [tps : Nat, ok : BOOLEAN]
  BY <1>1, <1>2, ElementOfSeq
<1> QED
  BY <1>3, <1>4, <1>5, FS_Subset

\* The loads of a round are finitely many numbers.
LEMMA LoadsFinite ==
    ASSUME SweepType, NEW r
    PROVE  IsFiniteSet(LoadsOf(r)) /\ LoadsOf(r) \subseteq Nat
<1> DEFINE A == {x \in Data : x[1] = r /\ results[x].load[1] # NoLoad}
           L(x) == ToSet(results[x].load) \ {NoLoad}
<1>1. IsFiniteSet(A)
  BY CellsFinite, FS_Subset
<1>2. \A x \in A : IsFiniteSet(L(x)) /\ L(x) \subseteq Nat
  <2> SUFFICES ASSUME NEW x \in A PROVE IsFiniteSet(L(x)) /\ L(x) \subseteq Nat
    OBVIOUS
  <2>1. results[x].load \in Nat \X Nat
    BY SweepAssumption DEF SweepType, Data
  <2>2. PICK m \in Nat, n \in Nat : results[x].load = <<m, n>>
    BY <2>1
  <2>3. ToSet(results[x].load) = {m, n}
    BY <2>2 DEF ToSet
  <2>4. IsFiniteSet({m, n})
    <3>1. {m, n} = {m} \cup {n}
      OBVIOUS
    <3>2. IsFiniteSet({m}) /\ IsFiniteSet({n})
      BY FS_Singleton
    <3> QED
      BY <3>1, <3>2, FS_Union
  <2> QED
    BY <2>3, <2>4, FS_Subset
<1>3. LoadsOf(r) = UNION {L(x) : x \in A}
  BY DEF LoadsOf
<1> HIDE DEF A, L
<1>4. IsFiniteSet({L(x) : x \in A})
  <2> DEFINE f == [x \in A |-> L(x)]
  <2>1. f \in Surjection(A, {L(x) : x \in A})
    BY DEF Surjection
  <2> QED
    BY <1>1, <2>1, FS_Surjection
<1>5. IsFiniteSet(UNION {L(x) : x \in A})
  BY <1>2, <1>4, FS_UNION
<1> QED
  BY <1>2, <1>3, <1>5

\* What is pooled for two configurations: finitely many samples, each with a rate.
LEMMA PoolIs ==
    ASSUME SweepType, NEW its, NEW configs
    PROVE  /\ IsFiniteSet(DOMAIN Pool(its, configs))
           /\ \A x \in DOMAIN Pool(its, configs) : Pool(its, configs)[x] \in Nat
<1> DEFINE A == Data \cap (its \X configs)
           S(a) == {a} \X Samples(a)
           P == UNION {S(a) : a \in A}
<1>1. IsFiniteSet(A)
  BY CellsFinite, FS_Subset
<1>2. \A a \in A : IsFiniteSet(S(a))
  BY SamplesFinite, FS_Singleton, FS_Product
<1>3. \A x \in P : \E a \in Data : x[1] = a /\ x[2] \in Samples(a)
  OBVIOUS
<1>4. Pool(its, configs) = [x \in P |-> results[x[1]].rows[x[2]].tps]
  BY DEF Pool
<1>5. \A x \in P : results[x[1]].rows[x[2]].tps \in Nat
  BY <1>3, SamplesFinite
<1>6. IsFiniteSet(P)
  <2> HIDE DEF A, S
  <2> DEFINE f == [a \in A |-> S(a)]
  <2>1. f \in Surjection(A, {S(a) : a \in A})
    BY DEF Surjection
  <2>2. IsFiniteSet({S(a) : a \in A})
    BY <1>1, <2>1, FS_Surjection
  <2> QED
    BY <1>2, <2>2, FS_UNION
<1> HIDE DEF P
<1> QED
  BY <1>4, <1>5, <1>6

\* A round that is not split has its loads within the ratio of one another.
LEMMA Even ==
    ASSUME SweepType, NEW r, ~Split(r), 0 \notin LoadsOf(r), NEW x \in LoadsOf(r), NEW y \in LoadsOf(r),
           x > LoadMax
    PROVE  10 * x < LoadRatio * y
<1>1. IsFiniteSet(LoadsOf(r)) /\ LoadsOf(r) \subseteq Nat /\ LoadsOf(r) # {}
  BY LoadsFinite
<1> DEFINE top == Max(LoadsOf(r))
           low == Min(LoadsOf(r))
<1>2. top \in Nat /\ x <= top
  BY <1>1, Greatest
<1>3. low \in Nat /\ low <= y /\ low # 0
  BY <1>1, Smallest
<1>4. x \in Nat /\ y \in Nat /\ LoadMax \in Nat /\ LoadRatio \in Nat
  BY <1>1, SweepAssumption
<1>5. ~(10 * top >= LoadRatio * low)
  <2>1. Split(r) <=> LoadsOf(r) # {} /\ top > LoadMax /\ low > 0 /\ 10 * top >= LoadRatio * low
    BY DEF Split
  <2> HIDE DEF top, low
  <2>2. top > LoadMax /\ low > 0
    BY <1>2, <1>3, <1>4
  <2> QED
    BY <1>1, <2>1, <2>2
<1> HIDE DEF top, low
<1>6. LoadRatio * low <= LoadRatio * y /\ LoadRatio * low \in Nat /\ LoadRatio * y \in Nat
  BY <1>3, <1>4, Times
<1> QED
  BY <1>2, <1>4, <1>5, <1>6

\* Before the first arm is measured there is no report.
LEMMA SweepInitInv == SweepInit => SweepInv
<1> SUFFICES ASSUME SweepInit PROVE SweepInv
  OBVIOUS
<1>1. SweepType
  <2>1. DOMAIN results = {}
    BY DEF SweepInit
  <2> QED
    BY <2>1 DEF SweepType
<1>2. report.rounds = {} /\ DOMAIN report.verdicts = {}
  BY DEF SweepInit, NoReport
<1> QED
  BY <1>1, <1>2 DEF SweepInv, ComparedAlike, SignificantIsRare

\* A report that is written now is of rounds that were loaded alike, and its verdicts are rare.
LEMMA Compares ==
    ASSUME SweepType, Compare
    PROVE  ComparedAlike' /\ SignificantIsRare'
<1>1. UNCHANGED <<results, keepFirst>>
  BY DEF Compare
<1>2. report'.rounds = Usable /\ report'.seen = Seen
  BY DEF Compare
<1>3. report'.verdicts = [c \in (IF Usable = {} THEN {} ELSE Seen \ {1}) |-> Verdict(Usable, c)]
  BY DEF Compare
<1>4. Data' = Data /\ \A r : LoadsOf(r)' = LoadsOf(r)
  BY <1>1 DEF Data, Samples, LoadsOf
<1>5. ComparedAlike'
  <2> SUFFICES ASSUME NEW r \in Usable
               PROVE  /\ \A c \in Seen : <<r, c>> \in Data
                      /\ \A a, b \in Data : a[1] = r /\ b[1] = r /\ 0 \notin LoadsOf(r) =>
                           \A i, j \in 1..2 :
                             results[a].load[1] # NoLoad /\ results[b].load[1] # NoLoad
                               /\ results[a].load[i] # NoLoad /\ results[b].load[j] # NoLoad
                               /\ results[a].load[i] > LoadMax
                             => 10 * results[a].load[i] < LoadRatio * results[b].load[j]
    BY <1>1, <1>2, <1>4 DEF ComparedAlike
  <2>1. Complete(r) /\ ~Split(r)
    BY DEF Usable
  <2>2. ASSUME NEW a \in Data, a[1] = r, results[a].load[1] # NoLoad, NEW i \in 1..2,
               results[a].load[i] # NoLoad
        PROVE  results[a].load[i] \in LoadsOf(r)
    <3>1. results[a].load \in Nat \X Nat
      BY SweepAssumption DEF SweepType, Data
    <3>2. results[a].load[i] \in ToSet(results[a].load) \ {NoLoad}
      BY <2>2, <3>1 DEF ToSet
    <3> QED
      BY <2>2, <3>2 DEF LoadsOf
  <2> QED
    BY <2>1, <2>2, Even DEF Complete
<1>6. SignificantIsRare'
  <2> SUFFICES ASSUME NEW c, Verdict(Usable, c).significant
               PROVE  LET v == Verdict(Usable, c)
                          splits == Splits(v.pool, v.n)
                      IN  Level * Cardinality({s \in splits : Significant(v.pool, s)}) < Cardinality(splits)
    BY <1>3 DEF SignificantIsRare
  <2> DEFINE pool == Pool(Usable, {1, c})
             its == {x \in DOMAIN pool : x[1][2] = c}
  <2>1. Verdict(Usable, c) = [pool |-> pool, n |-> Cardinality(its), significant |-> Significant(pool, its)]
    BY DEF Verdict
  <2>2. IsFiniteSet(DOMAIN pool) /\ \A x \in DOMAIN pool : pool[x] \in Nat
    BY PoolIs
  <2>3. its \in SUBSET DOMAIN pool
    OBVIOUS
  <2> HIDE DEF pool, its
  <2>4. Significant(pool, its)
    BY <2>1
  <2>5. Level * Cardinality({s \in Splits(pool, Cardinality(its)) : Significant(pool, s)})
          < Cardinality(Splits(pool, Cardinality(its)))
    BY <2>2, <2>3, <2>4, FewAreSignificant
  <2> QED
    BY <2>1, <2>5
<1> QED
  BY <1>5, <1>6

\* The rotation stays among the configurations.
LEMMA ArmIsCell == ASSUME NEW cell \in Cells PROVE Arm(cell) \in Cells
<1> DEFINE n == Cardinality(Configs)
           x == cell[1] + cell[2] - 2
<1>1. n \in Nat \ {0} /\ x \in Nat /\ cell[1] \in Rounds /\ Configs = 1..n
  <2>1. n \in Nat /\ Cardinality(Rounds) \in Nat
    BY SweepAssumption, FS_CardinalityType
  <2>2. cell[1] \in 1..Cardinality(Rounds) /\ cell[2] \in 1..n /\ Configs = 1..n
    BY SweepAssumption DEF Cells
  <2> QED
    BY <2>1, <2>2, SweepAssumption
<1>2. Arm(cell) = <<cell[1], (x % n) + 1>>
  BY DEF Arm
<1> HIDE DEF n, x
<1>3. x % n \in 0..(n - 1)
  BY <1>1
<1>4. (x % n) + 1 \in 1..n
  BY <1>1, <1>3
<1> QED
  BY <1>1, <1>2, <1>4 DEF Cells

\* Every step of a sweep keeps its invariant.
LEMMA SweepNextInv == SweepInv /\ [SweepNext]_sweepVars => SweepInv'
<1> SUFFICES ASSUME SweepInv, [SweepNext]_sweepVars PROVE SweepInv'
  OBVIOUS
<1> USE DEF SweepInv
<1>1. ASSUME report' = NoReport PROVE ComparedAlike' /\ SignificantIsRare'
  <2>1. report'.rounds = {} /\ DOMAIN report'.verdicts = {}
    BY <1>1 DEF NoReport
  <2> QED
    BY <2>1 DEF ComparedAlike, SignificantIsRare
<1>2. CASE \E rows \in Rows, load \in Loads : MeasureArm(rows, load)
  <2>1. next \in Cells /\ Arm(next) \in Cells
    BY <1>2, ArmIsCell DEF MeasureArm
  <2>2. SweepType'
    BY <1>2, <2>1 DEF MeasureArm, SweepType
  <2> QED
    BY <1>1, <1>2, <2>2 DEF MeasureArm
<1>3. CASE ArmFails
  BY <1>1, <1>3 DEF ArmFails, SweepType
<1>4. CASE Compare
  BY <1>4, Compares DEF Compare, SweepType
<1>5. CASE UNCHANGED sweepVars
  <2>1. UNCHANGED <<results, report>>
    BY <1>5 DEF sweepVars
  <2>2. Data' = Data /\ \A r : LoadsOf(r)' = LoadsOf(r)
    BY <2>1 DEF Data, Samples, LoadsOf
  <2>3. ComparedAlike'
    BY <2>1, <2>2 DEF ComparedAlike
  <2>4. SignificantIsRare'
    BY <2>1 DEF SignificantIsRare
  <2> QED
    BY <2>1, <2>3, <2>4 DEF SweepType
<1> QED
  BY <1>2, <1>3, <1>4, <1>5 DEF SweepNext

\* Whenever the results are compared, what is pooled was measured alike, and a difference is
\* called significant in fewer than one of Level ways to deal the samples out.
THEOREM VerdictSound == SweepSpec => []VerdictIsSound
<1>1. SweepInv => VerdictIsSound
  BY DEF SweepInv, VerdictIsSound
<1> QED
  BY <1>1, SweepInitInv, SweepNextInv, PTL DEF SweepSpec

=============================================================================
