------------------------------ MODULE CloudDrive -----------------------------
(***************************************************************************)
(* core/cloudrive: CloudDriveService over LocalStorage and OutputRouter,   *)
(* with the share calls of core/api/cloudrive. The drive's metadata,       *)
(* versions and shares are dictionaries in memory; the files are on disk.  *)
(* LocalStorage never suspends, so a call is one step.                     *)
(*                                                                         *)
(* Abstracted: a path is the sequence of its names, a checksum is the      *)
(* content itself, times but the expiry of a share, tags and the API's     *)
(* list of recent files are left out; all uploads are of one day.          *)
(***************************************************************************)
EXTENDS Naturals, Sequences, SequencesExt, Functions

CONSTANTS
    Names,               \* of files and folders
    Contents,
    Folders, Shares,     \* the ids _generate_id() may return
    Targets, Rule,       \* output targets; name -> the target of the first rule that matches
    None,
    MaxVersions,         \* CloudDriveService's max_versions
    Limits, Expiries,    \* max_downloads and expire_in of a share; 0 for none
    MaxDepth, MaxCalls, MaxTime     \* bounds of the model

VARIABLES
    files, dirs,     \* the disk: path -> content, and the paths of directories
    meta,            \* _metadata_store: id -> [path, sum, dir]
    versions,        \* _version_store: id -> seq of [number, sum]
    share,           \* _share_store: id -> [file, limit, count, expires] or None
    now, calls

vars == <<files, dirs, meta, versions, share, now, calls>>

Parent(path) == Front(path)
Above(path) == {SubSeq(path, 1, n) : n \in 1..(Len(path) - 1)}

NoFile == [p \in {} |-> None]
Put(f, key, value) == [k \in DOMAIN f \cup {key} |-> IF k = key THEN value ELSE f[k]]

Init ==
    /\ files = NoFile /\ dirs = {}
    /\ meta = NoFile /\ versions = NoFile
    /\ share = [s \in Shares |-> None]
    /\ now = 0 /\ calls = 0

Call == calls < MaxCalls /\ calls' = calls + 1

(* ------------------------------ LocalStorage --------------------------- *)
OnDisk(path) == path \in DOMAIN files \cup dirs

(* os.makedirs of the directory raises when a file is in the way *)
CanMakeDirs(path) == \A up \in Above(path) : up \notin DOMAIN files
MadeDirs(path) == dirs \cup Above(path)

Without(path) == Restrict(files, {p \in DOMAIN files : ~ IsPrefix(path, p)})
Rebased(path, from, to) == to \o SubSeq(path, Len(from) + 1, Len(path))

(* shutil.move puts what it moves inside a directory that is there *)
Destination(from, to) == IF to \in dirs /\ from # to THEN Append(to, Last(from)) ELSE to

CanMove(from, to) ==
    LET real == Destination(from, to) IN
    /\ ~ (from \in dirs /\ from # to /\ IsPrefix(from, real))
    /\ to \in dirs /\ from # to => ~ OnDisk(real)
    /\ from \in dirs /\ from # to => real \notin DOMAIN files

Moved(from, to) ==
    LET real == Destination(from, to)
        gone == {p \in DOMAIN files : IsPrefix(from, p)}
        kept == DOMAIN files \ gone
        come == {Rebased(p, from, real) : p \in gone}
    IN [p \in (kept \ come) \cup come |->
            IF p \in come THEN files[Rebased(p, real, from)] ELSE files[p]]

MovedDirs(from, to) ==
    LET all == MadeDirs(to)
        gone == {d \in all : IsPrefix(from, d)}
    IN (all \ gone) \cup {Rebased(d, from, Destination(from, to)) : d \in gone}

(* Mutant: the slice keeps the first versions. *)
OldestVersions(seq) == IF Len(seq) > MaxVersions THEN Front(seq) ELSE seq

(* ------------------------------- the files ----------------------------- *)
NewestVersions(seq) == IF Len(seq) > MaxVersions THEN Tail(seq) ELSE seq

(* upload: the id is what write returned, the path; a version's number is  *)
(* one more than the versions kept                                         *)
Upload(content, path) ==
    /\ CanMakeDirs(path) /\ path \notin dirs
    /\ files' = Put(files, path, content)
    /\ dirs' = MadeDirs(path)
    /\ meta' = Put(meta, path, [path |-> path, sum |-> content, dir |-> FALSE])
    /\ LET had == IF path \in DOMAIN versions THEN versions[path] ELSE <<>>
       IN versions' = Put(versions, path,
                          NewestVersions(Append(had, [number |-> Len(had) + 1, sum |-> content])))
    /\ UNCHANGED <<share, now>>

(* OutputRouter.route: the user's target before the task's, before the rules *)
Route(name, asked, task) ==
    CASE asked # None -> asked
      [] asked = None /\ task = "training" -> "datasets"
      [] asked = None /\ task = "analysis" -> "analysis"
      [] OTHER -> Rule[name]

(* save_output gives upload a path that ends with the name already; for a  *)
(* target without a branch of its own it uploads to the root               *)
SaveOutput(content, name, asked, task) ==
    LET target == Route(name, asked, task) IN
    /\ Call
    /\ Upload(content, IF target \in {"cloudrive", "workspace", "datasets", "analysis"}
                       THEN <<target, name, name>> ELSE <<name>>)

UploadTo(content, folder, name) == Call /\ Upload(content, Append(folder, name))

(* delete: nothing changes in memory unless the disk had the file *)
Delete(id) ==
    LET path == meta[id].path IN
    /\ Call
    /\ id \in DOMAIN meta /\ OnDisk(path)
    /\ files' = Without(path)
    /\ dirs' = {d \in dirs : ~ IsPrefix(path, d)}
    /\ meta' = Restrict(meta, DOMAIN meta \ {id})
    /\ versions' = Restrict(versions, DOMAIN versions \ {id})
    /\ UNCHANGED <<share, now>>

MetaMoved(id, to) == [meta EXCEPT ![id].path = to]

(* Mutant: the metadata keeps the old path. *)
MetaKept(id, to) == meta

(* storage.move and what follows it in move and rename: its answer is not  *)
(* looked at; when it raises, directories it made stay                     *)
MoveTo(id, to) ==
    LET from == meta[id].path IN
    /\ Call
    /\ IF ~ OnDisk(from) THEN meta' = MetaMoved(id, to) /\ UNCHANGED <<files, dirs>>
       ELSE /\ CanMakeDirs(to)
            /\ IF CanMove(from, to)
               THEN /\ files' = Moved(from, to)
                    /\ dirs' = MovedDirs(from, to)
                    /\ meta' = MetaMoved(id, to)
               ELSE dirs' = MadeDirs(to) /\ UNCHANGED <<files, meta>>
    /\ UNCHANGED <<versions, share, now>>

Move(id, folder) == id \in DOMAIN meta /\ MoveTo(id, Append(folder, Last(meta[id].path)))
Rename(id, name) == id \in DOMAIN meta /\ MoveTo(id, Append(Parent(meta[id].path), name))

CreateFolder(id, folder, name) ==
    LET path == Append(folder, name) IN
    /\ Call
    /\ id \notin DOMAIN meta
    /\ CanMakeDirs(path) /\ path \notin DOMAIN files
    /\ dirs' = MadeDirs(path) \cup {path}
    /\ meta' = Put(meta, id, [path |-> path, sum |-> None, dir |-> TRUE])
    /\ UNCHANGED <<files, versions, share, now>>

(* ------------------------------ the shares ----------------------------- *)
CreateShare(s, id, limit, expiry) ==
    /\ Call
    /\ id \in DOMAIN meta /\ share[s] = None
    /\ share' = [share EXCEPT ![s] = [file |-> id, limit |-> limit, count |-> 0,
                                      expires |-> IF expiry = 0 THEN 0 ELSE now + expiry]]
    /\ UNCHANGED <<files, dirs, meta, versions, now>>

(* get_share does not raise *)
Served(s) ==
    /\ share[s] # None
    /\ share[s].expires # 0 => share[s].expires >= now
    /\ share[s].limit # 0 => share[s].count < share[s].limit

(* Mutant: the last permitted download is compared with >. *)
ServedOnceMore(s) ==
    /\ share[s] # None
    /\ share[s].expires # 0 => share[s].expires >= now
    /\ share[s].limit # 0 => share[s].count <= share[s].limit

(* download_share counts first; the download may then find no metadata or  *)
(* no file                                                                 *)
DownloadShare(s) ==
    /\ Call
    /\ Served(s)
    /\ share' = [share EXCEPT ![s].count = @ + 1]
    /\ UNCHANGED <<files, dirs, meta, versions, now>>

Tick == now < MaxTime /\ now' = now + 1 /\ UNCHANGED <<files, dirs, meta, versions, share, calls>>

InFolder == {<<>>} \cup dirs
Next ==
    \/ \E content \in Contents, name \in Names :
          \/ \E asked \in Targets \cup {None}, task \in {"general", "training", "analysis"} :
                SaveOutput(content, name, asked, task)
          \/ \E folder \in InFolder :
                Len(folder) < MaxDepth /\ UploadTo(content, folder, name)
    \/ \E id \in DOMAIN meta :
          \/ Delete(id)
          \/ \E folder \in InFolder : Len(folder) < MaxDepth /\ Move(id, folder)
          \/ \E name \in Names : Rename(id, name)
          \/ \E s \in Shares, limit \in Limits, expiry \in Expiries : CreateShare(s, id, limit, expiry)
    \/ \E id \in Folders, folder \in InFolder, name \in Names :
          Len(folder) < MaxDepth /\ CreateFolder(id, folder, name)
    \/ \E s \in Shares : DownloadShare(s)
    \/ Tick

Spec == Init /\ [][Next]_vars
-----------------------------------------------------------------------------
(* Type invariant of the drive and of its disk. *)
TypeOK ==
    /\ \A p \in DOMAIN files : files[p] \in Contents
    /\ DOMAIN files \cap dirs = {}
    /\ \A id \in DOMAIN meta : meta[id].dir => meta[id].sum = None
    /\ now \in 0..MaxTime /\ calls \in 0..MaxCalls

(* The newest version kept of a file is the content its metadata names,    *)
(* however often it was uploaded, moved, overwritten or pruned (upload,    *)
(* _create_version, delete), and a limited share was never served more     *)
(* often than its limit (download_share).                                  *)
VersionsFollow ==
    /\ \A id \in DOMAIN meta :
          ~ meta[id].dir =>
              /\ id \in DOMAIN versions /\ versions[id] # <<>>
              /\ Len(versions[id]) <= MaxVersions
              /\ Last(versions[id]).sum = meta[id].sum
    /\ \A s \in Shares : share[s] # None /\ share[s].limit # 0 => share[s].count <= share[s].limit

(* the disk has, where the metadata says, what the metadata says *)
Intact(id) ==
    /\ ~ meta[id].dir
    /\ meta[id].path \in DOMAIN files
    /\ files[meta[id].path] = meta[id].sum

(* A file that downloads as its metadata says goes on doing so, unless it  *)
(* is deleted, moved onto a directory, or another file or folder of the    *)
(* drive is on its path or above it (upload, delete, move, rename over     *)
(* LocalStorage).                                                          *)
StaysIntact ==
    \A id \in DOMAIN meta :
        Intact(id) =>
            \/ id \notin DOMAIN meta'
            \/ Intact(id)'
            \/ meta'[id].path \in dirs
            \/ \E other \in (DOMAIN meta \cup DOMAIN meta') \ {id} :
                  \/ other \in DOMAIN meta /\ IsPrefix(meta[other].path, meta[id].path)
                  \/ other \in DOMAIN meta' /\ IsPrefix(meta'[other].path, meta'[id].path)
=============================================================================
