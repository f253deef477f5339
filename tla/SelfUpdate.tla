----------------------------- MODULE SelfUpdate -----------------------------
(***************************************************************************)
(* internal/selfupdate and the programs that call it: the desktop app,     *)
(* which checks once at startup, checks and updates on the user's request  *)
(* and restarts itself, and the command psdns update.  One program, its    *)
(* executable on disk, and the releases on GitHub, which change at any     *)
(* time: another release becomes the latest, or the files of a release are *)
(* uploaded again, the archive before the list of its checksums.           *)
(*                                                                         *)
(* The app and the command are programs of their own.  One model serves    *)
(* for both: it lets either kind of update begin in a process, which is    *)
(* more than each of them does.  Only one process of the program runs at a *)
(* time: the desktop app takes the lock of Wails, and a process that finds *)
(* it taken wakes the holder and exits; of the command, which takes none,  *)
(* one at a time is assumed.  The copies of the app that the user starts   *)
(* while it runs just exit and are left out.                               *)
(***************************************************************************)
EXTENDS Integers

CONSTANTS
    Callers,        \* goroutines that call the Checker
    Background,     \* the one that App.Startup starts
    Releases,       \* every release there ever is
    Shipped,        \* the release that was installed by hand
    Reuploaded,     \* the releases whose files are uploaded again
    MaxBuild,       \* bound on the uploads of one file
    None

Versions == [valid : BOOLEAN, core : Nat, pre : Nat]  \* pre is 0 for a final release
ReleaseType == [tag : Versions, prerelease : BOOLEAN, assets : SUBSET {"archive", "sums"}]

ASSUME SelfUpdateAssumption ==
    /\ Releases \subseteq ReleaseType
    /\ Shipped \in Releases
    /\ Reuploaded \subseteq Releases
    /\ MaxBuild \in Nat \ {0}
    /\ None \notin Releases

VARIABLES
    latest,         \* the release that /releases/latest answers with
    archive,        \* which build of its archive each release holds
    sums,           \* the build its list of checksums is of; 0: it has no entry
    listed,         \* the builds that such a list has ever been of
    cache, fresh,   \* c.cache, and whether c.cachedAt is within TTL
    pc, op,         \* where each caller is, and what it was asked to do
    got,            \* the release it has been answered with
    want, data,     \* the checksum and the archive it has downloaded
    disk, there,    \* what was installed last, and whether it is in its place
    version,        \* Version, of the running process
    app,            \* the running process
    restart,        \* the goroutine of App.restart
    child           \* whether the process it has started has yet to try the lock

github == <<latest, archive, sums, listed>>
calls == <<pc, op, got, want, data>>
file == <<disk, there>>
process == <<version, app, restart, child>>
vars == <<github, cache, fresh, calls, file, process>>

Builds == 1 .. MaxBuild
Damaged == 0                      \* an archive that arrived cut or garbled
Binary == [rel : Releases, build : Builds]

TypeOK ==
    /\ latest \in Releases
    /\ archive \in [Releases -> Builds]
    /\ sums \in [Releases -> 0 .. MaxBuild]
    /\ listed \subseteq Releases \X Builds
    /\ cache \in Releases \cup {None} /\ fresh \in BOOLEAN
    /\ pc \in [Callers -> {"idle", "ask", "store", "sums", "archive", "verify",
                           "replace", "swap", "done"}]
    /\ op \in [Callers -> {"none", "check", "apply", "command", "install"}]
    /\ got \in [Callers -> Releases \cup {None}]
    /\ want \in [Callers -> 0 .. MaxBuild]
    /\ data \in [Callers -> 0 .. MaxBuild]
    /\ disk \in Binary /\ there \in BOOLEAN
    /\ version \in Versions
    /\ app \in {"up", "ending", "gone"}
    /\ restart \in {"off", "spawn", "sleep", "quit"}
    /\ child \in BOOLEAN

Init ==
    /\ latest \in Releases
    /\ archive = [r \in Releases |-> 1]
    /\ sums = [r \in Releases |-> 1]
    /\ listed = {<<r, 1>> : r \in Releases}
    /\ cache = None /\ fresh = FALSE
    /\ pc = [c \in Callers |-> "idle"]
    /\ op = [c \in Callers |-> "none"]
    /\ got = [c \in Callers |-> None]
    /\ want = [c \in Callers |-> 0]
    /\ data = [c \in Callers |-> 0]
    /\ disk = [rel |-> Shipped, build |-> 1] /\ there = TRUE
    /\ version = Shipped.tag
    /\ app = "up" /\ restart = "off" /\ child = FALSE

-----------------------------------------------------------------------------
(* GitHub. *)

Publish(r) ==
    /\ latest' = r
    /\ UNCHANGED <<archive, sums, listed, cache, fresh, calls, file, process>>

Upload(r) ==
    /\ archive[r] < MaxBuild
    /\ archive' = [archive EXCEPT ![r] = @ + 1]
    /\ UNCHANGED <<latest, sums, listed, cache, fresh, calls, file, process>>

List(r) ==
    /\ \/ sums' = [sums EXCEPT ![r] = archive[r]] /\ listed' = listed \cup {<<r, archive[r]>>}
       \/ sums' = [sums EXCEPT ![r] = 0] /\ UNCHANGED listed
    /\ UNCHANGED <<latest, archive, cache, fresh, calls, file, process>>

-----------------------------------------------------------------------------
(* Versions. *)

(* semver.Compare(l, c) > 0 *)
Above(l, c) ==
    \/ l.core > c.core
    \/ /\ l.core = c.core
       /\ c.pre # 0
       /\ l.pre = 0 \/ l.pre > c.pre

(* Mutated: another version is newer. *)
Newer_Different(l, c) == l.valid /\ c.valid /\ l # c /\ (l.pre # 0 => c.pre # 0)

Newer(l, c) ==
    /\ l.valid /\ c.valid
    /\ l.pre # 0 => c.pre # 0
    /\ Above(l, c)

SkipPrerelease(r) == r.prerelease /\ version.valid /\ version.pre = 0

(* What a check says of r; the command goes on from there by itself.       *)
Offered(r) == Newer(r.tag, version) /\ ~SkipPrerelease(r)
Available(r) == "archive" \in r.assets

-----------------------------------------------------------------------------
(* Check, Apply and the command, each of which begins by asking for the    *)
(* latest release unless the cache will do.  The window of an update is    *)
(* modal, so that one runs at a time.                                      *)

Return(c) ==
    /\ pc' = [pc EXCEPT ![c] = "done"]
    /\ got' = [got EXCEPT ![c] = None]
    /\ want' = [want EXCEPT ![c] = 0]
    /\ data' = [data EXCEPT ![c] = 0]

Begin(c, o) ==
    /\ app # "gone"
    /\ pc[c] \in IF c = Background THEN {"idle"} ELSE {"idle", "done"}
    /\ op' = [op EXCEPT ![c] = o]

CheckCached(c) ==
    /\ c = Background
    /\ cache # None /\ fresh
    /\ Begin(c, "check")
    /\ Return(c)
    /\ UNCHANGED <<github, cache, fresh, file, process>>

Check(c) ==
    /\ c = Background => cache = None \/ ~fresh
    /\ Begin(c, "check")
    /\ pc' = [pc EXCEPT ![c] = "ask"]
    /\ UNCHANGED <<github, cache, fresh, got, want, data, file, process>>

Apply(c, o) ==
    /\ c # Background
    /\ restart = "off"
    /\ \A d \in Callers : op[d] \in {"apply", "command", "install"} => pc[d] = "done"
    /\ Begin(c, o)
    /\ pc' = [pc EXCEPT ![c] = "ask"]
    /\ UNCHANGED <<github, cache, fresh, got, want, data, file, process>>

(* fetchLatest is answered.  Apply goes on to its downloads only when the  *)
(* release is newer and has both files.                                    *)
Answered(c) ==
    /\ pc[c] = "ask"
    /\ op[c] \in {"apply", "install"} =>
          Newer(latest.tag, version) /\ latest.assets = {"archive", "sums"}
    /\ got' = [got EXCEPT ![c] = latest]
    /\ pc' = [pc EXCEPT ![c] = IF op[c] \in {"apply", "install"} THEN "sums" ELSE "store"]
    /\ UNCHANGED <<github, cache, fresh, op, want, data, file, process>>

Store(c) ==
    /\ pc[c] = "store"
    /\ cache' = got[c] /\ fresh' = TRUE
    /\ IF op[c] = "command" /\ Offered(got[c]) /\ Available(got[c])
       THEN /\ op' = [op EXCEPT ![c] = "install"]
            /\ pc' = [pc EXCEPT ![c] = "ask"]
            /\ UNCHANGED <<got, want, data>>
       ELSE /\ Return(c)
            /\ UNCHANGED op
    /\ UNCHANGED <<github, file, process>>

Expire ==
    /\ fresh
    /\ fresh' = FALSE
    /\ UNCHANGED <<github, cache, calls, file, process>>

Sums(c) ==
    /\ pc[c] = "sums"
    /\ sums[got[c]] # 0
    /\ want' = [want EXCEPT ![c] = sums[got[c]]]
    /\ pc' = [pc EXCEPT ![c] = "archive"]
    /\ UNCHANGED <<github, cache, fresh, op, got, data, file, process>>

Archive(c) ==
    /\ pc[c] = "archive"
    /\ \E b \in {archive[got[c]], Damaged} : data' = [data EXCEPT ![c] = b]
    /\ pc' = [pc EXCEPT ![c] = "verify"]
    /\ UNCHANGED <<github, cache, fresh, op, got, want, file, process>>

(* Mutated: what was downloaded is not compared with the checksum. *)
Verify_Trusts(c) ==
    /\ pc[c] = "verify"
    /\ data[c] # Damaged
    /\ pc' = [pc EXCEPT ![c] = "replace"]
    /\ UNCHANGED <<github, cache, fresh, op, got, want, data, file, process>>

Verify(c) ==
    /\ pc[c] = "verify"
    /\ data[c] = want[c]
    /\ pc' = [pc EXCEPT ![c] = "replace"]
    /\ UNCHANGED <<github, cache, fresh, op, got, want, data, file, process>>

(* Any step up to here may end in an error.  A request has no answer in    *)
(* time, or a status, or a list that lacks the archive; or there is        *)
(* nothing newer.                                                          *)
DownloadFails(c) ==
    /\ pc[c] \in {"ask", "sums", "archive"}
    /\ Return(c)
    /\ UNCHANGED <<github, cache, fresh, op, file, process>>

(* The checksum is wrong, the program is not in the archive, or the        *)
(* executable cannot be moved.                                             *)
Refused(c) ==
    /\ pc[c] \in {"verify", "replace"}
    /\ Return(c)
    /\ UNCHANGED <<github, cache, fresh, op, file, process>>

(* minio.Apply moves the old executable away, and the new one in; when     *)
(* that fails it moves the old one back, which may fail as well.           *)
MoveAway(c) ==
    /\ pc[c] = "replace" /\ there
    /\ there' = FALSE
    /\ pc' = [pc EXCEPT ![c] = "swap"]
    /\ UNCHANGED <<github, cache, fresh, op, got, want, data, disk, process>>

(* The desktop app, and not the command, restarts after that.              *)
MoveIn(c) ==
    /\ pc[c] = "swap"
    /\ disk' = [rel |-> got[c], build |-> data[c]] /\ there' = TRUE
    /\ Return(c)
    /\ restart' = IF op[c] = "apply" THEN "spawn" ELSE restart
    /\ UNCHANGED <<github, cache, fresh, op, version, app, child>>

MoveBack(c) ==
    /\ pc[c] = "swap"
    /\ there' \in BOOLEAN
    /\ Return(c)
    /\ UNCHANGED <<github, cache, fresh, op, disk, process>>

-----------------------------------------------------------------------------
(* The process. *)

(* App.restart: the copy is started, or cannot be and this process stays.  *)
Spawn ==
    /\ app # "gone" /\ restart = "spawn"
    /\ \/ there /\ child' = TRUE /\ restart' = "sleep"
       \/ UNCHANGED child /\ restart' = "off"
    /\ UNCHANGED <<github, cache, fresh, calls, file, version, app>>

(* Quit, by restart after its delay ...                                    *)
RestartQuits ==
    /\ app # "gone" /\ restart = "sleep"
    /\ app' = "ending" /\ restart' = "quit"
    /\ UNCHANGED <<github, cache, fresh, calls, file, version, child>>

(* ... or by the user.  The command ends this way too.                     *)
UserQuits ==
    /\ app = "up"
    /\ app' = "ending"
    /\ UNCHANGED <<github, cache, fresh, calls, file, version, restart, child>>

(* The end of the process, and of all its goroutines, wherever they are.   *)
Exit ==
    /\ app = "ending"
    /\ app' = "gone"
    /\ restart' = IF restart = "quit" THEN restart ELSE "off"
    /\ cache' = None /\ fresh' = FALSE
    /\ pc' = [c \in Callers |-> "idle"] /\ op' = [c \in Callers |-> "none"]
    /\ got' = [c \in Callers |-> None]
    /\ want' = [c \in Callers |-> 0] /\ data' = [c \in Callers |-> 0]
    /\ UNCHANGED <<github, file, version, child>>

(* A new process finds the lock taken ... *)
SecondInstance ==
    /\ app # "gone" /\ child
    /\ child' = FALSE
    /\ UNCHANGED <<github, cache, fresh, calls, file, version, app, restart>>

(* ... or free: the copy, or one that the user starts. *)
Startup ==
    /\ app = "gone"
    /\ child \/ there
    /\ app' = "up" /\ child' = FALSE /\ restart' = "off"
    /\ version' = disk.rel.tag
    /\ UNCHANGED <<github, cache, fresh, calls, file>>

-----------------------------------------------------------------------------
GitHub ==
    \/ \E r \in Releases : Publish(r)
    \/ \E r \in Reuploaded : Upload(r) \/ List(r)

Call(c) ==
    \/ CheckCached(c) \/ Check(c)
    \/ \E o \in {"apply", "command"} : Apply(c, o)
    \/ Answered(c) \/ Store(c)
    \/ Sums(c) \/ Archive(c) \/ Verify(c)
    \/ DownloadFails(c) \/ Refused(c)
    \/ MoveAway(c) \/ MoveIn(c) \/ MoveBack(c)

Process ==
    \/ Spawn \/ RestartQuits \/ UserQuits
    \/ Exit \/ SecondInstance \/ Startup

Next ==
    \/ GitHub \/ Expire
    \/ \E c \in Callers : Call(c)
    \/ Process

Spec == Init /\ [][Next]_vars

-----------------------------------------------------------------------------
(* What follows rests on: lists of checksums are remembered, a call that   *)
(* has got to the downloads holds a newer release, one that has got to the *)
(* replacement an archive that was listed, and none outlives its process.  *)
Downloading == {"sums", "archive", "verify", "replace", "swap"}

CallInv ==
    \A c \in Callers :
       /\ app = "gone" => pc[c] = "idle"
       /\ pc[c] \in {"store"} \cup Downloading => got[c] \in Releases
       /\ pc[c] \in Downloading => Newer(got[c].tag, version)
       /\ pc[c] \in Downloading \ {"sums"} => <<got[c], want[c]>> \in listed
       /\ pc[c] \in {"replace", "swap"} => data[c] = want[c]

DiskInv ==
    /\ \A r \in Releases : sums[r] # 0 => <<r, sums[r]>> \in listed
    /\ disk.rel = Shipped \/ <<disk.rel, disk.build>> \in listed
    /\ disk.rel.tag = version \/ Newer(disk.rel.tag, version)

IInv == TypeOK /\ CallInv /\ DiskInv

(* What is in the place of the executable was shipped, or came from an     *)
(* archive that a list of checksums of its own release was of, whatever    *)
(* was uploaded or published during the downloads (apply.go:46-48,81-84).  *)
InstalledVerified ==
    there => \/ disk.rel = Shipped
             \/ <<disk.rel, disk.build>> \in listed

(* The version that runs never goes back, over any number of updates and   *)
(* restarts and whatever GitHub calls its latest release in between, and   *)
(* never from a final release to a prerelease (selfupdate.go:205-223).     *)
NeverBackwards ==
    [][version' # version =>
          Above(version', version) /\ (version'.pre # 0 => version.pre # 0)]_vars

(* App.restart "launches a fresh copy [...] and quits", and does not quit  *)
(* "into nothing" (app.go:283-286).                                        *)
NotIntoNothing ==
    app = "gone" /\ restart = "quit" => child
=============================================================================
