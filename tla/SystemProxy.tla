---------------------------- MODULE SystemProxy ----------------------------
(***************************************************************************)
(* internal/gui/app.go and internal/sysproxy: the desktop app points the   *)
(* operating system's web proxy at its own HTTP proxy and puts the user's  *)
(* setting back, across concurrent calls of the UI, failing reads and      *)
(* writes, and crashes.                                                    *)
(*                                                                         *)
(* The OS setting is whether a proxy is used and the host and the port of  *)
(* it; http and https, which are treated alike, are one.  Every platform   *)
(* reads and writes these fields in groups and an order of its own.  The   *)
(* supervisor is only the port its HTTP proxy listens on.  Start, Stop and *)
(* Quit are calls bound to the UI, of which at most one of each is in      *)
(* flight; "recover" is the cleanup at startup, which runs beside them and *)
(* does not take their mutex.                                              *)
(***************************************************************************)
EXTENDS Integers, FiniteSets

CONSTANTS
    Platforms,      \* subset of {"windows", "linux", "darwin"}
    Ports,          \* ports the HTTP proxy may get, fallback included
    User,           \* the host, or the port, of the user's own setting
    Local,          \* the host that psdns listens on
    Unset,          \* a value that is absent, empty or zero
    None,           \* no port, no setting, no holder of the mutex
    UserSettings,   \* the user's settings to consider
    MaxCalls,       \* bound on the calls that are in flight at a time
    MaxFaults,      \* bound on failing reads and writes of the system
    MaxCrashes      \* bound on crashes

Calls == {"start", "stop", "quit", "recover"}
Fields == {"en", "host", "port"}
Setting == [en : {"on", "off", Unset}, host : {User, Local, Unset},
            port : Ports \cup {User, Unset}]

ASSUME SystemProxyAssumption ==
    /\ Platforms \subseteq {"windows", "linux", "darwin"}
    /\ User # Local /\ Unset \notin {User, Local, "on", "off"}
    /\ Ports \cap {User, Unset} = {}
    /\ None \notin Ports \cup Calls \cup Setting
    /\ UserSettings \subseteq Setting
    /\ MaxCalls \in Nat /\ MaxFaults \in Nat /\ MaxCrashes \in Nat

VARIABLES
    platform,
    orig,       \* the user's setting
    os,         \* the OS setting
    backup,     \* sysproxy-backup.json
    alive,      \* the app's process runs
    on,         \* sysproxyOn
    mu,         \* holder of sysproxyMu
    port,       \* where the HTTP proxy listens
    running,    \* supervisor.running
    pc,         \* where each call is
    snap,       \* the HTTP address in the State that Start has read
    todo,       \* fields the call still has to write
    mem,        \* the setting it has captured, or is writing back
    bad,        \* its restore has failed
    calm,       \* history: since the launch no calls have overlapped, and
                \* nothing has failed
    lapses,     \* history: what has ever put the backup in doubt
    faults, crashes

disk == <<os, backup>>
sup == <<port, running>>
calls == <<pc, snap, todo, mem, bad>>
budget == <<calm, lapses, faults, crashes>>
fixed == <<platform, orig>>
vars == <<fixed, disk, alive, on, mu, sup, calls, budget>>

Places == {"idle", "settle", "lock", "save", "capture", "write", "apply",
           "read", "restore", "delete", "down"}

TypeOK ==
    /\ platform \in Platforms
    /\ orig \in Setting
    /\ os \in Setting
    /\ backup \in Setting \cup {None}
    /\ alive \in BOOLEAN /\ on \in BOOLEAN /\ running \in BOOLEAN
    /\ mu \in Calls \cup {None}
    /\ port \in Ports \cup {None}
    /\ pc \in [Calls -> Places]
    /\ snap \in Ports \cup {None}
    /\ todo \in [Calls -> SUBSET Fields]
    /\ mem \in [Calls -> Setting \cup {None}]
    /\ bad \in [Calls -> BOOLEAN]
    /\ calm \in BOOLEAN
    /\ lapses \subseteq {"misread", "unseen", "undeleted", "overlap"}
    /\ faults \in 0 .. MaxFaults /\ crashes \in 0 .. MaxCrashes

(* What a user may have set.  Only the registry lacks a value altogether,  *)
(* and only gsettings keeps a port, by default one that psdns may get too, *)
(* of a proxy without a host.                                              *)
UserSetting ==
    /\ orig.host # Local
    /\ platform # "windows" => orig.en # Unset
    /\ IF platform = "linux" THEN orig.port # Unset
       ELSE orig.port \notin Ports /\ (orig.host = Unset <=> orig.port = Unset)

(* A process that has just been started, or none. *)
NoCalls ==
    /\ pc = [c \in Calls |-> "idle"]
    /\ snap = None
    /\ todo = [c \in Calls |-> {}]
    /\ mem = [c \in Calls |-> None]
    /\ bad = [c \in Calls |-> FALSE]

Init ==
    /\ platform \in Platforms
    /\ orig \in UserSettings /\ UserSetting
    /\ os = orig
    /\ backup = None
    /\ alive = FALSE /\ on = FALSE /\ running = FALSE
    /\ mu = None /\ port = None
    /\ NoCalls
    /\ calm = TRUE /\ lapses = {}
    /\ faults = MaxFaults /\ crashes = MaxCrashes

Goto(c, s) == pc' = [pc EXCEPT ![c] = s]

(* A call begins; one of the same kind is not in flight. *)
Ready(c) ==
    /\ alive
    /\ pc[c] = "idle"
    /\ Cardinality({d \in Calls : pc[d] # "idle"}) < MaxCalls
    /\ calm' = (calm /\ \A d \in Calls : pc[d] = "idle")
    /\ UNCHANGED <<lapses, faults, crashes>>

(* The call gives up the mutex, if it holds it, and goes on at s.  That it *)
(* failed matters afterwards only for the cleanup, which is not retried.   *)
Leave(c, s, failed) ==
    /\ Goto(c, s)
    /\ bad' = [bad EXCEPT ![c] = failed /\ c = "recover"]
    /\ mu' = IF mu = c THEN None ELSE mu
    /\ snap' = IF c = "start" THEN None ELSE snap
    /\ todo' = [todo EXCEPT ![c] = {}]
    /\ mem' = [mem EXCEPT ![c] = None]

Fault ==
    /\ faults > 0 /\ faults' = faults - 1
    /\ calm' = FALSE
    /\ UNCHANGED crashes

(* A call begins to use the backup; the cleanup at startup may be using it *)
(* too.                                                                    *)
Enter ==
    /\ lapses' = IF pc["recover"] = "idle" THEN lapses
                 ELSE lapses \cup {"overlap"}
    /\ UNCHANGED <<calm, faults, crashes>>

-----------------------------------------------------------------------------
(* sysproxy: which fields are read and written at a time.                  *)

Ours(p) == [en |-> "on", host |-> Local, port |-> p]
Absent == [en |-> Unset, host |-> Unset, port |-> Unset]

(* s, with the fields of fs as they are in b. *)
Copy(s, b, fs) ==
    [en |-> IF "en" \in fs THEN b.en ELSE s.en,
     host |-> IF "host" \in fs THEN b.host ELSE s.host,
     port |-> IF "port" \in fs THEN b.port ELSE s.port]

(* What is read at a time. *)
Reads ==
    CASE platform = "linux" -> {{"en"}, {"host"}, {"port"}}
      [] platform = "windows" -> {{"en"}, {"host", "port"}}
      [] OTHER -> {Fields}

(* The next fields to write of those in fs.  The registry has the host and *)
(* the port in one value, networksetup takes them in one command.          *)
ServerFirst(fs) == IF fs = {"en"} THEN fs ELSE fs \ {"en"}

SwitchFirst(fs) ==
    IF "en" \in fs THEN {"en"}
    ELSE IF platform = "linux" /\ "host" \in fs THEN {"host"} ELSE fs

ApplyNext(fs) ==
    IF platform = "linux" THEN SwitchFirst(fs) ELSE ServerFirst(fs)

RestoreNext(fs) ==
    IF platform = "darwin" THEN ServerFirst(fs) ELSE SwitchFirst(fs)

(* The fields that are written back.  gsettings is not given an empty      *)
(* host, and networksetup a server only if one was in use.                 *)
Owed(b) ==
    CASE platform = "linux" /\ b.host = Unset -> {"en", "port"}
      [] platform = "darwin" /\ (b.en # "on" \/ Unset \in {b.host, b.port})
            -> {"en"}
      [] OTHER -> Fields

(* With what: but for the registry, a proxy that was not in use, or cannot *)
(* be restored, is off.                                                    *)
Target(b) ==
    IF platform = "windows" \/ (b.en = "on" /\ Owed(b) # {"en"}) THEN b
    ELSE [b EXCEPT !.en = "off"]

-----------------------------------------------------------------------------
(* Start. *)

(* supervisor.Start binds the HTTP proxy before it returns; in resolve     *)
(* mode, or when no port can be bound, there is none.                      *)
Start(p) ==
    /\ Ready("start")
    /\ ~running
    /\ running' = TRUE
    /\ port' = p
    /\ Goto("start", "settle")
    /\ UNCHANGED <<fixed, disk, alive, on, mu, snap, todo, mem, bad>>

(* WaitSettled reads the status some time later.  The option to set the    *)
(* system proxy may be off.                                                *)
Settle ==
    /\ pc["start"] = "settle"
    /\ \/ port # None /\ snap' = port /\ Goto("start", "lock")
       \/ snap' = None /\ Goto("start", "idle")
    /\ UNCHANGED <<fixed, disk, alive, on, mu, sup, todo, mem, bad, budget>>

(* Mutated: the restore is not marked as owed. *)
ApplyLock_NotOwed ==
    /\ pc["start"] = "lock"
    /\ mu = None
    /\ mu' = "start"
    /\ Goto("start", "save")
    /\ Enter
    /\ UNCHANGED <<fixed, disk, alive, on, sup, snap, todo, mem, bad>>

(* The restore is owed before Apply touches anything. *)
ApplyLock ==
    /\ pc["start"] = "lock"
    /\ mu = None
    /\ mu' = "start"
    /\ on' = TRUE
    /\ Goto("start", "save")
    /\ Enter
    /\ UNCHANGED <<fixed, disk, alive, sup, snap, todo, mem, bad>>

(* Mutated: the setting is captured again, over a backup that is there. *)
Save_Again ==
    /\ pc["start"] = "save"
    /\ Goto("start", "capture")
    /\ todo' = [todo EXCEPT !["start"] = Fields]
    /\ UNCHANGED <<fixed, disk, alive, on, mu, sup, snap, mem, bad, budget>>

(* Apply takes a snapshot unless there is one. *)
Save ==
    /\ pc["start"] = "save"
    /\ Goto("start", IF backup = None THEN "capture" ELSE "apply")
    /\ todo' = [todo EXCEPT !["start"] = Fields]
    /\ UNCHANGED <<fixed, disk, alive, on, mu, sup, snap, mem, bad, budget>>

(* Stat fails, which backupExists takes for there being none. *)
SaveUnseen ==
    /\ pc["start"] = "save"
    /\ backup # None
    /\ Fault
    /\ lapses' = lapses \cup {"unseen"}
    /\ Goto("start", "capture")
    /\ todo' = [todo EXCEPT !["start"] = Fields]
    /\ UNCHANGED <<fixed, disk, alive, on, mu, sup, snap, mem, bad>>

Capture ==
    /\ pc["start"] = "capture"
    /\ mem' = [mem EXCEPT !["start"] = os]
    /\ Goto("start", "write")
    /\ UNCHANGED <<fixed, disk, alive, on, mu, sup, snap, todo, bad, budget>>

(* Some of the reads fail: what they were for is taken to be absent.       *)
CaptureMisreads ==
    /\ pc["start"] = "capture"
    /\ Fault
    /\ lapses' = lapses \cup {"misread"}
    /\ \E failed \in SUBSET Reads \ {{}} :
          mem' = [mem EXCEPT !["start"] = Copy(os, Absent, UNION failed)]
    /\ Goto("start", "write")
    /\ UNCHANGED <<fixed, disk, alive, on, mu, sup, snap, todo, bad>>

(* The temporary file is renamed to the backup. *)
Write ==
    /\ pc["start"] = "write"
    /\ backup' = mem["start"]
    /\ mem' = [mem EXCEPT !["start"] = None]
    /\ Goto("start", "apply")
    /\ UNCHANGED <<fixed, os, alive, on, mu, sup, snap, todo, bad, budget>>

(* The registry key, the list of network services or the backup file is    *)
(* not to be had: Apply returns before it has changed anything.            *)
SaveFails ==
    /\ \/ pc["start"] = "capture" /\ platform # "linux"
       \/ pc["start"] = "write"
    /\ Fault
    /\ Leave("start", "idle", FALSE)
    /\ UNCHANGED <<fixed, disk, alive, on, sup, lapses>>

(* The next fields are written; Apply returns after the last. *)
Apply ==
    /\ pc["start"] = "apply"
    /\ LET fs == ApplyNext(todo["start"]) IN
          /\ os' = Copy(os, Ours(snap), fs)
          /\ IF todo["start"] = fs THEN Leave("start", "idle", FALSE)
             ELSE /\ todo' = [todo EXCEPT !["start"] = todo["start"] \ fs]
                  /\ UNCHANGED <<pc, mu, snap, mem, bad>>
    /\ UNCHANGED <<fixed, backup, alive, on, sup, budget>>

(* A failed write ends Apply, except that gsettings is told the rest.      *)
ApplyFails ==
    /\ pc["start"] = "apply"
    /\ Fault
    /\ LET fs == ApplyNext(todo["start"]) IN
          IF platform # "linux" \/ todo["start"] = fs
          THEN Leave("start", "idle", FALSE)
          ELSE /\ todo' = [todo EXCEPT !["start"] = todo["start"] \ fs]
               /\ UNCHANGED <<pc, mu, snap, mem, bad>>
    /\ UNCHANGED <<fixed, disk, alive, on, sup, lapses>>

-----------------------------------------------------------------------------
(* Restore, on behalf of Stop, of the Shutdown that Quit leads to, and of  *)
(* RecoverStale.                                                           *)

Restorers == {"stop", "quit", "recover"}

(* Where the caller of the restore goes on, failed or not. *)
After(c) == IF c = "recover" THEN "idle" ELSE "down"

(* Recovery leaves sysproxyOn alone. *)
NotOwed(c) == on' = (on /\ c = "recover")

(* restoreSystemProxy does nothing unless a restore is owed. *)
RestoreLock(c) ==
    /\ c \in {"stop", "quit"} /\ pc[c] = "lock"
    /\ mu = None
    /\ IF on THEN Goto(c, "read") /\ mu' = c /\ Enter
       ELSE Goto(c, "down") /\ UNCHANGED <<mu, budget>>
    /\ UNCHANGED <<fixed, disk, alive, on, sup, snap, todo, mem, bad>>

NoBackup(c) ==
    /\ pc[c] = "read"
    /\ backup = None
    /\ NotOwed(c)
    /\ Leave(c, After(c), FALSE)
    /\ UNCHANGED <<fixed, disk, alive, sup, budget>>

ReadBackup(c) ==
    /\ pc[c] = "read"
    /\ backup # None
    /\ mem' = [mem EXCEPT ![c] = Target(backup)]
    /\ todo' = [todo EXCEPT ![c] = Owed(backup)]
    /\ Goto(c, "restore")
    /\ UNCHANGED <<fixed, disk, alive, on, mu, sup, snap, bad, budget>>

(* The file cannot be read, or the registry key not be opened. *)
ReadBackupFails(c) ==
    /\ pc[c] = "read"
    /\ Fault
    /\ Leave(c, After(c), TRUE)
    /\ UNCHANGED <<fixed, disk, alive, on, sup, lapses>>

(* The next fields are done with; one that fails does not stop the others. *)
Restored(c) ==
    LET fs == RestoreNext(todo[c]) IN
    /\ todo' = [todo EXCEPT ![c] = todo[c] \ fs]
    /\ IF todo[c] = fs THEN Goto(c, "delete") ELSE UNCHANGED pc

Restore(c) ==
    /\ c \in Restorers /\ pc[c] = "restore"
    /\ os' = Copy(os, mem[c], RestoreNext(todo[c]))
    /\ Restored(c)
    /\ UNCHANGED <<fixed, backup, alive, on, mu, sup, snap, mem, bad, budget>>

(* Nobody looks whether a value of the registry was deleted. *)
RestoreFails(c) ==
    /\ c \in Restorers /\ pc[c] = "restore"
    /\ Fault
    /\ IF platform = "windows" /\ \E f \in RestoreNext(todo[c]) : mem[c][f] = Unset
       THEN lapses' = lapses \cup {"undeleted"} /\ UNCHANGED bad
       ELSE bad' = [bad EXCEPT ![c] = TRUE] /\ UNCHANGED lapses
    /\ Restored(c)
    /\ UNCHANGED <<fixed, disk, alive, on, mu, sup, snap, mem>>

(* Mutated: the backup is deleted although a write failed. *)
Delete_Regardless(c) ==
    /\ pc[c] = "delete"
    /\ backup' = None
    /\ NotOwed(c)
    /\ Leave(c, After(c), bad[c])
    /\ UNCHANGED <<fixed, os, alive, sup, budget>>

(* The backup is deleted when everything was written back.  A failure      *)
(* keeps it, and keeps the restore owed.                                   *)
Delete(c) ==
    /\ pc[c] = "delete"
    /\ IF bad[c] THEN UNCHANGED <<backup, on>> ELSE backup' = None /\ NotOwed(c)
    /\ Leave(c, After(c), bad[c])
    /\ UNCHANGED <<fixed, os, alive, sup, budget>>

DeleteFails(c) ==
    /\ pc[c] = "delete"
    /\ ~bad[c]
    /\ Fault
    /\ Leave(c, After(c), TRUE)
    /\ UNCHANGED <<fixed, disk, alive, on, sup, lapses>>

-----------------------------------------------------------------------------
(* Stop and Quit. *)

SupStop == port' = None /\ running' = FALSE

(* Mutated: the servers go down before the setting is restored. *)
Stop_ServersFirst ==
    /\ Ready("stop")
    /\ SupStop
    /\ Goto("stop", "lock")
    /\ UNCHANGED <<fixed, disk, alive, on, mu, snap, todo, mem, bad>>

Stop ==
    /\ Ready("stop")
    /\ Goto("stop", "lock")
    /\ UNCHANGED <<fixed, disk, alive, on, mu, sup, snap, todo, mem, bad>>

StopServers ==
    /\ pc["stop"] = "down"
    /\ SupStop
    /\ Goto("stop", "idle")
    /\ UNCHANGED <<fixed, disk, alive, on, mu, snap, todo, mem, bad, budget>>

(* Quit stops the servers and has the runtime call Shutdown, which         *)
(* restores the setting.                                                   *)
Quit ==
    /\ Ready("quit")
    /\ SupStop
    /\ Goto("quit", "lock")
    /\ UNCHANGED <<fixed, disk, alive, on, mu, snap, todo, mem, bad>>

(* The process is gone; the OS setting and the backup stay. *)
ProcessEnds ==
    /\ alive' = FALSE /\ on' = FALSE /\ mu' = None
    /\ SupStop
    /\ pc' = [c \in Calls |-> "idle"]
    /\ snap' = None
    /\ todo' = [c \in Calls |-> {}]
    /\ mem' = [c \in Calls |-> None]
    /\ bad' = [c \in Calls |-> FALSE]
    /\ UNCHANGED <<fixed, disk>>

(* Shutdown stops whatever runs by now, and the process exits. *)
Exit == pc["quit"] = "down" /\ ProcessEnds /\ UNCHANGED budget

Crash ==
    /\ alive
    /\ crashes > 0
    /\ crashes' = crashes - 1
    /\ ProcessEnds
    /\ UNCHANGED <<calm, lapses, faults>>

(* Mutated: startup does not clean up after a crash. *)
Launch_NoRecover ==
    /\ ~alive
    /\ alive' = TRUE /\ calm' = TRUE
    /\ UNCHANGED <<fixed, disk, on, mu, sup, calls, lapses, faults, crashes>>

(* Startup begins to recover; nothing keeps the UI waiting for it. *)
Launch ==
    /\ ~alive
    /\ alive' = TRUE /\ calm' = TRUE
    /\ Goto("recover", "read")
    /\ UNCHANGED <<fixed, disk, on, mu, sup, snap, todo, mem, bad, lapses,
                   faults, crashes>>

-----------------------------------------------------------------------------
RunStart ==
    \/ Settle \/ ApplyLock
    \/ Save \/ SaveUnseen \/ Capture \/ CaptureMisreads \/ Write \/ SaveFails
    \/ Apply \/ ApplyFails

RunRestore(c) ==
    \/ RestoreLock(c)
    \/ NoBackup(c) \/ ReadBackup(c) \/ ReadBackupFails(c)
    \/ Restore(c) \/ RestoreFails(c)
    \/ Delete(c) \/ DeleteFails(c)

Next ==
    \/ Launch
    \/ \E p \in Ports \cup {None} : Start(p)
    \/ Stop \/ Quit
    \/ RunStart
    \/ \E c \in Restorers : RunRestore(c)
    \/ StopServers \/ Exit
    \/ Crash

Spec == Init /\ [][Next]_vars

(* The cleanup at startup goes on for as long as the process runs.  Nobody *)
(* is obliged to press a button, or to launch the app.                     *)
FairSpec == Spec /\ WF_vars(RunRestore("recover"))

-----------------------------------------------------------------------------
(* A setting that has the effect of the user's.  A proxy that is not in    *)
(* use has no server.                                                      *)
On(s) == s.en = "on"

UsersOwn(s) ==
    /\ On(s) <=> On(orig)
    /\ On(orig) => s.host = orig.host /\ s.port = orig.port

PointsAtUs == On(os) /\ os.host = Local /\ os.port \in Ports

(* What a backup and a restore of it can be trusted with.  A user whose    *)
(* proxy is in use without a host (a SOCKS proxy, say) does not get his    *)
(* setting back on every platform, and nobody does after a read that       *)
(* failed unnoticed, a failing Stat or deletion, or a recovery that ran    *)
(* beside another call.                                                    *)
Sound == lapses = {} /\ (On(orig) => Owed(orig) = Fields)

(* Short of these, the user's setting is never lost: at every moment, so   *)
(* also if the process dies right then, either the OS still has it or the  *)
(* backup does (sysproxy.go:55-77,94-112, backup.go:80-98).                *)
NeverLost ==
    Sound => IF backup = None THEN UsersOwn(os) ELSE UsersOwn(backup)

(* A backup on disk is always owed back by the running session, even after *)
(* a partly failed Apply, or else it is one that startup could not recover *)
(* (app.go:61-64,203-212,215-218).                                         *)
RestoreOwed ==
    alive /\ pc["recover"] = "idle" /\ backup # None => on \/ bad["recover"]

(* What these rest on.  The mutex is held by whoever uses the backup,      *)
(* except for the cleanup at startup.                                      *)
Critical == {"save", "capture", "write", "apply", "read", "restore", "delete"}

MutexInv ==
    /\ \A c \in Calls \ {"recover"} : pc[c] \in Critical <=> mu = c
    /\ mu # "recover"
    /\ pc["start"] \in {"idle", "settle", "lock", "save", "capture", "write",
                        "apply"}
    /\ \A c \in {"stop", "quit"} :
          pc[c] \in {"idle", "lock", "read", "restore", "delete", "down"}
    /\ pc["recover"] \in {"idle", "read", "restore", "delete"}
    /\ lapses = {} /\ pc["recover"] # "idle" => mu = None
    /\ ~alive => \A c \in Calls : pc[c] = "idle"

(* The setting is captured while it is the user's, and written only while  *)
(* the restore is owed and there is a backup.                              *)
ApplyInv ==
    /\ pc["start"] \in {"lock"} \cup Critical => snap # None
    /\ pc["start"] \in Critical => on
    /\ pc["start"] \in {"capture", "write"} => todo["start"] = Fields
    /\ pc["start"] = "apply" => todo["start"] # {}
    /\ pc["start"] = "write" => mem["start"] # None
    /\ lapses = {} =>
          /\ pc["start"] \in {"capture", "write"} => backup = None
          /\ pc["start"] = "apply" => backup # None
    /\ Sound /\ pc["start"] = "write" => UsersOwn(mem["start"])

(* A backup that is not owed is being recovered, or could not be. *)
OwedInv ==
    backup # None /\ alive /\ ~on => pc["recover"] # "idle" \/ bad["recover"]

(* A restore that has not failed has written back all it is done with.     *)
RestoreInv(c) ==
    /\ pc[c] \in {"restore", "delete"} => mem[c] # None
    /\ pc[c] = "restore" => todo[c] # {}
    /\ pc[c] = "delete" => todo[c] = {}
    /\ Sound /\ pc[c] \in {"restore", "delete"} =>
          /\ backup # None
          /\ UsersOwn(mem[c])
          /\ ~bad[c] =>
                /\ "en" \notin todo[c] => (On(os) <=> On(mem[c]))
                /\ On(mem[c]) /\ "host" \notin todo[c] => os.host = mem[c].host
                /\ On(mem[c]) /\ "port" \notin todo[c] => os.port = mem[c].port

IInv ==
    /\ TypeOK /\ MutexInv /\ ApplyInv /\ OwedInv
    /\ \A c \in Restorers : RestoreInv(c)
    /\ NeverLost /\ RestoreOwed

(* What NotLeftAtDeadListener and StopRestoresFirst rest on: while the     *)
(* calls come one after the other and nothing fails, the OS points at the  *)
(* listener, or no more, whenever a call hands over to the next.           *)
CalmInv ==
    /\ orig.host # Local
    /\ ~running => port = None
    /\ ~alive => \A c \in Calls : ~bad[c]
    /\ calm /\ alive =>
          /\ \A c, d \in Calls : pc[c] # "idle" /\ pc[d] # "idle" => c = d
          /\ \A c \in Calls : ~bad[c]
          /\ pc["start"] \in {"lock"} \cup Critical => snap = port
    /\ calm /\ alive /\ Sound =>
          /\ pc["start"] \in {"settle", "lock", "save", "capture", "write"} =>
                ~PointsAtUs
          /\ pc["start"] = "apply" =>
                /\ "en" \notin todo["start"] => On(os)
                /\ "host" \notin todo["start"] => os.host = Local
                /\ "port" \notin todo["start"] => os.port = port
          /\ \A c \in Restorers : pc[c] = "down" => ~PointsAtUs
          /\ (\A c \in Calls : pc[c] = "idle") /\ PointsAtUs => os.port = port

(* When no call is in flight, a system proxy that points at psdns points   *)
(* at the port it listens on, as long as the calls have come one after the *)
(* other and nothing has failed (app.go:168-169).                          *)
Idle == alive /\ \A c \in Calls : pc[c] = "idle"

NotLeftAtDeadListener ==
    calm /\ Sound /\ Idle /\ PointsAtUs => os.port = port

(* Likewise, short of Quit and of the end of the process the listener is   *)
(* taken down only when the OS points at it no more (app.go:168-172).      *)
StopRestoresFirst ==
    [][/\ calm /\ Sound /\ alive' /\ pc["quit"] = "idle" /\ pc'["quit"] = "idle"
       /\ port # None /\ port' = None
       => ~PointsAtUs]_vars

(* Whatever the app was doing when it died, the next launch gives the user *)
(* back his setting, unless something fails, a call comes in between or    *)
(* the process ends again (app.go:81-86,118-121).                          *)
CrashRepaired ==
    /\ alive /\ backup # None /\ ~on /\ ~bad["recover"]
    /\ faults = 0 /\ Sound
    ~> UsersOwn(os) \/ ~Sound \/ ~alive

(* app.go:168-169, "the OS is never left pointing at a closing listener",  *)
(* which 57-59 want for "a quick Start/Stop pair" too.                     *)
NeverAtDeadListener == Sound /\ Idle /\ PointsAtUs => os.port = port
=============================================================================
