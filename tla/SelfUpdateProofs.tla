-------------------------- MODULE SelfUpdateProofs --------------------------
(***************************************************************************)
(* What SelfUpdate promises for any releases, whatever their versions, and *)
(* any number of callers: only a verified archive is installed, and the    *)
(* version that runs never goes back.                                      *)
(***************************************************************************)
EXTENDS SelfUpdate, TLAPS

(* A release has a version. *)
LEMMA TagOfRelease ==
  ASSUME NEW r \in Releases
  PROVE  /\ r.tag \in Versions /\ r.tag.valid \in BOOLEAN
         /\ r.tag.core \in Nat /\ r.tag.pre \in Nat
BY SelfUpdateAssumption DEF ReleaseType, Versions

LEMMA InitIInv == Init => IInv
<1> SUFFICES ASSUME Init PROVE IInv
  OBVIOUS
<1> USE SelfUpdateAssumption DEF Init, Builds
<1>1. TypeOK
  <2>1. 1 \in Builds /\ 1 \in 0 .. MaxBuild /\ 0 \in 0 .. MaxBuild
    BY DEF Builds
  <2>2. listed \subseteq Releases \X Builds
    BY <2>1
  <2>3. disk \in Binary
    BY <2>1 DEF Binary
  <2>4. version \in Versions
    BY TagOfRelease
  <2>5. sums \in [Releases -> 0 .. MaxBuild] /\ archive \in [Releases -> Builds]
    BY <2>1
  <2> QED
    BY <2>1, <2>2, <2>3, <2>4, <2>5 DEF TypeOK
<1>2. CallInv
  BY DEF CallInv, Downloading
<1>3. DiskInv
  BY DEF DiskInv
<1> QED
  BY <1>1, <1>2, <1>3 DEF IInv

(* The releases change: what has been listed stays listed. *)
LEMMA GitHubStep ==
  ASSUME IInv, GitHub
  PROVE  IInv'
<1> USE SelfUpdateAssumption DEF IInv, Builds, calls, file, process
<1>1. ASSUME NEW r \in Releases, Publish(r) PROVE IInv'
  <2>1. TypeOK'
    BY <1>1 DEF TypeOK, Publish
  <2>2. CallInv'
    BY <1>1 DEF CallInv, Publish, Downloading, Newer
  <2>3. DiskInv'
    BY <1>1 DEF DiskInv, Publish, Newer
  <2> QED
    BY <2>1, <2>2, <2>3
<1>2. ASSUME NEW r \in Releases, Upload(r) PROVE IInv'
  <2>1. TypeOK'
    BY <1>2 DEF TypeOK, Upload
  <2>2. CallInv'
    BY <1>2 DEF CallInv, Upload, Downloading, Newer
  <2>3. DiskInv'
    BY <1>2 DEF DiskInv, Upload, Newer
  <2> QED
    BY <2>1, <2>2, <2>3
<1>3. ASSUME NEW r \in Releases, List(r) PROVE IInv'
  <2>1. TypeOK'
    BY <1>3 DEF TypeOK, List
  <2>2. CallInv'
    BY <1>3 DEF CallInv, List, Downloading, Newer
  <2>3. DiskInv'
    BY <1>3 DEF DiskInv, List, Newer, TypeOK
  <2> QED
    BY <2>1, <2>2, <2>3
<1> QED
  BY <1>1, <1>2, <1>3 DEF GitHub

(* A step of a call. *)
LEMMA CallStep ==
  ASSUME IInv, NEW c \in Callers, Call(c)
  PROVE  IInv'
<1> USE SelfUpdateAssumption DEF IInv, Builds, github, file, process
<1>1. CASE CheckCached(c)
  <2>1. TypeOK'
    BY <1>1 DEF TypeOK, CheckCached, Begin, Return
  <2>2. CallInv'
    BY <1>1 DEF TypeOK, CallInv, CheckCached, Begin, Return, Downloading, Newer
  <2>3. DiskInv'
    BY <1>1 DEF DiskInv, CheckCached, Newer
  <2> QED
    BY <2>1, <2>2, <2>3
<1>2. CASE Check(c)
  <2>1. TypeOK'
    BY <1>2 DEF TypeOK, Check, Begin
  <2>2. CallInv'
    BY <1>2 DEF TypeOK, CallInv, Check, Begin, Downloading, Newer
  <2>3. DiskInv'
    BY <1>2 DEF DiskInv, Check, Newer
  <2> QED
    BY <2>1, <2>2, <2>3
<1>3. ASSUME NEW o \in {"apply", "command"}, Apply(c, o) PROVE IInv'
  <2>1. TypeOK'
    BY <1>3 DEF TypeOK, Apply, Begin
  <2>2. CallInv'
    BY <1>3 DEF TypeOK, CallInv, Apply, Begin, Downloading, Newer
  <2>3. DiskInv'
    BY <1>3 DEF DiskInv, Apply, Newer
  <2> QED
    BY <2>1, <2>2, <2>3
<1>4. CASE Answered(c)
  <2>1. TypeOK'
    BY <1>4 DEF TypeOK, Answered
  <2>2. CallInv'
    BY <1>4 DEF TypeOK, CallInv, Answered, Downloading, Newer
  <2>3. DiskInv'
    BY <1>4 DEF DiskInv, Answered, Newer
  <2> QED
    BY <2>1, <2>2, <2>3
<1>5. CASE Store(c)
  <2>1. TypeOK'
    BY <1>5 DEF TypeOK, Store, Return, CallInv
  <2>2. CallInv'
    <3>1. CASE op' = [op EXCEPT ![c] = "install"] /\ pc' = [pc EXCEPT ![c] = "ask"]
              /\ UNCHANGED <<got, want, data>>
      BY <1>5, <3>1 DEF TypeOK, CallInv, Store, Downloading, Newer
    <3>2. CASE Return(c) /\ UNCHANGED op
      BY <1>5, <3>2 DEF TypeOK, CallInv, Store, Return, Downloading, Newer
    <3> QED
      BY <1>5, <3>1, <3>2 DEF Store
  <2>3. DiskInv'
    BY <1>5 DEF DiskInv, Store, Newer
  <2> QED
    BY <2>1, <2>2, <2>3
<1>6. CASE Sums(c)
  <2>1. TypeOK'
    BY <1>6 DEF TypeOK, Sums, CallInv, Downloading
  <2>2. CallInv'
    BY <1>6 DEF TypeOK, CallInv, DiskInv, Sums, Downloading, Newer
  <2>3. DiskInv'
    BY <1>6 DEF DiskInv, Sums, Newer
  <2> QED
    BY <2>1, <2>2, <2>3
<1>7. CASE Archive(c)
  <2>1. TypeOK'
    <3>1. PICK b \in {archive[got[c]], Damaged} : data' = [data EXCEPT ![c] = b]
      BY <1>7 DEF Archive
    <3>2. got[c] \in Releases
      BY <1>7 DEF Archive, CallInv, Downloading
    <3>3. b \in 0 .. MaxBuild
      <4>1. archive[got[c]] \in 1 .. MaxBuild
        BY <3>2 DEF TypeOK
      <4> QED
        BY <3>1, <4>1 DEF Damaged
    <3> QED
      BY <1>7, <3>1, <3>3 DEF TypeOK, Archive
  <2>2. CallInv'
    BY <1>7 DEF TypeOK, CallInv, Archive, Downloading, Newer
  <2>3. DiskInv'
    BY <1>7 DEF DiskInv, Archive, Newer
  <2> QED
    BY <2>1, <2>2, <2>3
<1>8. CASE Verify(c)
  <2>1. TypeOK'
    BY <1>8 DEF TypeOK, Verify
  <2>2. CallInv'
    BY <1>8 DEF TypeOK, CallInv, Verify, Downloading, Newer
  <2>3. DiskInv'
    BY <1>8 DEF DiskInv, Verify, Newer
  <2> QED
    BY <2>1, <2>2, <2>3
<1>9. CASE DownloadFails(c)
  <2>1. TypeOK'
    BY <1>9 DEF TypeOK, DownloadFails, Return
  <2>2. CallInv'
    BY <1>9 DEF TypeOK, CallInv, DownloadFails, Return, Downloading, Newer
  <2>3. DiskInv'
    BY <1>9 DEF DiskInv, DownloadFails, Newer
  <2> QED
    BY <2>1, <2>2, <2>3
<1>9a. CASE Refused(c)
  <2>1. TypeOK'
    BY <1>9a DEF TypeOK, Refused, Return
  <2>2. CallInv'
    BY <1>9a DEF TypeOK, CallInv, Refused, Return, Downloading, Newer
  <2>3. DiskInv'
    BY <1>9a DEF DiskInv, Refused, Newer
  <2> QED
    BY <2>1, <2>2, <2>3
<1>10. CASE MoveAway(c)
  <2>1. TypeOK'
    BY <1>10 DEF TypeOK, MoveAway
  <2>2. CallInv'
    BY <1>10 DEF TypeOK, CallInv, MoveAway, Downloading, Newer
  <2>3. DiskInv'
    BY <1>10 DEF DiskInv, MoveAway, Newer
  <2> QED
    BY <2>1, <2>2, <2>3
<1>11. CASE MoveIn(c)
  <2>0. got[c] \in Releases /\ data[c] \in Builds /\ <<got[c], data[c]>> \in listed
        /\ Newer(got[c].tag, version)
    BY <1>11 DEF TypeOK, CallInv, MoveIn, Downloading
  <2>1. TypeOK'
    BY <1>11, <2>0 DEF TypeOK, MoveIn, Return, Binary
  <2>2. CallInv'
    BY <1>11 DEF TypeOK, CallInv, MoveIn, Return, Downloading, Newer
  <2>3. DiskInv'
    BY <1>11, <2>0 DEF DiskInv, MoveIn, Newer
  <2> QED
    BY <2>1, <2>2, <2>3
<1>12. CASE MoveBack(c)
  <2>1. TypeOK'
    BY <1>12 DEF TypeOK, MoveBack, Return
  <2>2. CallInv'
    BY <1>12 DEF TypeOK, CallInv, MoveBack, Return, Downloading, Newer
  <2>3. DiskInv'
    BY <1>12 DEF DiskInv, MoveBack, Newer
  <2> QED
    BY <2>1, <2>2, <2>3
<1> QED
  BY <1>1, <1>2, <1>3, <1>4, <1>5, <1>6, <1>7, <1>8, <1>9, <1>9a, <1>10, <1>11, <1>12
  DEF Call

(* A step of the process: only its start changes the version.              *)
LEMMA ProcessStep ==
  ASSUME IInv, Process
  PROVE  IInv'
<1> USE SelfUpdateAssumption DEF IInv, Builds, github, calls, file
<1>1. CASE Spawn \/ RestartQuits \/ UserQuits \/ SecondInstance
  <2>1. TypeOK'
    BY <1>1 DEF TypeOK, Spawn, RestartQuits, UserQuits, SecondInstance
  <2>2. CallInv'
    BY <1>1 DEF CallInv, Spawn, RestartQuits, UserQuits, SecondInstance,
                Downloading, Newer
  <2>3. DiskInv'
    BY <1>1 DEF DiskInv, Spawn, RestartQuits, UserQuits, SecondInstance, Newer
  <2> QED
    BY <2>1, <2>2, <2>3
<1>2. CASE Exit
  <2>1. TypeOK'
    <3>1. 0 \in 0 .. MaxBuild
      OBVIOUS
    <3> QED
      BY <1>2, <3>1 DEF TypeOK, Exit
  <2>2. CallInv'
    BY <1>2 DEF CallInv, Exit, Downloading
  <2>3. DiskInv'
    BY <1>2 DEF DiskInv, Exit, Newer
  <2> QED
    BY <2>1, <2>2, <2>3
<1>3. CASE Startup
  <2>1. TypeOK'
    BY <1>3, TagOfRelease DEF TypeOK, Startup, Binary
  <2>2. CallInv'
    BY <1>3 DEF CallInv, Startup, Downloading
  <2>3. DiskInv'
    BY <1>3 DEF DiskInv, Startup
  <2> QED
    BY <2>1, <2>2, <2>3
<1> QED
  BY <1>1, <1>2, <1>3 DEF Process

LEMMA NextIInv == IInv /\ [Next]_vars => IInv'
<1> SUFFICES ASSUME IInv, [Next]_vars PROVE IInv'
  OBVIOUS
<1>1. CASE Expire
  BY <1>1 DEF Expire, IInv, TypeOK, CallInv, DiskInv, Newer, github, calls, file, process
<1>2. CASE UNCHANGED vars
  BY <1>2 DEF vars, IInv, TypeOK, CallInv, DiskInv, Newer, github, calls, file, process
<1> QED
  BY <1>1, <1>2, GitHubStep, CallStep, ProcessStep DEF Next

(* Type correctness of the updater and its process (selfupdate.go:63-71).  *)
THEOREM TypeCorrect == Spec => []TypeOK
<1>1. IInv => TypeOK
  BY DEF IInv
<1> QED
  BY <1>1, InitIInv, NextIInv, PTL DEF Spec

(* An executable in its place was shipped, or came from an archive that    *)
(* had been listed for its own release (apply.go:46-48,81-84).             *)
THEOREM InstalledVerifiedHolds == Spec => []InstalledVerified
<1>1. IInv => InstalledVerified
  BY DEF IInv, DiskInv, InstalledVerified
<1> QED
  BY <1>1, InitIInv, NextIInv, PTL DEF Spec

(* The version that runs never goes back, for whatever versions the        *)
(* releases have and in whatever order they become the latest              *)
(* (selfupdate.go:205-223).                                                *)
THEOREM NeverBackwardsHolds == Spec => NeverBackwards
<1>1. ASSUME IInv, [Next]_vars, version' # version
      PROVE  Above(version', version) /\ (version'.pre # 0 => version.pre # 0)
  <2>1. Startup
    BY <1>1 DEF Next, vars, GitHub, Publish, Upload, List, Expire, Call, CheckCached,
       Check, Apply, Answered, Store, Sums, Archive, Verify, DownloadFails,
       Refused, MoveAway, MoveIn, MoveBack, Process, Spawn, RestartQuits, UserQuits, Exit, SecondInstance,
       process
  <2>2. version' = disk.rel.tag /\ Newer(disk.rel.tag, version)
    BY <1>1, <2>1 DEF Startup, IInv, DiskInv
  <2> QED
    BY <2>2 DEF Newer
<1>2. IInv /\ [Next]_vars =>
         [version' # version =>
            Above(version', version) /\ (version'.pre # 0 => version.pre # 0)]_vars
  BY <1>1
<1> QED
  BY <1>2, InitIInv, NextIInv, PTL DEF Spec, NeverBackwards
=============================================================================
