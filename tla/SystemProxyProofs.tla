------------------------ MODULE SystemProxyProofs ------------------------
(* Theorems about SystemProxy, for any ports, platforms, settings and      *)
(* bounds, and whether or not calls overlap.                               *)
EXTENDS SystemProxy, TLAPS

USE DEF disk, sup, calls, budget, fixed

(* Copying fields of one setting into another. *)
LEMMA CopyFact ==
    ASSUME NEW s \in Setting, NEW b \in Setting, NEW fs \in SUBSET Fields
    PROVE  /\ Copy(s, b, fs) \in Setting
           /\ Copy(s, b, fs).en = IF "en" \in fs THEN b.en ELSE s.en
           /\ Copy(s, b, fs).host = IF "host" \in fs THEN b.host ELSE s.host
           /\ Copy(s, b, fs).port = IF "port" \in fs THEN b.port ELSE s.port
BY DEF Copy, Setting

(* What is written next is some of what is left to write. *)
LEMMA NextFields ==
    ASSUME NEW fs \in SUBSET Fields, fs # {}
    PROVE  /\ ApplyNext(fs) \subseteq fs /\ ApplyNext(fs) # {}
           /\ RestoreNext(fs) \subseteq fs /\ RestoreNext(fs) # {}
           /\ fs \ ApplyNext(fs) = {} <=> fs = ApplyNext(fs)
           /\ fs \ RestoreNext(fs) = {} <=> fs = RestoreNext(fs)
<1>1. /\ ServerFirst(fs) \subseteq fs /\ ServerFirst(fs) # {}
      /\ SwitchFirst(fs) \subseteq fs /\ SwitchFirst(fs) # {}
  BY DEF ServerFirst, SwitchFirst, Fields
<1>2. /\ ApplyNext(fs) \subseteq fs /\ ApplyNext(fs) # {}
      /\ RestoreNext(fs) \subseteq fs /\ RestoreNext(fs) # {}
  BY <1>1 DEF ApplyNext, RestoreNext
<1> QED
  BY <1>2

(* A restore has something to write. *)
LEMMA OwedFact ==
    ASSUME NEW b \in Setting
    PROVE  /\ Owed(b) \in SUBSET Fields /\ Owed(b) # {}
           /\ Target(b) \in Setting
<1>1. Owed(b) \in SUBSET Fields /\ Owed(b) # {}
  BY DEF Owed, Fields
<1>2. [b EXCEPT !.en = "off"] \in Setting
  BY DEF Setting
<1> QED
  BY <1>1, <1>2 DEF Target

(* What is restored from a sound backup is the user's, all of it if a      *)
(* proxy was in use.                                                       *)
LEMMA TargetFact ==
    ASSUME NEW b \in Setting, orig \in Setting, Sound, UsersOwn(b)
    PROVE  /\ UsersOwn(Target(b))
           /\ On(Target(b)) => Owed(b) = Fields
<1>1. CASE On(orig)
  <2>1. b.en = orig.en /\ b.host = orig.host /\ b.port = orig.port
    BY <1>1 DEF UsersOwn, On
  <2>2. Owed(b) = Fields
    BY <1>1, <2>1 DEF Sound, Owed
  <2>3. Owed(b) # {"en"}
    BY <2>2 DEF Fields
  <2>4. Target(b) = b
    BY <1>1, <2>1, <2>3 DEF Target, On
  <2> QED
    BY <2>2, <2>4
<1>2. CASE ~On(orig)
  <2>1. b.en # "on"
    BY <1>2 DEF UsersOwn, On
  <2>2. ~On(Target(b))
    <3>1. CASE Target(b) = b
      BY <2>1, <3>1 DEF On
    <3>2. CASE Target(b) = [b EXCEPT !.en = "off"]
      BY <3>2 DEF On, Setting
    <3> QED
      BY <3>1, <3>2 DEF Target
  <2> QED
    BY <1>2, <2>2 DEF UsersOwn
<1> QED
  BY <1>1, <1>2

(* A backup that was in doubt stays so. *)
LEMMA SoundFact ==
    ASSUME UNCHANGED fixed, lapses \subseteq lapses', Sound'
    PROVE  Sound /\ lapses = {} /\ lapses' = {}
BY DEF Sound, On, Owed

LEMMA FaultType ==
    ASSUME TypeOK, Fault
    PROVE  /\ faults' \in 0 .. MaxFaults /\ calm' \in BOOLEAN
           /\ crashes' \in 0 .. MaxCrashes
<1>1. faults \in 0 .. MaxFaults
  BY DEF TypeOK
<1>2. MaxFaults \in Nat
  BY SystemProxyAssumption
<1>3. faults > 0 /\ faults' = faults - 1 /\ calm' = FALSE
  BY DEF Fault
<1>4. faults' \in 0 .. MaxFaults
  BY <1>1, <1>2, <1>3
<1>5. crashes' \in 0 .. MaxCrashes
  BY DEF Fault, TypeOK
<1> QED
  BY <1>3, <1>4, <1>5

LEMMA InitIInv == Init => IInv
<1> SUFFICES ASSUME Init PROVE IInv
  OBVIOUS
<1> USE SystemProxyAssumption DEF Init, NoCalls
<1>1. orig \in Setting
  OBVIOUS
<1>2. TypeOK
  <2>1. faults \in 0 .. MaxFaults /\ crashes \in 0 .. MaxCrashes
    OBVIOUS
  <2>2. pc \in [Calls -> Places] /\ bad \in [Calls -> BOOLEAN]
    BY DEF Places
  <2>3. todo \in [Calls -> SUBSET Fields] /\ mem \in [Calls -> Setting \cup {None}]
    OBVIOUS
  <2> QED
    BY <1>1, <2>1, <2>2, <2>3, Zenon DEF TypeOK
<1>3. MutexInv
  BY DEF MutexInv, Calls, Critical
<1>4. ApplyInv /\ NeverLost /\ RestoreOwed /\ OwedInv
  BY DEF ApplyInv, NeverLost, UsersOwn, RestoreOwed, OwedInv, Calls, Critical
<1>5. \A c \in Restorers : RestoreInv(c)
  BY DEF RestoreInv, Restorers, Calls
<1> QED
  BY <1>2, <1>3, <1>4, <1>5 DEF IInv

LEMMA LaunchStep ==
    ASSUME IInv, Launch PROVE IInv'
<1> USE SystemProxyAssumption DEF IInv
<1>s. Sound' => Sound /\ lapses = {} /\ lapses' = {}
  BY SoundFact DEF Launch, Goto
<1>1. TypeOK'
  BY DEF TypeOK, MutexInv, ApplyInv, RestoreInv, Calls, Places, Restorers,
     Critical, Launch, Goto
<1>2. MutexInv'
  BY DEF TypeOK, Calls, Restorers, MutexInv, Critical, Launch, Goto
<1>3. ApplyInv'
  BY <1>s DEF TypeOK, Calls, Restorers, MutexInv, Critical, ApplyInv,
     UsersOwn, On, Launch, Goto
<1>4. OwedInv'
  BY DEF TypeOK, Calls, Restorers, MutexInv, Critical, ApplyInv, OwedInv,
     Launch, Goto
<1>5. (\A d \in Restorers : RestoreInv(d))'
  BY <1>s DEF TypeOK, Calls, Restorers, MutexInv, Critical, ApplyInv,
     RestoreInv, UsersOwn, On, Launch, Goto
<1>6. NeverLost'
  BY <1>s DEF TypeOK, Calls, Restorers, MutexInv, Critical, ApplyInv,
     RestoreInv, NeverLost, UsersOwn, On, Launch, Goto
<1>7. RestoreOwed'
  BY DEF TypeOK, Calls, Restorers, MutexInv, Critical, ApplyInv, OwedInv,
     RestoreOwed, Launch, Goto
<1> QED
  BY <1>1, <1>2, <1>3, <1>4, <1>5, <1>6, <1>7

LEMMA StartStep ==
    ASSUME IInv, NEW p \in Ports \cup {None}, Start(p) PROVE IInv'
<1> USE SystemProxyAssumption DEF IInv
<1>s. Sound' => Sound /\ lapses = {} /\ lapses' = {}
  BY SoundFact DEF Start, Ready, Goto
<1>1. TypeOK'
  BY DEF TypeOK, MutexInv, ApplyInv, RestoreInv, Calls, Places, Restorers,
     Critical, Start, Ready, Goto
<1>2. MutexInv'
  BY DEF TypeOK, Calls, Restorers, MutexInv, Critical, Start, Ready, Goto
<1>3. ApplyInv'
  BY <1>s DEF TypeOK, Calls, Restorers, MutexInv, Critical, ApplyInv,
     UsersOwn, On, Start, Ready, Goto
<1>4. OwedInv'
  BY DEF TypeOK, Calls, Restorers, MutexInv, Critical, ApplyInv, OwedInv,
     Start, Ready, Goto
<1>5. (\A d \in Restorers : RestoreInv(d))'
  BY <1>s DEF TypeOK, Calls, Restorers, MutexInv, Critical, ApplyInv,
     RestoreInv, UsersOwn, On, Start, Ready, Goto
<1>6. NeverLost'
  BY <1>s DEF TypeOK, Calls, Restorers, MutexInv, Critical, ApplyInv,
     RestoreInv, NeverLost, UsersOwn, On, Start, Ready, Goto
<1>7. RestoreOwed'
  BY DEF TypeOK, Calls, Restorers, MutexInv, Critical, ApplyInv, OwedInv,
     RestoreOwed, Start, Ready, Goto
<1> QED
  BY <1>1, <1>2, <1>3, <1>4, <1>5, <1>6, <1>7

LEMMA StopStep ==
    ASSUME IInv, Stop PROVE IInv'
<1> USE SystemProxyAssumption DEF IInv
<1>s. Sound' => Sound /\ lapses = {} /\ lapses' = {}
  BY SoundFact DEF Stop, Ready, Goto
<1>1. TypeOK'
  BY DEF TypeOK, MutexInv, ApplyInv, RestoreInv, Calls, Places, Restorers,
     Critical, Stop, Ready, Goto
<1>2. MutexInv'
  BY DEF TypeOK, Calls, Restorers, MutexInv, Critical, Stop, Ready, Goto
<1>3. ApplyInv'
  BY <1>s DEF TypeOK, Calls, Restorers, MutexInv, Critical, ApplyInv,
     UsersOwn, On, Stop, Ready, Goto
<1>4. OwedInv'
  BY DEF TypeOK, Calls, Restorers, MutexInv, Critical, ApplyInv, OwedInv,
     Stop, Ready, Goto
<1>5. (\A d \in Restorers : RestoreInv(d))'
  BY <1>s DEF TypeOK, Calls, Restorers, MutexInv, Critical, ApplyInv,
     RestoreInv, UsersOwn, On, Stop, Ready, Goto
<1>6. NeverLost'
  BY <1>s DEF TypeOK, Calls, Restorers, MutexInv, Critical, ApplyInv,
     RestoreInv, NeverLost, UsersOwn, On, Stop, Ready, Goto
<1>7. RestoreOwed'
  BY DEF TypeOK, Calls, Restorers, MutexInv, Critical, ApplyInv, OwedInv,
     RestoreOwed, Stop, Ready, Goto
<1> QED
  BY <1>1, <1>2, <1>3, <1>4, <1>5, <1>6, <1>7

LEMMA QuitStep ==
    ASSUME IInv, Quit PROVE IInv'
<1> USE SystemProxyAssumption DEF IInv
<1>s. Sound' => Sound /\ lapses = {} /\ lapses' = {}
  BY SoundFact DEF Quit, Ready, SupStop, Goto
<1>1. TypeOK'
  BY DEF TypeOK, MutexInv, ApplyInv, RestoreInv, Calls, Places, Restorers,
     Critical, Quit, Ready, SupStop, Goto
<1>2. MutexInv'
  BY DEF TypeOK, Calls, Restorers, MutexInv, Critical, Quit, Ready, SupStop,
     Goto
<1>3. ApplyInv'
  BY <1>s DEF TypeOK, Calls, Restorers, MutexInv, Critical, ApplyInv,
     UsersOwn, On, Quit, Ready, SupStop, Goto
<1>4. OwedInv'
  BY DEF TypeOK, Calls, Restorers, MutexInv, Critical, ApplyInv, OwedInv,
     Quit, Ready, SupStop, Goto
<1>5. (\A d \in Restorers : RestoreInv(d))'
  BY <1>s DEF TypeOK, Calls, Restorers, MutexInv, Critical, ApplyInv,
     RestoreInv, UsersOwn, On, Quit, Ready, SupStop, Goto
<1>6. NeverLost'
  BY <1>s DEF TypeOK, Calls, Restorers, MutexInv, Critical, ApplyInv,
     RestoreInv, NeverLost, UsersOwn, On, Quit, Ready, SupStop, Goto
<1>7. RestoreOwed'
  BY DEF TypeOK, Calls, Restorers, MutexInv, Critical, ApplyInv, OwedInv,
     RestoreOwed, Quit, Ready, SupStop, Goto
<1> QED
  BY <1>1, <1>2, <1>3, <1>4, <1>5, <1>6, <1>7

LEMMA SettleStep ==
    ASSUME IInv, Settle PROVE IInv'
<1> USE SystemProxyAssumption DEF IInv
<1>s. Sound' => Sound /\ lapses = {} /\ lapses' = {}
  BY SoundFact DEF Settle, Goto
<1>1. TypeOK'
  BY DEF TypeOK, MutexInv, ApplyInv, RestoreInv, Calls, Places, Restorers,
     Critical, Settle, Goto
<1>2. MutexInv'
  BY DEF TypeOK, Calls, Restorers, MutexInv, Critical, Settle, Goto
<1>3. ApplyInv'
  BY <1>s DEF TypeOK, Calls, Restorers, MutexInv, Critical, ApplyInv,
     UsersOwn, On, Settle, Goto
<1>4. OwedInv'
  BY DEF TypeOK, Calls, Restorers, MutexInv, Critical, ApplyInv, OwedInv,
     Settle, Goto
<1>5. (\A d \in Restorers : RestoreInv(d))'
  BY <1>s DEF TypeOK, Calls, Restorers, MutexInv, Critical, ApplyInv,
     RestoreInv, UsersOwn, On, Settle, Goto
<1>6. NeverLost'
  BY <1>s DEF TypeOK, Calls, Restorers, MutexInv, Critical, ApplyInv,
     RestoreInv, NeverLost, UsersOwn, On, Settle, Goto
<1>7. RestoreOwed'
  BY DEF TypeOK, Calls, Restorers, MutexInv, Critical, ApplyInv, OwedInv,
     RestoreOwed, Settle, Goto
<1> QED
  BY <1>1, <1>2, <1>3, <1>4, <1>5, <1>6, <1>7

LEMMA ApplyLockStep ==
    ASSUME IInv, ApplyLock PROVE IInv'
<1> USE SystemProxyAssumption DEF IInv
<1>s. Sound' => Sound /\ lapses = {} /\ lapses' = {}
  BY SoundFact DEF ApplyLock, Enter, Goto
<1>1. TypeOK'
  BY DEF TypeOK, MutexInv, ApplyInv, RestoreInv, Calls, Places, Restorers,
     Critical, ApplyLock, Enter, Goto
<1>2. MutexInv'
  BY DEF TypeOK, Calls, Restorers, MutexInv, Critical, ApplyLock, Enter,
     Goto
<1>3. ApplyInv'
  BY <1>s DEF TypeOK, Calls, Restorers, MutexInv, Critical, ApplyInv,
     UsersOwn, On, ApplyLock, Enter, Goto
<1>4. OwedInv'
  BY DEF TypeOK, Calls, Restorers, MutexInv, Critical, ApplyInv, OwedInv,
     ApplyLock, Enter, Goto
<1>5. (\A d \in Restorers : RestoreInv(d))'
  BY <1>s DEF TypeOK, Calls, Restorers, MutexInv, Critical, ApplyInv,
     RestoreInv, UsersOwn, On, ApplyLock, Enter, Goto
<1>6. NeverLost'
  BY <1>s DEF TypeOK, Calls, Restorers, MutexInv, Critical, ApplyInv,
     RestoreInv, NeverLost, UsersOwn, On, ApplyLock, Enter, Goto
<1>7. RestoreOwed'
  BY DEF TypeOK, Calls, Restorers, MutexInv, Critical, ApplyInv, OwedInv,
     RestoreOwed, ApplyLock, Enter, Goto
<1> QED
  BY <1>1, <1>2, <1>3, <1>4, <1>5, <1>6, <1>7

LEMMA SaveStep ==
    ASSUME IInv, Save PROVE IInv'
<1> USE SystemProxyAssumption DEF IInv
<1>s. Sound' => Sound /\ lapses = {} /\ lapses' = {}
  BY SoundFact DEF Save, Goto
<1>1. TypeOK'
  BY DEF TypeOK, MutexInv, ApplyInv, RestoreInv, Calls, Places, Restorers,
     Critical, Save, Goto
<1>2. MutexInv'
  BY DEF TypeOK, Calls, Restorers, MutexInv, Critical, Save, Goto
<1>3. ApplyInv'
  BY <1>s DEF Fields, TypeOK, Calls, Restorers, MutexInv, Critical,
     ApplyInv, UsersOwn, On, Save, Goto
<1>4. OwedInv'
  BY DEF TypeOK, Calls, Restorers, MutexInv, Critical, ApplyInv, OwedInv,
     Save, Goto
<1>5. (\A d \in Restorers : RestoreInv(d))'
  BY <1>s DEF TypeOK, Calls, Restorers, MutexInv, Critical, ApplyInv,
     RestoreInv, UsersOwn, On, Save, Goto
<1>6. NeverLost'
  BY <1>s DEF TypeOK, Calls, Restorers, MutexInv, Critical, ApplyInv,
     RestoreInv, NeverLost, UsersOwn, On, Save, Goto
<1>7. RestoreOwed'
  BY DEF TypeOK, Calls, Restorers, MutexInv, Critical, ApplyInv, OwedInv,
     RestoreOwed, Save, Goto
<1> QED
  BY <1>1, <1>2, <1>3, <1>4, <1>5, <1>6, <1>7

LEMMA SaveUnseenStep ==
    ASSUME IInv, SaveUnseen PROVE IInv'
<1> USE SystemProxyAssumption DEF IInv
<1>f. /\ faults' \in 0 .. MaxFaults /\ calm' \in BOOLEAN
      /\ crashes' \in 0 .. MaxCrashes
  BY FaultType DEF SaveUnseen
<1>s. Sound' => Sound /\ lapses = {} /\ lapses' = {}
  BY SoundFact DEF SaveUnseen, Fault, Goto
<1>1. TypeOK'
  <2>1. pc' \in [Calls -> Places] /\ bad' \in [Calls -> BOOLEAN]
    BY DEF TypeOK, Calls, Places, Restorers, SaveUnseen, Goto
  <2>2. todo' \in [Calls -> SUBSET Fields] /\ mem' \in [Calls -> Setting \cup {None}]
    BY DEF TypeOK, Calls, Restorers, SaveUnseen, Goto
  <2>3. lapses' \subseteq {"misread", "unseen", "undeleted", "overlap"}
    BY DEF TypeOK, SaveUnseen, Goto
  <2> QED
    BY <1>f, <2>1, <2>2, <2>3 DEF TypeOK, Calls, Restorers, SaveUnseen, Goto
<1>2. MutexInv'
  BY DEF TypeOK, Calls, Restorers, MutexInv, Critical, SaveUnseen, Fault,
     Goto
<1>3. ApplyInv'
  BY <1>s DEF Fields, TypeOK, Calls, Restorers, MutexInv, Critical,
     ApplyInv, UsersOwn, On, SaveUnseen, Fault, Goto
<1>4. OwedInv'
  BY DEF TypeOK, Calls, Restorers, MutexInv, Critical, ApplyInv, OwedInv,
     SaveUnseen, Fault, Goto
<1>5. (\A d \in Restorers : RestoreInv(d))'
  BY <1>s DEF TypeOK, Calls, Restorers, MutexInv, Critical, ApplyInv,
     RestoreInv, UsersOwn, On, SaveUnseen, Fault, Goto
<1>6. NeverLost'
  BY <1>s DEF TypeOK, Calls, Restorers, MutexInv, Critical, ApplyInv,
     RestoreInv, NeverLost, UsersOwn, On, SaveUnseen, Fault, Goto
<1>7. RestoreOwed'
  BY DEF TypeOK, Calls, Restorers, MutexInv, Critical, ApplyInv, OwedInv,
     RestoreOwed, SaveUnseen, Fault, Goto
<1> QED
  BY <1>1, <1>2, <1>3, <1>4, <1>5, <1>6, <1>7

LEMMA CaptureStep ==
    ASSUME IInv, Capture PROVE IInv'
<1> USE SystemProxyAssumption DEF IInv
<1>s. Sound' => Sound /\ lapses = {} /\ lapses' = {}
  BY SoundFact DEF Capture, Goto
<1>1. TypeOK'
  BY DEF TypeOK, MutexInv, ApplyInv, RestoreInv, Calls, Places, Restorers,
     Critical, Capture, Goto
<1>2. MutexInv'
  BY DEF TypeOK, Calls, Restorers, MutexInv, Critical, Capture, Goto
<1>3. ApplyInv'
  BY <1>s DEF NeverLost, TypeOK, Calls, Restorers, MutexInv, Critical,
     ApplyInv, UsersOwn, On, Capture, Goto
<1>4. OwedInv'
  BY DEF TypeOK, Calls, Restorers, MutexInv, Critical, ApplyInv, OwedInv,
     Capture, Goto
<1>5. (\A d \in Restorers : RestoreInv(d))'
  BY <1>s DEF TypeOK, Calls, Restorers, MutexInv, Critical, ApplyInv,
     RestoreInv, UsersOwn, On, Capture, Goto
<1>6. NeverLost'
  BY <1>s DEF TypeOK, Calls, Restorers, MutexInv, Critical, ApplyInv,
     RestoreInv, NeverLost, UsersOwn, On, Capture, Goto
<1>7. RestoreOwed'
  BY DEF TypeOK, Calls, Restorers, MutexInv, Critical, ApplyInv, OwedInv,
     RestoreOwed, Capture, Goto
<1> QED
  BY <1>1, <1>2, <1>3, <1>4, <1>5, <1>6, <1>7

LEMMA CaptureMisreadsStep ==
    ASSUME IInv, CaptureMisreads PROVE IInv'
<1> USE SystemProxyAssumption DEF IInv
<1>m. mem' \in [Calls -> Setting \cup {None}] /\ mem'["start"] \in Setting
  <2>1. PICK failed \in SUBSET Reads : mem' = [mem EXCEPT !["start"] = Copy(os, Absent, UNION failed)]
    BY DEF CaptureMisreads
  <2>2. UNION failed \in SUBSET Fields
    BY DEF Reads, Fields
  <2>3. Copy(os, Absent, UNION failed) \in Setting
    BY <2>2, CopyFact DEF TypeOK, Absent, Setting
  <2> QED
    BY <2>1, <2>3 DEF TypeOK, Calls
<1>g. /\ pc' = [pc EXCEPT !["start"] = "write"] /\ pc["start"] = "capture"
      /\ lapses' = lapses \cup {"misread"}
      /\ UNCHANGED <<fixed, disk, alive, on, mu, sup, snap, todo, bad>>
  BY DEF CaptureMisreads, Goto
<1>f. /\ faults' \in 0 .. MaxFaults /\ calm' \in BOOLEAN
      /\ crashes' \in 0 .. MaxCrashes
  BY FaultType DEF CaptureMisreads
<1>s. Sound' => Sound /\ lapses = {} /\ lapses' = {}
  BY SoundFact DEF CaptureMisreads, Fault, Goto
<1>1. TypeOK'
  <2>1. pc' \in [Calls -> Places]
    BY <1>g DEF TypeOK, Calls, Places
  <2>2. lapses' \subseteq {"misread", "unseen", "undeleted", "overlap"}
    BY <1>g DEF TypeOK
  <2> QED
    BY <1>f, <1>g, <1>m, <2>1, <2>2 DEF TypeOK
<1>2. MutexInv'
  BY DEF TypeOK, Calls, Restorers, MutexInv, Critical, CaptureMisreads,
     Fault, Goto
<1>3. ApplyInv'
  BY <1>g, <1>m, <1>s, SystemProxyAssumption
     DEF TypeOK, Calls, ApplyInv, Critical, MutexInv
<1>4. OwedInv'
  BY DEF TypeOK, Calls, Restorers, MutexInv, Critical, ApplyInv, OwedInv,
     CaptureMisreads, Fault, Goto
<1>5. (\A d \in Restorers : RestoreInv(d))'
  BY <1>s DEF TypeOK, Calls, Restorers, MutexInv, Critical, ApplyInv,
     RestoreInv, UsersOwn, On, CaptureMisreads, Fault, Goto
<1>6. NeverLost'
  BY <1>s DEF TypeOK, Calls, Restorers, MutexInv, Critical, ApplyInv,
     RestoreInv, NeverLost, UsersOwn, On, CaptureMisreads, Fault, Goto
<1>7. RestoreOwed'
  BY DEF TypeOK, Calls, Restorers, MutexInv, Critical, ApplyInv, OwedInv,
     RestoreOwed, CaptureMisreads, Fault, Goto
<1> QED
  BY <1>1, <1>2, <1>3, <1>4, <1>5, <1>6, <1>7

LEMMA WriteStep ==
    ASSUME IInv, Write PROVE IInv'
<1> USE SystemProxyAssumption DEF IInv
<1>s. Sound' => Sound /\ lapses = {} /\ lapses' = {}
  BY SoundFact DEF Write, Goto
<1>1. TypeOK'
  <2>1. pc' \in [Calls -> Places] /\ bad' \in [Calls -> BOOLEAN]
    BY DEF TypeOK, Calls, Places, Restorers, Write, Goto
  <2>2. todo' \in [Calls -> SUBSET Fields] /\ mem' \in [Calls -> Setting \cup {None}]
    BY DEF TypeOK, Calls, Restorers, Write, Goto
  <2>3. lapses' \subseteq {"misread", "unseen", "undeleted", "overlap"}
    BY DEF TypeOK, Write, Goto
  <2> QED
    BY <2>1, <2>2, <2>3 DEF TypeOK, Calls, Restorers, Write, Goto
<1>2. MutexInv'
  BY DEF TypeOK, Calls, Restorers, MutexInv, Critical, Write, Goto
<1>3. ApplyInv'
  BY <1>s DEF Fields, TypeOK, Calls, Restorers, MutexInv, Critical,
     ApplyInv, UsersOwn, On, Write, Goto
<1>4. OwedInv'
  BY DEF TypeOK, Calls, Restorers, MutexInv, Critical, ApplyInv, OwedInv,
     Write, Goto
<1>5. (\A d \in Restorers : RestoreInv(d))'
  BY <1>s DEF TypeOK, Calls, Restorers, MutexInv, Critical, ApplyInv,
     RestoreInv, UsersOwn, On, Write, Goto
<1>6. NeverLost'
  BY <1>s DEF TypeOK, Calls, Restorers, MutexInv, Critical, ApplyInv,
     RestoreInv, NeverLost, UsersOwn, On, Write, Goto
<1>7. RestoreOwed'
  BY DEF TypeOK, Calls, Restorers, MutexInv, Critical, ApplyInv, OwedInv,
     RestoreOwed, Write, Goto
<1> QED
  BY <1>1, <1>2, <1>3, <1>4, <1>5, <1>6, <1>7

LEMMA SaveFailsStep ==
    ASSUME IInv, SaveFails PROVE IInv'
<1> USE SystemProxyAssumption DEF IInv
<1>f. /\ faults' \in 0 .. MaxFaults /\ calm' \in BOOLEAN
      /\ crashes' \in 0 .. MaxCrashes
  BY FaultType DEF SaveFails
<1>s. Sound' => Sound /\ lapses = {} /\ lapses' = {}
  BY SoundFact DEF SaveFails, Fault, Leave, Goto
<1>1. TypeOK'
  <2>1. pc' \in [Calls -> Places] /\ bad' \in [Calls -> BOOLEAN]
    BY DEF TypeOK, Calls, Places, Restorers, SaveFails, Leave, Goto
  <2>2. todo' \in [Calls -> SUBSET Fields] /\ mem' \in [Calls -> Setting \cup {None}]
    BY DEF TypeOK, Calls, Restorers, SaveFails, Leave, Goto
  <2>3. lapses' \subseteq {"misread", "unseen", "undeleted", "overlap"}
    BY DEF TypeOK, SaveFails, Leave, Goto
  <2> QED
    BY <1>f, <2>1, <2>2, <2>3 DEF TypeOK, Calls, Restorers, SaveFails, Leave,
       Goto
<1>2. MutexInv'
  BY DEF TypeOK, Calls, Restorers, MutexInv, Critical, SaveFails, Fault,
     Leave, Goto
<1>3. ApplyInv'
  BY <1>s DEF TypeOK, Calls, Restorers, MutexInv, Critical, ApplyInv,
     UsersOwn, On, SaveFails, Fault, Leave, Goto
<1>4. OwedInv'
  BY DEF TypeOK, Calls, Restorers, MutexInv, Critical, ApplyInv, OwedInv,
     SaveFails, Fault, Leave, Goto
<1>5. (\A d \in Restorers : RestoreInv(d))'
  BY <1>s DEF TypeOK, Calls, Restorers, MutexInv, Critical, ApplyInv,
     RestoreInv, UsersOwn, On, SaveFails, Fault, Leave, Goto
<1>6. NeverLost'
  BY <1>s DEF TypeOK, Calls, Restorers, MutexInv, Critical, ApplyInv,
     RestoreInv, NeverLost, UsersOwn, On, SaveFails, Fault, Leave, Goto
<1>7. RestoreOwed'
  BY DEF TypeOK, Calls, Restorers, MutexInv, Critical, ApplyInv, OwedInv,
     RestoreOwed, SaveFails, Fault, Leave, Goto
<1> QED
  BY <1>1, <1>2, <1>3, <1>4, <1>5, <1>6, <1>7

LEMMA ApplyStep ==
    ASSUME IInv, Apply PROVE IInv'
<1> USE SystemProxyAssumption DEF IInv
<1>t. /\ todo["start"] \in SUBSET Fields /\ todo["start"] # {} /\ snap \in Ports
      /\ pc["start"] = "apply"
  BY DEF TypeOK, Calls, ApplyInv, Critical, Apply
<1> DEFINE fs == ApplyNext(todo["start"])
<1>n. /\ fs \in SUBSET Fields
      /\ todo["start"] \ fs \in SUBSET Fields
      /\ todo["start"] # fs => todo["start"] \ fs # {}
  BY <1>t, NextFields
<1>o. Ours(snap) \in Setting
  BY <1>t DEF Ours, Setting
<1>w. os' \in Setting
  BY <1>n, <1>o, CopyFact DEF Apply, TypeOK
<1>a. /\ todo["start"] = fs => Leave("start", "idle", FALSE)
      /\ todo["start"] # fs =>
            /\ todo' = [todo EXCEPT !["start"] = todo["start"] \ fs]
            /\ UNCHANGED <<pc, mu, snap, mem, bad>>
      /\ UNCHANGED <<fixed, backup, alive, on, sup, budget>>
  BY DEF Apply
<1> HIDE DEF fs
<1>s. Sound' => Sound /\ lapses = {} /\ lapses' = {}
  BY SoundFact DEF Apply, Leave, Goto
<1>1. TypeOK'
  <2>1. pc' \in [Calls -> Places] /\ bad' \in [Calls -> BOOLEAN]
    <3>1. CASE Leave("start", "idle", FALSE)
      BY <3>1 DEF TypeOK, Calls, Places, Leave, Goto
    <3>2. CASE UNCHANGED <<pc, bad>>
      BY <3>2 DEF TypeOK
    <3> QED
      BY <1>a, <3>1, <3>2
  <2>2. todo' \in [Calls -> SUBSET Fields]
    BY <1>a, <1>n DEF TypeOK, Calls, Leave, Goto
  <2>3. mem' \in [Calls -> Setting \cup {None}] /\ mu' \in Calls \cup {None}
    BY <1>a DEF TypeOK, Calls, Leave, Goto
  <2>4. snap' \in Ports \cup {None}
    BY <1>a DEF TypeOK, Leave, Goto
  <2> QED
    BY <1>a, <1>w, <2>1, <2>2, <2>3, <2>4 DEF TypeOK
<1>2. MutexInv'
  BY <1>a, <1>t, <1>n DEF TypeOK, Calls, Restorers, MutexInv, Critical,
     Leave, Goto
<1>3. ApplyInv'
  BY <1>a, <1>t, <1>n, <1>s DEF TypeOK, Calls, Restorers, MutexInv,
     Critical, ApplyInv, UsersOwn, On, Leave, Goto
<1>4. OwedInv'
  BY <1>a, <1>t, <1>n DEF TypeOK, Calls, Restorers, MutexInv, Critical,
     ApplyInv, OwedInv, Leave, Goto
<1>5. (\A d \in Restorers : RestoreInv(d))'
  BY <1>a, <1>t, <1>n, <1>s DEF TypeOK, Calls, Restorers, MutexInv,
     Critical, ApplyInv, RestoreInv, UsersOwn, On, Leave, Goto
<1>6. NeverLost'
  BY <1>a, <1>t, <1>n, <1>s DEF TypeOK, Calls, Restorers, MutexInv,
     Critical, ApplyInv, RestoreInv, NeverLost, UsersOwn, On, Leave, Goto
<1>7. RestoreOwed'
  BY <1>a, <1>t, <1>n DEF TypeOK, Calls, Restorers, MutexInv, Critical,
     ApplyInv, OwedInv, RestoreOwed, Leave, Goto
<1> QED
  BY <1>1, <1>2, <1>3, <1>4, <1>5, <1>6, <1>7

LEMMA ApplyFailsStep ==
    ASSUME IInv, ApplyFails PROVE IInv'
<1> USE SystemProxyAssumption DEF IInv
<1>t. /\ todo["start"] \in SUBSET Fields /\ todo["start"] # {} /\ snap \in Ports
      /\ pc["start"] = "apply"
  BY DEF TypeOK, Calls, ApplyInv, Critical, ApplyFails
<1> DEFINE fs == ApplyNext(todo["start"])
<1>n. /\ fs \in SUBSET Fields
      /\ todo["start"] \ fs \in SUBSET Fields
      /\ todo["start"] # fs => todo["start"] \ fs # {}
  BY <1>t, NextFields
<1>a. /\ \/ Leave("start", "idle", FALSE)
         \/ /\ todo["start"] # fs
            /\ todo' = [todo EXCEPT !["start"] = todo["start"] \ fs]
            /\ UNCHANGED <<pc, mu, snap, mem, bad>>
      /\ UNCHANGED <<fixed, disk, alive, on, sup, lapses>>
  BY DEF ApplyFails
<1> HIDE DEF fs
<1>f. /\ faults' \in 0 .. MaxFaults /\ calm' \in BOOLEAN
      /\ crashes' \in 0 .. MaxCrashes
  BY FaultType DEF ApplyFails
<1>s. Sound' => Sound /\ lapses = {} /\ lapses' = {}
  BY SoundFact DEF ApplyFails, Fault, Leave, Goto
<1>1. TypeOK'
  <2>1. pc' \in [Calls -> Places] /\ bad' \in [Calls -> BOOLEAN]
    <3>1. CASE Leave("start", "idle", FALSE)
      BY <3>1 DEF TypeOK, Calls, Places, Leave, Goto
    <3>2. CASE UNCHANGED <<pc, bad>>
      BY <3>2 DEF TypeOK
    <3> QED
      BY <1>a, <3>1, <3>2
  <2>2. todo' \in [Calls -> SUBSET Fields]
    BY <1>a, <1>n DEF TypeOK, Calls, Leave, Goto
  <2>3. mem' \in [Calls -> Setting \cup {None}] /\ mu' \in Calls \cup {None}
    BY <1>a DEF TypeOK, Calls, Leave, Goto
  <2>4. snap' \in Ports \cup {None}
    BY <1>a DEF TypeOK, Leave, Goto
  <2> QED
    BY <1>a, <1>f, <2>1, <2>2, <2>3, <2>4 DEF TypeOK
<1>2. MutexInv'
  BY <1>a, <1>t, <1>n DEF TypeOK, Calls, Restorers, MutexInv, Critical,
     Leave, Goto
<1>3. ApplyInv'
  BY <1>a, <1>t, <1>n, <1>s DEF TypeOK, Calls, Restorers, MutexInv,
     Critical, ApplyInv, UsersOwn, On, Leave, Goto
<1>4. OwedInv'
  BY <1>a, <1>t, <1>n DEF TypeOK, Calls, Restorers, MutexInv, Critical,
     ApplyInv, OwedInv, Leave, Goto
<1>5. (\A d \in Restorers : RestoreInv(d))'
  BY <1>a, <1>t, <1>n, <1>s DEF TypeOK, Calls, Restorers, MutexInv,
     Critical, ApplyInv, RestoreInv, UsersOwn, On, Leave, Goto
<1>6. NeverLost'
  BY <1>a, <1>t, <1>n, <1>s DEF TypeOK, Calls, Restorers, MutexInv,
     Critical, ApplyInv, RestoreInv, NeverLost, UsersOwn, On, Leave, Goto
<1>7. RestoreOwed'
  BY <1>a, <1>t, <1>n DEF TypeOK, Calls, Restorers, MutexInv, Critical,
     ApplyInv, OwedInv, RestoreOwed, Leave, Goto
<1> QED
  BY <1>1, <1>2, <1>3, <1>4, <1>5, <1>6, <1>7

LEMMA RestoreLockStep ==
    ASSUME IInv, NEW c \in Restorers, RestoreLock(c) PROVE IInv'
<1> USE SystemProxyAssumption DEF IInv
<1>a. \/ pc' = [pc EXCEPT ![c] = "read"] /\ mu' = c /\ Enter
      \/ pc' = [pc EXCEPT ![c] = "down"] /\ UNCHANGED <<mu, budget>>
  BY DEF RestoreLock, Goto
<1>b. pc' \in [Calls -> Places] /\ mu' \in Calls \cup {None}
  BY <1>a DEF TypeOK, Calls, Places, Restorers
<1>c. lapses' \subseteq {"misread", "unseen", "undeleted", "overlap"}
  BY <1>a DEF TypeOK, Enter
<1>d. UNCHANGED <<calm, faults, crashes>>
  BY <1>a DEF Enter
<1>s. Sound' => Sound /\ lapses = {} /\ lapses' = {}
  BY SoundFact DEF RestoreLock, Enter, Goto
<1>1. TypeOK'
  BY <1>b, <1>c, <1>d DEF TypeOK, RestoreLock
<1>2. MutexInv'
  BY DEF TypeOK, Calls, Restorers, MutexInv, Critical, RestoreLock, Enter,
     Goto
<1>3. ApplyInv'
  BY <1>s DEF TypeOK, Calls, Restorers, MutexInv, Critical, ApplyInv,
     UsersOwn, On, RestoreLock, Enter, Goto
<1>4. OwedInv'
  BY DEF TypeOK, Calls, Restorers, MutexInv, Critical, ApplyInv, OwedInv,
     RestoreLock, Enter, Goto
<1>5. (\A d \in Restorers : RestoreInv(d))'
  BY <1>s DEF TypeOK, Calls, Restorers, MutexInv, Critical, ApplyInv,
     RestoreInv, UsersOwn, On, RestoreLock, Enter, Goto
<1>6. NeverLost'
  BY <1>s DEF TypeOK, Calls, Restorers, MutexInv, Critical, ApplyInv,
     RestoreInv, NeverLost, UsersOwn, On, RestoreLock, Enter, Goto
<1>7. RestoreOwed'
  BY DEF TypeOK, Calls, Restorers, MutexInv, Critical, ApplyInv, OwedInv,
     RestoreOwed, RestoreLock, Enter, Goto
<1> QED
  BY <1>1, <1>2, <1>3, <1>4, <1>5, <1>6, <1>7

LEMMA NoBackupStep ==
    ASSUME IInv, NEW c \in Restorers, NoBackup(c) PROVE IInv'
<1> USE SystemProxyAssumption DEF IInv
<1>s. Sound' => Sound /\ lapses = {} /\ lapses' = {}
  BY SoundFact DEF NoBackup, NotOwed, Leave, After, Goto
<1>1. TypeOK'
  <2>1. pc' \in [Calls -> Places] /\ bad' \in [Calls -> BOOLEAN]
    BY DEF TypeOK, Calls, Places, Restorers, NoBackup, NotOwed, Leave, After,
       Goto
  <2>2. todo' \in [Calls -> SUBSET Fields] /\ mem' \in [Calls -> Setting \cup {None}]
    BY DEF TypeOK, Calls, Restorers, NoBackup, NotOwed, Leave, After, Goto
  <2>3. lapses' \subseteq {"misread", "unseen", "undeleted", "overlap"}
    BY DEF TypeOK, NoBackup, NotOwed, Leave, After, Goto
  <2> QED
    BY <2>1, <2>2, <2>3 DEF TypeOK, Calls, Restorers, NoBackup, NotOwed,
       Leave, After, Goto
<1>2. MutexInv'
  BY DEF TypeOK, Calls, Restorers, MutexInv, Critical, NoBackup, NotOwed,
     Leave, After, Goto
<1>3. ApplyInv'
  BY <1>s DEF TypeOK, Calls, Restorers, MutexInv, Critical, ApplyInv,
     UsersOwn, On, NoBackup, NotOwed, Leave, After, Goto
<1>4. OwedInv'
  BY DEF TypeOK, Calls, Restorers, MutexInv, Critical, ApplyInv, OwedInv,
     NoBackup, NotOwed, Leave, After, Goto
<1>5. (\A d \in Restorers : RestoreInv(d))'
  BY <1>s DEF TypeOK, Calls, Restorers, MutexInv, Critical, ApplyInv,
     RestoreInv, UsersOwn, On, NoBackup, NotOwed, Leave, After, Goto
<1>6. NeverLost'
  BY <1>s DEF TypeOK, Calls, Restorers, MutexInv, Critical, ApplyInv,
     RestoreInv, NeverLost, UsersOwn, On, NoBackup, NotOwed, Leave, After,
     Goto
<1>7. RestoreOwed'
  BY DEF TypeOK, Calls, Restorers, MutexInv, Critical, ApplyInv, OwedInv,
     RestoreOwed, NoBackup, NotOwed, Leave, After, Goto
<1> QED
  BY <1>1, <1>2, <1>3, <1>4, <1>5, <1>6, <1>7

LEMMA ReadBackupStep ==
    ASSUME IInv, NEW c \in Restorers, ReadBackup(c) PROVE IInv'
<1> USE SystemProxyAssumption DEF IInv
<1>t. /\ backup \in Setting
      /\ Owed(backup) \in SUBSET Fields /\ Owed(backup) # {}
      /\ Target(backup) \in Setting
  BY OwedFact DEF TypeOK, ReadBackup
<1>g. /\ mem' = [mem EXCEPT ![c] = Target(backup)]
      /\ todo' = [todo EXCEPT ![c] = Owed(backup)]
      /\ pc' = [pc EXCEPT ![c] = "restore"] /\ pc[c] = "read"
      /\ UNCHANGED <<fixed, disk, alive, on, mu, sup, snap, bad, budget>>
  BY DEF ReadBackup, Goto
<1>s. Sound' => Sound /\ lapses = {} /\ lapses' = {}
  BY SoundFact DEF ReadBackup, Goto
<1>1. TypeOK'
  <2>1. pc' \in [Calls -> Places]
    BY <1>g DEF TypeOK, Calls, Places, Restorers
  <2>2. todo' \in [Calls -> SUBSET Fields] /\ mem' \in [Calls -> Setting \cup {None}]
    BY <1>g, <1>t DEF TypeOK, Calls, Restorers
  <2> QED
    BY <1>g, <2>1, <2>2 DEF TypeOK
<1>2. MutexInv'
  BY DEF TypeOK, Calls, Restorers, MutexInv, Critical, ReadBackup, Goto
<1>3. ApplyInv'
  BY <1>s DEF TypeOK, Calls, Restorers, MutexInv, Critical, ApplyInv,
     UsersOwn, On, ReadBackup, Goto
<1>4. OwedInv'
  BY DEF TypeOK, Calls, Restorers, MutexInv, Critical, ApplyInv, OwedInv,
     ReadBackup, Goto
<1>5. (\A d \in Restorers : RestoreInv(d))'
  <2>1. mem[c]' = Target(backup) /\ todo[c]' = Owed(backup) /\ pc[c]' = "restore"
    BY <1>g DEF TypeOK, Calls, Restorers
  <2>2. Target(backup) # None
    BY <1>t, SystemProxyAssumption
  <2>3. ASSUME Sound PROVE UsersOwn(Target(backup)) /\ (On(Target(backup)) => Owed(backup) = Fields)
    BY <1>t, <2>3, TargetFact, SystemProxyAssumption DEF NeverLost, TypeOK
  <2>4. RestoreInv(c)'
    <3>1. Sound' => UsersOwn(mem[c])'
      BY <1>s, <1>g, <2>1, <2>3 DEF UsersOwn, On
    <3>2. Sound' => /\ On(mem[c]') => todo[c]' = Fields
                    /\ "en" \in todo[c]'
      BY <1>s, <1>t, <2>1, <2>3 DEF Owed, Fields
    <3> QED
      BY <1>t, <1>g, <2>1, <2>2, <3>1, <3>2, SystemProxyAssumption DEF RestoreInv, On, Fields
  <2>5. ASSUME NEW d \in Restorers \ {c} PROVE RestoreInv(d)'
    <3>1. pc[d]' = pc[d] /\ todo[d]' = todo[d] /\ mem[d]' = mem[d] /\ bad[d]' = bad[d]
      BY <1>g, <2>5 DEF TypeOK, Calls, Restorers
    <3> QED
      BY <1>s, <1>g, <2>5, <3>1 DEF RestoreInv, UsersOwn, On
  <2> QED
    BY <2>4, <2>5
<1>6. NeverLost'
  BY <1>s DEF TypeOK, Calls, Restorers, MutexInv, Critical, ApplyInv,
     RestoreInv, NeverLost, UsersOwn, On, ReadBackup, Goto
<1>7. RestoreOwed'
  BY DEF TypeOK, Calls, Restorers, MutexInv, Critical, ApplyInv, OwedInv,
     RestoreOwed, ReadBackup, Goto
<1> QED
  BY <1>1, <1>2, <1>3, <1>4, <1>5, <1>6, <1>7

LEMMA ReadBackupFailsStep ==
    ASSUME IInv, NEW c \in Restorers, ReadBackupFails(c) PROVE IInv'
<1> USE SystemProxyAssumption DEF IInv
<1>f. /\ faults' \in 0 .. MaxFaults /\ calm' \in BOOLEAN
      /\ crashes' \in 0 .. MaxCrashes
  BY FaultType DEF ReadBackupFails
<1>s. Sound' => Sound /\ lapses = {} /\ lapses' = {}
  BY SoundFact DEF ReadBackupFails, Fault, Leave, After, Goto
<1>1. TypeOK'
  <2>1. pc' \in [Calls -> Places] /\ bad' \in [Calls -> BOOLEAN]
    BY DEF TypeOK, Calls, Places, Restorers, ReadBackupFails, Leave, After,
       Goto
  <2>2. todo' \in [Calls -> SUBSET Fields] /\ mem' \in [Calls -> Setting \cup {None}]
    BY DEF TypeOK, Calls, Restorers, ReadBackupFails, Leave, After, Goto
  <2>3. lapses' \subseteq {"misread", "unseen", "undeleted", "overlap"}
    BY DEF TypeOK, ReadBackupFails, Leave, After, Goto
  <2> QED
    BY <1>f, <2>1, <2>2, <2>3 DEF TypeOK, Calls, Restorers, ReadBackupFails,
       Leave, After, Goto
<1>2. MutexInv'
  BY DEF TypeOK, Calls, Restorers, MutexInv, Critical, ReadBackupFails,
     Fault, Leave, After, Goto
<1>3. ApplyInv'
  BY <1>s DEF TypeOK, Calls, Restorers, MutexInv, Critical, ApplyInv,
     UsersOwn, On, ReadBackupFails, Fault, Leave, After, Goto
<1>4. OwedInv'
  BY DEF TypeOK, Calls, Restorers, MutexInv, Critical, ApplyInv, OwedInv,
     ReadBackupFails, Fault, Leave, After, Goto
<1>5. (\A d \in Restorers : RestoreInv(d))'
  BY <1>s DEF TypeOK, Calls, Restorers, MutexInv, Critical, ApplyInv,
     RestoreInv, UsersOwn, On, ReadBackupFails, Fault, Leave, After, Goto
<1>6. NeverLost'
  BY <1>s DEF TypeOK, Calls, Restorers, MutexInv, Critical, ApplyInv,
     RestoreInv, NeverLost, UsersOwn, On, ReadBackupFails, Fault, Leave,
     After, Goto
<1>7. RestoreOwed'
  BY DEF TypeOK, Calls, Restorers, MutexInv, Critical, ApplyInv, OwedInv,
     RestoreOwed, ReadBackupFails, Fault, Leave, After, Goto
<1> QED
  BY <1>1, <1>2, <1>3, <1>4, <1>5, <1>6, <1>7

LEMMA RestoreStep ==
    ASSUME IInv, NEW c \in Restorers, Restore(c) PROVE IInv'
<1> USE SystemProxyAssumption DEF IInv
<1>t. /\ todo[c] \in SUBSET Fields /\ todo[c] # {}
      /\ pc[c] = "restore" /\ mem[c] \in Setting
  BY DEF TypeOK, Calls, Restorers, RestoreInv, Restore
<1> DEFINE fs == RestoreNext(todo[c])
<1>n. /\ fs \in SUBSET Fields
      /\ todo[c] \ fs \in SUBSET Fields
      /\ todo[c] = fs <=> todo[c] \ fs = {}
  BY <1>t, NextFields
<1>w. /\ os' \in Setting
      /\ os'.en = IF "en" \in fs THEN mem[c].en ELSE os.en
      /\ os'.host = IF "host" \in fs THEN mem[c].host ELSE os.host
      /\ os'.port = IF "port" \in fs THEN mem[c].port ELSE os.port
  BY <1>t, <1>n, CopyFact DEF Restore, TypeOK
<1>a. /\ todo' = [todo EXCEPT ![c] = todo[c] \ fs]
      /\ pc' = IF todo[c] = fs THEN [pc EXCEPT ![c] = "delete"] ELSE pc
      /\ UNCHANGED <<fixed, backup, alive, on, mu, sup, snap, mem, bad, budget>>
  BY DEF Restore, Restored, Goto
<1> HIDE DEF fs
<1>s. Sound' => Sound /\ lapses = {} /\ lapses' = {}
  BY SoundFact DEF Restore, Restored, Goto
<1>1. TypeOK'
  <2>1. pc' \in [Calls -> Places]
    BY <1>a DEF TypeOK, Calls, Places, Restorers
  <2>2. todo' \in [Calls -> SUBSET Fields]
    BY <1>a, <1>n DEF TypeOK, Calls, Restorers
  <2> QED
    BY <1>a, <1>w, <2>1, <2>2 DEF TypeOK
<1>2. MutexInv'
  BY DEF TypeOK, Calls, Restorers, MutexInv, Critical, Restore, Restored,
     Goto
<1>3. ApplyInv'
  BY <1>s DEF TypeOK, Calls, Restorers, MutexInv, Critical, ApplyInv,
     UsersOwn, On, Restore, Restored, Goto
<1>4. OwedInv'
  BY DEF TypeOK, Calls, Restorers, MutexInv, Critical, ApplyInv, OwedInv,
     Restore, Restored, Goto
<1>5. (\A d \in Restorers : RestoreInv(d))'
  <2>1. /\ mem[c]' = mem[c] /\ todo[c]' = todo[c] \ fs /\ bad[c]' = bad[c]
        /\ pc[c]' = IF todo[c] \ fs = {} THEN "delete" ELSE "restore"
    BY <1>a, <1>t, <1>n DEF TypeOK, Calls, Restorers
  <2>2. RestoreInv(c)'
    <3>1. Sound' => backup' # None /\ UsersOwn(mem[c])'
      BY <1>s, <1>a, <1>t, <2>1 DEF RestoreInv, UsersOwn, On
    <3>2. Sound' /\ ~bad[c] =>
             /\ "en" \notin todo[c]' => (On(os') <=> On(mem[c]))
             /\ On(mem[c]) /\ "host" \notin todo[c]' => os'.host = mem[c].host
             /\ On(mem[c]) /\ "port" \notin todo[c]' => os'.port = mem[c].port
      BY <1>s, <1>t, <1>w, <2>1 DEF RestoreInv, On
    <3> QED
      BY <1>t, <2>1, <3>1, <3>2, SystemProxyAssumption DEF RestoreInv, On
  <2>3. ASSUME NEW d \in Restorers \ {c} PROVE RestoreInv(d)'
    <3>1. pc[d]' = pc[d] /\ todo[d]' = todo[d] /\ mem[d]' = mem[d] /\ bad[d]' = bad[d]
      BY <1>a, <2>3 DEF TypeOK, Calls, Restorers
    <3>2. Sound => pc[d] \notin {"restore", "delete"}
      BY <1>t, <2>3 DEF Sound, MutexInv, Calls, Restorers, Critical, TypeOK
    <3> QED
      BY <1>s, <1>a, <2>3, <3>1, <3>2 DEF RestoreInv, UsersOwn, On
  <2> QED
    BY <2>2, <2>3
<1>6. NeverLost'
  BY <1>s DEF TypeOK, Calls, Restorers, MutexInv, Critical, ApplyInv,
     RestoreInv, NeverLost, UsersOwn, On, Restore, Restored, Goto
<1>7. RestoreOwed'
  BY DEF TypeOK, Calls, Restorers, MutexInv, Critical, ApplyInv, OwedInv,
     RestoreOwed, Restore, Restored, Goto
<1> QED
  BY <1>1, <1>2, <1>3, <1>4, <1>5, <1>6, <1>7

LEMMA RestoreFailsStep ==
    ASSUME IInv, NEW c \in Restorers, RestoreFails(c) PROVE IInv'
<1> USE SystemProxyAssumption DEF IInv
<1>t. /\ todo[c] \in SUBSET Fields /\ todo[c] # {}
      /\ pc[c] = "restore" /\ mem[c] \in Setting
  BY DEF TypeOK, Calls, Restorers, RestoreInv, RestoreFails
<1> DEFINE fs == RestoreNext(todo[c])
<1>n. /\ fs \in SUBSET Fields
      /\ todo[c] \ fs \in SUBSET Fields
      /\ todo[c] = fs <=> todo[c] \ fs = {}
  BY <1>t, NextFields
<1>a. /\ todo' = [todo EXCEPT ![c] = todo[c] \ fs]
      /\ pc' = IF todo[c] = fs THEN [pc EXCEPT ![c] = "delete"] ELSE pc
      /\ UNCHANGED <<fixed, disk, alive, on, mu, sup, snap, mem>>
      /\ \/ lapses' = lapses \cup {"undeleted"} /\ bad' = bad
         \/ bad' = [bad EXCEPT ![c] = TRUE] /\ lapses' = lapses
  BY DEF RestoreFails, Restored, Goto
<1> HIDE DEF fs
<1>f. /\ faults' \in 0 .. MaxFaults /\ calm' \in BOOLEAN
      /\ crashes' \in 0 .. MaxCrashes
  BY FaultType DEF RestoreFails
<1>s. Sound' => Sound /\ lapses = {} /\ lapses' = {}
  BY SoundFact DEF RestoreFails, Restored, Fault, Goto
<1>1. TypeOK'
  <2>1. pc' \in [Calls -> Places] /\ bad' \in [Calls -> BOOLEAN]
    BY <1>a DEF TypeOK, Calls, Places, Restorers
  <2>2. todo' \in [Calls -> SUBSET Fields]
    BY <1>a, <1>n DEF TypeOK, Calls, Restorers
  <2>3. lapses' \subseteq {"misread", "unseen", "undeleted", "overlap"}
    BY <1>a DEF TypeOK
  <2> QED
    BY <1>a, <1>f, <2>1, <2>2, <2>3 DEF TypeOK
<1>2. MutexInv'
  BY DEF TypeOK, Calls, Restorers, MutexInv, Critical, RestoreFails,
     Restored, Fault, Goto
<1>3. ApplyInv'
  BY <1>s DEF TypeOK, Calls, Restorers, MutexInv, Critical, ApplyInv,
     UsersOwn, On, RestoreFails, Restored, Fault, Goto
<1>4. OwedInv'
  BY DEF TypeOK, Calls, Restorers, MutexInv, Critical, ApplyInv, OwedInv,
     RestoreFails, Restored, Fault, Goto
<1>5. (\A d \in Restorers : RestoreInv(d))'
  <2>1. /\ mem[c]' = mem[c] /\ todo[c]' = todo[c] \ fs
        /\ pc[c]' = IF todo[c] \ fs = {} THEN "delete" ELSE "restore"
    BY <1>a, <1>t, <1>n DEF TypeOK, Calls, Restorers
  <2>2. RestoreInv(c)'
    <3>1. Sound' => backup' # None /\ UsersOwn(mem[c])'
      BY <1>s, <1>a, <1>t, <2>1 DEF RestoreInv, UsersOwn, On
    <3>2. Sound' => bad[c]'
      BY <1>s, <1>a DEF TypeOK, Calls, Restorers
    <3> QED
      BY <1>t, <2>1, <3>1, <3>2, SystemProxyAssumption DEF RestoreInv
  <2>3. ASSUME NEW d \in Restorers \ {c} PROVE RestoreInv(d)'
    <3>1. pc[d]' = pc[d] /\ todo[d]' = todo[d] /\ mem[d]' = mem[d] /\ bad[d]' = bad[d]
      BY <1>a, <2>3 DEF TypeOK, Calls, Restorers
    <3> QED
      BY <1>s, <1>a, <2>3, <3>1 DEF RestoreInv, UsersOwn, On
  <2> QED
    BY <2>2, <2>3
<1>6. NeverLost'
  BY <1>s DEF TypeOK, Calls, Restorers, MutexInv, Critical, ApplyInv,
     RestoreInv, NeverLost, UsersOwn, On, RestoreFails, Restored, Fault,
     Goto
<1>7. RestoreOwed'
  BY DEF TypeOK, Calls, Restorers, MutexInv, Critical, ApplyInv, OwedInv,
     RestoreOwed, RestoreFails, Restored, Fault, Goto
<1> QED
  BY <1>1, <1>2, <1>3, <1>4, <1>5, <1>6, <1>7

LEMMA DeleteStep ==
    ASSUME IInv, NEW c \in Restorers, Delete(c) PROVE IInv'
<1> USE SystemProxyAssumption DEF IInv
<1>s. Sound' => Sound /\ lapses = {} /\ lapses' = {}
  BY SoundFact DEF Delete, NotOwed, Leave, After, Goto
<1>1. TypeOK'
  <2>1. pc' \in [Calls -> Places] /\ bad' \in [Calls -> BOOLEAN]
    BY DEF TypeOK, Calls, Places, Restorers, Delete, NotOwed, Leave, After,
       Goto
  <2>2. todo' \in [Calls -> SUBSET Fields] /\ mem' \in [Calls -> Setting \cup {None}]
    BY DEF TypeOK, Calls, Restorers, Delete, NotOwed, Leave, After, Goto
  <2>3. lapses' \subseteq {"misread", "unseen", "undeleted", "overlap"}
    BY DEF TypeOK, Delete, NotOwed, Leave, After, Goto
  <2> QED
    BY <2>1, <2>2, <2>3 DEF TypeOK, Calls, Restorers, Delete, NotOwed, Leave,
       After, Goto
<1>2. MutexInv'
  BY DEF TypeOK, Calls, Restorers, MutexInv, Critical, Delete, NotOwed,
     Leave, After, Goto
<1>3. ApplyInv'
  BY <1>s DEF TypeOK, Calls, Restorers, MutexInv, Critical, ApplyInv,
     UsersOwn, On, Delete, NotOwed, Leave, After, Goto
<1>4. OwedInv'
  BY DEF TypeOK, Calls, Restorers, MutexInv, Critical, ApplyInv, OwedInv,
     Delete, NotOwed, Leave, After, Goto
<1>5. (\A d \in Restorers : RestoreInv(d))'
  BY <1>s DEF TypeOK, Calls, Restorers, MutexInv, Critical, ApplyInv,
     RestoreInv, UsersOwn, On, Delete, NotOwed, Leave, After, Goto
<1>6. NeverLost'
  BY <1>s DEF TypeOK, Calls, Restorers, MutexInv, Critical, ApplyInv,
     RestoreInv, NeverLost, UsersOwn, On, Delete, NotOwed, Leave, After,
     Goto
<1>7. RestoreOwed'
  BY DEF TypeOK, Calls, Restorers, MutexInv, Critical, ApplyInv, OwedInv,
     RestoreOwed, Delete, NotOwed, Leave, After, Goto
<1> QED
  BY <1>1, <1>2, <1>3, <1>4, <1>5, <1>6, <1>7

LEMMA DeleteFailsStep ==
    ASSUME IInv, NEW c \in Restorers, DeleteFails(c) PROVE IInv'
<1> USE SystemProxyAssumption DEF IInv
<1>f. /\ faults' \in 0 .. MaxFaults /\ calm' \in BOOLEAN
      /\ crashes' \in 0 .. MaxCrashes
  BY FaultType DEF DeleteFails
<1>s. Sound' => Sound /\ lapses = {} /\ lapses' = {}
  BY SoundFact DEF DeleteFails, Fault, Leave, After, Goto
<1>1. TypeOK'
  <2>1. pc' \in [Calls -> Places] /\ bad' \in [Calls -> BOOLEAN]
    BY DEF TypeOK, Calls, Places, Restorers, DeleteFails, Leave, After, Goto
  <2>2. todo' \in [Calls -> SUBSET Fields] /\ mem' \in [Calls -> Setting \cup {None}]
    BY DEF TypeOK, Calls, Restorers, DeleteFails, Leave, After, Goto
  <2>3. lapses' \subseteq {"misread", "unseen", "undeleted", "overlap"}
    BY DEF TypeOK, DeleteFails, Leave, After, Goto
  <2> QED
    BY <1>f, <2>1, <2>2, <2>3 DEF TypeOK, Calls, Restorers, DeleteFails,
       Leave, After, Goto
<1>2. MutexInv'
  BY DEF TypeOK, Calls, Restorers, MutexInv, Critical, DeleteFails, Fault,
     Leave, After, Goto
<1>3. ApplyInv'
  BY <1>s DEF TypeOK, Calls, Restorers, MutexInv, Critical, ApplyInv,
     UsersOwn, On, DeleteFails, Fault, Leave, After, Goto
<1>4. OwedInv'
  BY DEF TypeOK, Calls, Restorers, MutexInv, Critical, ApplyInv, OwedInv,
     DeleteFails, Fault, Leave, After, Goto
<1>5. (\A d \in Restorers : RestoreInv(d))'
  BY <1>s DEF TypeOK, Calls, Restorers, MutexInv, Critical, ApplyInv,
     RestoreInv, UsersOwn, On, DeleteFails, Fault, Leave, After, Goto
<1>6. NeverLost'
  BY <1>s DEF TypeOK, Calls, Restorers, MutexInv, Critical, ApplyInv,
     RestoreInv, NeverLost, UsersOwn, On, DeleteFails, Fault, Leave, After,
     Goto
<1>7. RestoreOwed'
  BY DEF TypeOK, Calls, Restorers, MutexInv, Critical, ApplyInv, OwedInv,
     RestoreOwed, DeleteFails, Fault, Leave, After, Goto
<1> QED
  BY <1>1, <1>2, <1>3, <1>4, <1>5, <1>6, <1>7

LEMMA StopServersStep ==
    ASSUME IInv, StopServers PROVE IInv'
<1> USE SystemProxyAssumption DEF IInv
<1>s. Sound' => Sound /\ lapses = {} /\ lapses' = {}
  BY SoundFact DEF StopServers, SupStop, Goto
<1>1. TypeOK'
  BY DEF TypeOK, MutexInv, ApplyInv, RestoreInv, Calls, Places, Restorers,
     Critical, StopServers, SupStop, Goto
<1>2. MutexInv'
  BY DEF TypeOK, Calls, Restorers, MutexInv, Critical, StopServers, SupStop,
     Goto
<1>3. ApplyInv'
  BY <1>s DEF TypeOK, Calls, Restorers, MutexInv, Critical, ApplyInv,
     UsersOwn, On, StopServers, SupStop, Goto
<1>4. OwedInv'
  BY DEF TypeOK, Calls, Restorers, MutexInv, Critical, ApplyInv, OwedInv,
     StopServers, SupStop, Goto
<1>5. (\A d \in Restorers : RestoreInv(d))'
  BY <1>s DEF TypeOK, Calls, Restorers, MutexInv, Critical, ApplyInv,
     RestoreInv, UsersOwn, On, StopServers, SupStop, Goto
<1>6. NeverLost'
  BY <1>s DEF TypeOK, Calls, Restorers, MutexInv, Critical, ApplyInv,
     RestoreInv, NeverLost, UsersOwn, On, StopServers, SupStop, Goto
<1>7. RestoreOwed'
  BY DEF TypeOK, Calls, Restorers, MutexInv, Critical, ApplyInv, OwedInv,
     RestoreOwed, StopServers, SupStop, Goto
<1> QED
  BY <1>1, <1>2, <1>3, <1>4, <1>5, <1>6, <1>7

LEMMA ExitStep ==
    ASSUME IInv, Exit PROVE IInv'
<1> USE SystemProxyAssumption DEF IInv
<1>s. Sound' => Sound /\ lapses = {} /\ lapses' = {}
  BY SoundFact DEF Exit, ProcessEnds, SupStop
<1>1. TypeOK'
  BY DEF TypeOK, MutexInv, ApplyInv, RestoreInv, Calls, Places, Restorers,
     Critical, Exit, ProcessEnds, SupStop
<1>2. MutexInv'
  BY DEF TypeOK, Calls, Restorers, MutexInv, Critical, Exit, ProcessEnds,
     SupStop
<1>3. ApplyInv'
  BY <1>s DEF TypeOK, Calls, Restorers, MutexInv, Critical, ApplyInv,
     UsersOwn, On, Exit, ProcessEnds, SupStop
<1>4. OwedInv'
  BY DEF TypeOK, Calls, Restorers, MutexInv, Critical, ApplyInv, OwedInv,
     Exit, ProcessEnds, SupStop
<1>5. (\A d \in Restorers : RestoreInv(d))'
  BY <1>s DEF TypeOK, Calls, Restorers, MutexInv, Critical, ApplyInv,
     RestoreInv, UsersOwn, On, Exit, ProcessEnds, SupStop
<1>6. NeverLost'
  BY <1>s DEF TypeOK, Calls, Restorers, MutexInv, Critical, ApplyInv,
     RestoreInv, NeverLost, UsersOwn, On, Exit, ProcessEnds, SupStop
<1>7. RestoreOwed'
  BY DEF TypeOK, Calls, Restorers, MutexInv, Critical, ApplyInv, OwedInv,
     RestoreOwed, Exit, ProcessEnds, SupStop
<1> QED
  BY <1>1, <1>2, <1>3, <1>4, <1>5, <1>6, <1>7

LEMMA CrashStep ==
    ASSUME IInv, Crash PROVE IInv'
<1> USE SystemProxyAssumption DEF IInv
<1>s. Sound' => Sound /\ lapses = {} /\ lapses' = {}
  BY SoundFact DEF Crash, ProcessEnds, SupStop
<1>1. TypeOK'
  <2>1. crashes' \in 0 .. MaxCrashes
    BY DEF TypeOK, Crash
  <2>2. pc' \in [Calls -> Places] /\ bad' \in [Calls -> BOOLEAN]
    BY DEF TypeOK, Places, Crash, ProcessEnds
  <2>3. todo' \in [Calls -> SUBSET Fields] /\ mem' \in [Calls -> Setting \cup {None}]
    BY DEF Crash, ProcessEnds
  <2> QED
    BY <2>1, <2>2, <2>3 DEF TypeOK, Crash, ProcessEnds, SupStop
<1>2. MutexInv'
  BY DEF TypeOK, Calls, Restorers, MutexInv, Critical, Crash, ProcessEnds,
     SupStop
<1>3. ApplyInv'
  BY <1>s DEF TypeOK, Calls, Restorers, MutexInv, Critical, ApplyInv,
     UsersOwn, On, Crash, ProcessEnds, SupStop
<1>4. OwedInv'
  BY DEF TypeOK, Calls, Restorers, MutexInv, Critical, ApplyInv, OwedInv,
     Crash, ProcessEnds, SupStop
<1>5. (\A d \in Restorers : RestoreInv(d))'
  BY <1>s DEF TypeOK, Calls, Restorers, MutexInv, Critical, ApplyInv,
     RestoreInv, UsersOwn, On, Crash, ProcessEnds, SupStop
<1>6. NeverLost'
  BY <1>s DEF TypeOK, Calls, Restorers, MutexInv, Critical, ApplyInv,
     RestoreInv, NeverLost, UsersOwn, On, Crash, ProcessEnds, SupStop
<1>7. RestoreOwed'
  BY DEF TypeOK, Calls, Restorers, MutexInv, Critical, ApplyInv, OwedInv,
     RestoreOwed, Crash, ProcessEnds, SupStop
<1> QED
  BY <1>1, <1>2, <1>3, <1>4, <1>5, <1>6, <1>7

LEMMA NextIInv == IInv /\ [Next]_vars => IInv'
<1>1. ASSUME IInv, Next PROVE IInv'
  BY <1>1, LaunchStep, StartStep, StopStep, QuitStep, SettleStep,
     ApplyLockStep, SaveStep, SaveUnseenStep, CaptureStep,
     CaptureMisreadsStep, WriteStep, SaveFailsStep, ApplyStep,
     ApplyFailsStep, RestoreLockStep, NoBackupStep, ReadBackupStep,
     ReadBackupFailsStep, RestoreStep, RestoreFailsStep, DeleteStep,
     DeleteFailsStep, StopServersStep, ExitStep, CrashStep
     DEF Next, RunStart, RunRestore
<1>2. ASSUME IInv, UNCHANGED vars PROVE IInv'
  BY <1>2 DEF vars, IInv, TypeOK, MutexInv, ApplyInv, OwedInv, RestoreInv,
     NeverLost, Sound, Owed, On, UsersOwn, RestoreOwed
<1> QED
  BY <1>1, <1>2

THEOREM Inductive == Spec => []IInv
BY InitIInv, NextIInv, PTL DEF Spec

(* Every variable keeps its type (app.go:57-64, backup.go:80-98). *)
THEOREM TypeCorrect == Spec => []TypeOK
<1>1. IInv => TypeOK
  BY DEF IInv
<1> QED
  BY <1>1, Inductive, PTL

(* The user's setting is on the OS or in the backup, whatever fails with   *)
(* an error that is seen and whenever the process dies                     *)
(* (sysproxy.go:55-112).                                                   *)
THEOREM NeverLostHolds == Spec => []NeverLost
<1>1. IInv => NeverLost
  BY DEF IInv
<1> QED
  BY <1>1, Inductive, PTL

(* A backup is owed back by the running session, or could not be recovered *)
(* at its start (app.go:61-64,203-212).                                    *)
THEOREM RestoreOwedHolds == Spec => []RestoreOwed
<1>1. IInv => RestoreOwed
  BY DEF IInv
<1> QED
  BY <1>1, Inductive, PTL

-----------------------------------------------------------------------------
(* A setting that has the effect of the user's does not point at psdns.    *)
LEMMA UsersOwnIsNotOurs ==
    ASSUME TypeOK, orig.host # Local, UsersOwn(os)
    PROVE  ~PointsAtUs
BY SystemProxyAssumption DEF UsersOwn, PointsAtUs, On

(* Without a backup there is nothing of psdns on the OS ... *)
LEMMA CleanWithoutBackup ==
    ASSUME IInv, CalmInv, Sound, backup = None
    PROVE  ~PointsAtUs
BY UsersOwnIsNotOurs DEF IInv, NeverLost, CalmInv

(* ... nor after a restore of which no write failed. *)
LEMMA CleanWhenRestored ==
    ASSUME IInv, CalmInv, Sound, NEW c \in Restorers, pc[c] = "delete", ~bad[c]
    PROVE  ~PointsAtUs
<1>1. todo[c] = {} /\ UsersOwn(mem[c])
  BY DEF IInv, RestoreInv
<1>2. /\ On(os) <=> On(mem[c])
      /\ On(mem[c]) => os.host = mem[c].host /\ os.port = mem[c].port
  BY <1>1 DEF IInv, RestoreInv
<1>3. UsersOwn(os)
  BY <1>1, <1>2 DEF UsersOwn
<1> QED
  BY <1>3, UsersOwnIsNotOurs DEF IInv, CalmInv

LEMMA InitCalm == Init => CalmInv
<1> SUFFICES ASSUME Init PROVE CalmInv
  OBVIOUS
<1> QED
  BY DEF CalmInv, Init, NoCalls, Calls, UserSetting

(* Each call hands over an OS that the next one may start from. *)
LEMMA CalmStep ==
    ASSUME IInv, CalmInv, [Next]_vars PROVE CalmInv'
<1> USE SystemProxyAssumption DEF IInv, TypeOK
<1>0. ASSUME Sound', UNCHANGED fixed, lapses \subseteq lapses' PROVE Sound
  BY <1>0, SoundFact
<1>f. ASSUME alive, ~calm', UNCHANGED <<fixed, alive, sup>> PROVE CalmInv'
  BY <1>f DEF CalmInv
<1>1. CASE Launch
  BY <1>1, <1>0 DEF CalmInv, PointsAtUs, On, Calls, Restorers, MutexInv, Critical,
     Launch, Goto
<1>2. ASSUME NEW p \in Ports \cup {None}, Start(p) PROVE CalmInv'
  BY <1>2, <1>0 DEF CalmInv, PointsAtUs, On, Calls, Restorers, Critical, Start,
     Ready, Goto
<1>3. CASE Stop
  BY <1>3, <1>0 DEF CalmInv, PointsAtUs, On, Calls, Restorers, Critical, Stop,
     Ready, Goto
<1>4. CASE Quit
  BY <1>4, <1>0 DEF CalmInv, PointsAtUs, On, Calls, Restorers, Critical, Quit,
     Ready, Goto, SupStop
<1>5. CASE Settle
  BY <1>5, <1>0 DEF CalmInv, PointsAtUs, On, Calls, Restorers, Critical, Settle,
     Goto
<1>6. CASE ApplyLock
  BY <1>6, <1>0 DEF CalmInv, PointsAtUs, On, Calls, Restorers, Critical,
     ApplyLock, Enter, Goto
<1>7. CASE Save
  BY <1>7, <1>0 DEF CalmInv, PointsAtUs, On, Calls, Restorers, Critical, Save,
     Goto, Fields
<1>8. CASE SaveUnseen \/ CaptureMisreads \/ SaveFails \/ ApplyFails
  BY <1>8, <1>f DEF MutexInv, Calls, SaveUnseen, CaptureMisreads, SaveFails,
     ApplyFails, Fault
<1>9. CASE Capture
  BY <1>9, <1>0 DEF CalmInv, PointsAtUs, On, Calls, Restorers, Critical, Capture,
     Goto
<1>10. CASE Write
  BY <1>10, <1>0 DEF CalmInv, PointsAtUs, On, Calls, Restorers, Critical, Write,
     Goto, ApplyInv, Fields
<1>11. CASE Apply
  <2>1. /\ todo["start"] \in SUBSET Fields /\ todo["start"] # {}
        /\ snap \in Ports /\ pc["start"] = "apply"
    BY <1>11 DEF Calls, ApplyInv, Critical, Apply
  <2> DEFINE fs == ApplyNext(todo["start"])
  <2>2. fs \in SUBSET Fields /\ Ours(snap) \in Setting
    BY <2>1, NextFields DEF Ours, Setting
  <2>3. /\ os'.en = IF "en" \in fs THEN "on" ELSE os.en
        /\ os'.host = IF "host" \in fs THEN Local ELSE os.host
        /\ os'.port = IF "port" \in fs THEN snap ELSE os.port
    BY <1>11, <2>2, CopyFact DEF Apply, Ours
  <2>4. UNCHANGED <<fixed, backup, alive, on, sup, budget>>
    BY <1>11 DEF Apply
  <2>5. calm /\ alive /\ Sound =>
          /\ "en" \notin todo["start"] \ fs => On(os')
          /\ "host" \notin todo["start"] \ fs => os'.host = Local
          /\ "port" \notin todo["start"] \ fs => os'.port = port
    BY <2>1, <2>3 DEF CalmInv, On, Critical
  <2>6. CASE todo["start"] = fs /\ Leave("start", "idle", FALSE)
    <3>1. pc' = [pc EXCEPT !["start"] = "idle"] /\ bad' = [bad EXCEPT !["start"] = FALSE]
      BY <2>6 DEF Leave, Goto
    <3>2. calm /\ alive /\ Sound => os'.port = port
      BY <2>5, <2>6
    <3> QED
      BY <1>0, <2>1, <2>4, <3>1, <3>2 DEF CalmInv, Calls, Restorers, Critical
  <2>7. CASE /\ todo' = [todo EXCEPT !["start"] = todo["start"] \ fs]
             /\ UNCHANGED <<pc, mu, snap, mem, bad>>
    BY <1>0, <2>1, <2>4, <2>5, <2>7 DEF CalmInv, On, Calls, Restorers, Critical
  <2> QED
    BY <1>11, <2>6, <2>7 DEF Apply
<1>12. ASSUME NEW c \in Restorers, RestoreLock(c) PROVE CalmInv'
  <2>1. /\ c \in {"stop", "quit"} /\ pc[c] = "lock" /\ alive
        /\ UNCHANGED <<fixed, disk, alive, on, sup, snap, todo, mem, bad>>
    BY <1>12 DEF RestoreLock, MutexInv, Calls
  <2>2. CASE on
    <3>1. pc' = [pc EXCEPT ![c] = "read"] /\ calm' = calm /\ lapses \subseteq lapses'
      BY <1>12, <2>2 DEF RestoreLock, Enter, Goto
    <3> QED
      BY <1>0, <2>1, <3>1 DEF CalmInv, PointsAtUs, On, Calls, Restorers, Critical
  <2>3. CASE ~on
    <3>1. pc' = [pc EXCEPT ![c] = "down"] /\ UNCHANGED budget
      BY <1>12, <2>3 DEF RestoreLock, Goto
    <3>2. calm /\ Sound => backup = None
      BY <2>1, <2>3 DEF CalmInv, OwedInv, Calls
    <3>3. calm /\ Sound => ~PointsAtUs
      BY <3>2, CleanWithoutBackup
    <3> QED
      BY <1>0, <2>1, <3>1, <3>3 DEF CalmInv, PointsAtUs, On, Calls, Restorers,
         Critical
  <2> QED
    BY <2>2, <2>3
<1>13. ASSUME NEW c \in Restorers, NoBackup(c) PROVE CalmInv'
  BY <1>13, <1>0, CleanWithoutBackup DEF CalmInv, PointsAtUs, On, Calls,
     Restorers, Critical, NoBackup, Leave, After, Goto
<1>14. ASSUME NEW c \in Restorers, ReadBackup(c) PROVE CalmInv'
  BY <1>14, <1>0 DEF CalmInv, PointsAtUs, On, Calls, Restorers, Critical,
     ReadBackup, Goto
<1>15. ASSUME NEW c \in Restorers, Restore(c) PROVE CalmInv'
  BY <1>15, <1>0 DEF CalmInv, PointsAtUs, On, Calls, Restorers, Critical, Restore,
     Restored, Goto, MutexInv
<1>16. ASSUME NEW c \in Restorers,
              ReadBackupFails(c) \/ RestoreFails(c) \/ DeleteFails(c)
       PROVE  CalmInv'
  BY <1>16, <1>f DEF MutexInv, Calls, Restorers, ReadBackupFails, RestoreFails,
     DeleteFails, Fault
<1>17. ASSUME NEW c \in Restorers, Delete(c) PROVE CalmInv'
  BY <1>17, <1>0, CleanWhenRestored DEF CalmInv, PointsAtUs, On, Calls,
     Restorers, Critical, Delete, Leave, After, Goto
<1>18. CASE StopServers
  BY <1>18, <1>0 DEF CalmInv, PointsAtUs, On, Calls, Restorers, Critical,
     StopServers, SupStop, Goto
<1>19. CASE Exit \/ Crash
  BY <1>19, <1>0 DEF CalmInv, PointsAtUs, On, Calls, Restorers, Exit, Crash,
     ProcessEnds, SupStop
<1>20. CASE UNCHANGED vars
  BY <1>20, <1>0 DEF CalmInv, PointsAtUs, On, Calls, Restorers, Critical, vars
<1> QED
  BY <1>1, <1>2, <1>3, <1>4, <1>5, <1>6, <1>7, <1>8, <1>9, <1>10, <1>11, <1>12,
     <1>13, <1>14, <1>15, <1>16, <1>17, <1>18, <1>19, <1>20
     DEF Next, RunStart, RunRestore

LEMMA CalmAlways == Spec => []CalmInv
BY InitCalm, CalmStep, Inductive, PTL DEF Spec

(* Calls that come one after the other, with none failing, leave the OS    *)
(* pointing at the port that psdns listens on, or not at psdns             *)
(* (app.go:168-169).                                                       *)
THEOREM NotLeftAtDeadListenerHolds == Spec => []NotLeftAtDeadListener
<1>1. CalmInv => NotLeftAtDeadListener
  BY DEF CalmInv, NotLeftAtDeadListener, Idle
<1> QED
  BY <1>1, CalmAlways, PTL

(* Then too, the listener goes down only when the OS does not point at it  *)
(* any more (app.go:168-172).                                              *)
THEOREM StopRestoresFirstHolds == Spec => StopRestoresFirst
<1>1. ASSUME IInv, CalmInv, [Next]_vars, calm, Sound, alive',
             pc["quit"] = "idle", pc'["quit"] = "idle", port # None, port' = None
      PROVE  ~PointsAtUs
  <2>1. CASE StopServers
    BY <1>1, <2>1 DEF CalmInv, StopServers, Restorers, IInv, MutexInv, Calls
  <2>2. ASSUME NEW p \in Ports \cup {None}, Start(p) PROVE FALSE
    BY <1>1, <2>2 DEF CalmInv, Start
  <2>3. CASE Quit
    BY <1>1, <2>3 DEF Quit, Goto, IInv, TypeOK, Calls
  <2>4. CASE Exit \/ Crash
    BY <1>1, <2>4 DEF Exit, Crash, ProcessEnds
  <2>5. CASE UNCHANGED sup
    BY <1>1, <2>5
  <2> QED
    BY <1>1, <2>1, <2>2, <2>3, <2>4, <2>5
       DEF Next, vars, Launch, Stop, RunStart, Settle, ApplyLock, Save,
       SaveUnseen, Capture, CaptureMisreads, Write, SaveFails, Apply, ApplyFails,
       RunRestore, RestoreLock, NoBackup, ReadBackup, ReadBackupFails, Restore,
       RestoreFails, Delete, DeleteFails
<1>2. IInv /\ CalmInv /\ [Next]_vars =>
        [/\ calm /\ Sound /\ alive' /\ pc["quit"] = "idle" /\ pc'["quit"] = "idle"
         /\ port # None /\ port' = None
         => ~PointsAtUs]_vars
  BY <1>1
<1> QED
  BY <1>2, CalmAlways, Inductive, PTL DEF Spec, StopRestoresFirst
=============================================================================
