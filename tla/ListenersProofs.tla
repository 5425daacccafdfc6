--------------------------- MODULE ListenersProofs ---------------------------
(***************************************************************************)
(* The listeners of any number of processes on any number of addresses.    *)
(***************************************************************************)
EXTENDS Listeners, TLAPS

Binds(p) == phase[p] \in {"binding", "running"}

(* A file is that of a process that will still remove it, or was killed;   *)
(* what a process listens on it will remove.                               *)
Owners ==
    /\ \A p \in Process : Binds(p) \/ phase[p] = "removing" =>
          listening[p] \cap Path \subseteq unix_domain_sockets[p]
    /\ \A p \in Process, a \in Path : file[a] = p =>
          \/ phase[p] = "killed"
          \/ Binds(p) /\ a \in unix_domain_sockets[p]
          \/ phase[p] = "removing" /\ a \in todo[p]

(* Unless a path was bound too early, what will be removed is one's own,   *)
(* and what is closed after that has no file any more.                     *)
Orderly ==
    ~raced /\ ~hasty => \A p \in Process, a \in Path :
        /\ Binds(p) /\ a \in unix_domain_sockets[p] => file[a] = p
        /\ phase[p] = "removing" /\ a \in todo[p] => file[a] = p
        /\ phase[p] = "removing" /\ a \in listening[p] \ todo[p] => file[a] = None
        /\ phase[p] = "closing" /\ a \in listening[p] => file[a] = None

LeftBehind(a) == a \in Path /\ file[a] # None /\ phase[file[a]] = "killed"

(* While no process starts before the other stopped, the one that serves   *)
(* has bound what is done but for what killed processes left.              *)
Alone ==
    /\ ~crashed => \A p \in Process : phase[p] # "killed"
    /\ ~overlapped => \A p, q \in Process : Serving(p) /\ Serving(q) => p = q
    /\ \A p \in Process : phase[p] = "binding" =>
          \A a \in todo[p] : a \notin unix_domain_sockets[p] /\ a \notin listening[p]
    /\ ~overlapped => \A p \in Process :
          /\ Binds(p) => \A a \in Address \ todo[p] : a \in listening[p] \/ LeftBehind(a)
          /\ checked[p] # None => file[checked[p]] = None

IInv == TypeOK /\ Owners /\ Orderly /\ Alone

LEMMA InitIInv == Init => IInv
<1> USE ListenersAssumption DEF Init, Serving, Binds
<1>1. Init => TypeOK
  BY DEF TypeOK
<1>2. Init => Owners /\ Orderly /\ Alone
  BY DEF Owners, Orderly, Alone
<1> QED BY <1>1, <1>2 DEF IInv

(***************************************************************************)
(* Every step keeps it                                                     *)
(***************************************************************************)
LEMMA StartKeepsIInv == ASSUME IInv, NEW p \in Process, Start(p) PROVE IInv'
<1> USE ListenersAssumption DEF IInv, TypeOK, Start, Serving, Binds, Address
<1>1. TypeOK'
  OBVIOUS
<1>2. Owners' /\ Orderly'
  BY DEF Owners, Orderly
<1>3. Alone'
  <2>1. /\ \A q \in Process : q # p => phase'[q] = phase[q] /\ todo'[q] = todo[q]
        /\ phase[p] = "down" /\ phase'[p] = "binding" /\ todo'[p] = Address
        /\ UNCHANGED <<checked, unix_domain_sockets, listening, file, crashed>>
        /\ overlapped' = (overlapped \/ \E q \in Process : Serving(q))
    OBVIOUS
  <2>2. listening[p] = {} /\ unix_domain_sockets[p] = {} /\ checked[p] = None
    OBVIOUS
  <2>3. file \in [Path -> Process \cup {None}]
    OBVIOUS
  <2> HIDE DEF TypeOK, Start
  <2>4. ~crashed => \A q \in Process : phase'[q] # "killed"
    BY <2>1 DEF Alone
  <2>5. ~overlapped' => ~overlapped /\ \A q \in Process : ~Serving(q)
    <3> HIDE DEF Serving
    <3> QED BY <2>1
  <2>6. ~overlapped' => \A q, r \in Process : Serving(q)' /\ Serving(r)' => q = r
    BY <2>1, <2>5
  <2>7. \A q \in Process : phase'[q] = "binding" =>
           \A a \in todo'[q] : a \notin unix_domain_sockets[q] /\ a \notin listening[q]
    BY <2>1, <2>2 DEF Alone
  <2>8. ~overlapped' => \A q \in Process :
          /\ Binds(q)' => \A a \in Address \ todo'[q] : a \in listening[q] \/ LeftBehind(a)'
          /\ checked[q] # None => file[checked[q]] = None
    <3>1. ~overlapped' => \A q \in Process : Binds(q)' => q = p
      BY <2>1, <2>5
    <3> QED BY <2>1, <2>5, <3>1 DEF Alone
  <2> QED BY <2>1, <2>4, <2>6, <2>7, <2>8 DEF Alone
<1> QED BY <1>1, <1>2, <1>3

LEMMA CheckKeepsIInv == ASSUME IInv, NEW p \in Process, NEW a \in Address, Check(p, a) PROVE IInv'
<1> USE ListenersAssumption DEF IInv, TypeOK, Check, GiveUp, Serving, Binds, Address, historyVars
<1>1. TypeOK'
  OBVIOUS
<1>2. Owners' /\ Orderly'
  BY DEF Owners, Orderly
<1>3. file[a] # None /\ ~overlapped => LeftBehind(a)
  BY DEF Owners, Alone, LeftBehind
<1>4. /\ phase[p] = "binding" /\ UNCHANGED <<phase, unix_domain_sockets, listening, file>>
      /\ UNCHANGED <<crashed, overlapped>>
      /\ \/ /\ file[a] # None /\ UNCHANGED checked
            /\ \A q \in Process : todo'[q] = IF q = p THEN todo[p] \ {a} ELSE todo[q]
         \/ /\ file[a] = None /\ UNCHANGED todo
            /\ \A q \in Process : checked'[q] = IF q = p THEN a ELSE checked[q]
  OBVIOUS
<1>5. Alone'
  <2> USE <1>4
  <2> HIDE DEF TypeOK, Check
  <2>1. \A b \in Address : LeftBehind(b)' <=> LeftBehind(b)
    BY DEF LeftBehind
  <2>2. \A q \in Process : phase'[q] = "binding" =>
           \A b \in todo'[q] : b \notin unix_domain_sockets'[q] /\ b \notin listening'[q]
    BY DEF Alone
  <2>3. ASSUME ~overlapped, NEW q \in Process, Binds(q)', NEW b \in Address \ todo'[q]
        PROVE  b \in listening'[q] \/ LeftBehind(b)'
    BY <1>3, <2>1, <2>3 DEF Alone
  <2>4. ASSUME ~overlapped, NEW q \in Process, checked'[q] # None
        PROVE  file'[checked'[q]] = None
    BY <2>4 DEF Alone
  <2>5. (~overlapped => \A q, t \in Process : Serving(q) /\ Serving(t) => q = t)'
    BY DEF Alone
  <2>6. (~crashed => \A q \in Process : phase[q] # "killed")'
    BY DEF Alone
  <2> QED BY <2>2, <2>3, <2>4, <2>5, <2>6 DEF Alone
<1> QED BY <1>1, <1>2, <1>5

LEMMA BindPathKeepsIInv == ASSUME IInv, NEW p \in Process, BindPath(p) PROVE IInv'
<1> USE ListenersAssumption DEF Address
<1>1. PICK a \in Path : a = checked[p] /\ a \in todo[p]
  BY DEF IInv, TypeOK, BindPath
<1>2. /\ phase[p] = "binding" /\ UNCHANGED <<phase, crashed, overlapped>>
      /\ unix_domain_sockets' \in [Process -> SUBSET Path]
      /\ \A q \in Process : unix_domain_sockets'[q] =
            IF q = p THEN unix_domain_sockets[p] \cup {a} ELSE unix_domain_sockets[q]
      /\ todo' \in [Process -> SUBSET Address]
      /\ \A q \in Process : todo'[q] = IF q = p THEN todo[p] \ {a} ELSE todo[q]
      /\ checked' \in [Process -> Path \cup {None}]
      /\ \A q \in Process : checked'[q] = IF q = p THEN None ELSE checked[q]
  BY <1>1 DEF IInv, TypeOK, BindPath
<1>3. \/ /\ file[a] = None /\ raced' = raced
         /\ hasty' = (hasty \/ \E q \in Process : a \in listening[q])
         /\ file' \in [Path -> Process \cup {None}]
         /\ \A b \in Path : file'[b] = IF b = a THEN p ELSE file[b]
         /\ listening' \in [Process -> SUBSET Address]
         /\ \A q \in Process : listening'[q] = IF q = p THEN listening[p] \cup {a} ELSE listening[q]
      \/ file[a] # None /\ raced' = TRUE /\ UNCHANGED <<file, listening, hasty>>
  <2>1. CASE file[a] = None
    <3>1. /\ file' = [file EXCEPT ![a] = p] /\ raced' = raced
          /\ hasty' = (hasty \/ \E q \in Process : a \in listening[q])
          /\ listening' = [listening EXCEPT ![p] = @ \cup {a}]
      BY <1>1, <2>1 DEF BindPath
    <3> QED BY <2>1, <3>1 DEF IInv, TypeOK
  <2>2. CASE file[a] # None
    BY <1>1, <2>2 DEF BindPath
  <2> QED BY <2>1, <2>2
<1>4. TypeOK'
  <2>1. TypeOK
    BY DEF IInv
  <2>2. /\ file' \in [Path -> Process \cup {None}] /\ listening' \in [Process -> SUBSET Address]
        /\ raced' \in BOOLEAN /\ hasty' \in BOOLEAN
    BY <1>3, <2>1 DEF TypeOK
  <2>3. \A q \in Process :
           checked'[q] # None => phase'[q] = "binding" /\ checked'[q] \in todo'[q]
    BY <1>2, <2>1 DEF TypeOK
  <2>4. \A q \in Process :
           /\ phase'[q] \notin {"binding", "running", "removing"} => unix_domain_sockets'[q] = {}
           /\ phase'[q] \notin {"binding", "removing"} => todo'[q] = {}
           /\ ~Serving(q)' => listening'[q] = {}
    BY <1>2, <1>3, <2>1 DEF TypeOK, Serving
  <2> QED BY <1>2, <2>1, <2>2, <2>3, <2>4 DEF TypeOK
<1>5. Owners'
  BY <1>2, <1>3 DEF IInv, TypeOK, Owners, Binds
<1>6. Orderly'
  <2> SUFFICES ASSUME ~raced', ~hasty', NEW q \in Process, NEW b \in Path
               PROVE  /\ Binds(q)' /\ b \in unix_domain_sockets'[q] => file'[b] = q
                      /\ phase'[q] = "removing" /\ b \in todo'[q] => file'[b] = q
                      /\ phase'[q] = "removing" /\ b \in listening'[q] \ todo'[q] => file'[b] = None
                      /\ phase'[q] = "closing" /\ b \in listening'[q] => file'[b] = None
    BY DEF Orderly
  <2>0. raced' = raced /\ hasty' = (hasty \/ \E t \in Process : a \in listening[t])
    BY <1>3
  <2>5. ~raced /\ ~hasty /\ ~(\E t \in Process : a \in listening[t])
    BY <2>0
  <2>1. /\ ~raced /\ ~hasty /\ file[a] = None /\ a \notin listening[q]
        /\ file'[b] = IF b = a THEN p ELSE file[b]
        /\ listening'[q] = IF q = p THEN listening[p] \cup {a} ELSE listening[q]
    BY <1>3, <2>5
  <2>2. /\ Binds(q) /\ b \in unix_domain_sockets[q] => file[b] = q
        /\ phase[q] = "removing" /\ b \in todo[q] => file[b] = q
        /\ phase[q] = "removing" /\ b \in listening[q] \ todo[q] => file[b] = None
        /\ phase[q] = "closing" /\ b \in listening[q] => file[b] = None
    BY <2>1 DEF IInv, Orderly
  <2>3. CASE q = p
    BY <1>2, <2>1, <2>2, <2>3 DEF Binds
  <2>4. CASE q # p
    BY <1>2, <2>1, <2>2, <2>4, ListenersAssumption DEF Binds
  <2> QED BY <2>3, <2>4
<1>7. Alone'
  <2>1. \A q \in Process : phase'[q] = "binding" =>
           \A b \in todo'[q] : b \notin unix_domain_sockets'[q] /\ b \notin listening'[q]
    BY <1>2, <1>3 DEF IInv, Alone
  <2>2. ASSUME ~overlapped
        PROVE  \A q \in Process :
          /\ Binds(q)' => \A b \in Address \ todo'[q] : b \in listening'[q] \/ LeftBehind(b)'
          /\ checked'[q] # None => file'[checked'[q]] = None
    <3>1. file[a] = None
      BY <1>1, <2>2 DEF IInv, Alone
    <3>2. \A q \in Process : Serving(q) => q = p
      BY <1>2, <2>2 DEF IInv, Alone, Serving
    <3>3. \A q \in Process : checked'[q] = None
      BY <1>2, <3>2 DEF IInv, TypeOK, Serving
    <3>4. \A b \in Address : LeftBehind(b) => LeftBehind(b)'
      BY <1>2, <1>3, <3>1 DEF LeftBehind
    <3>5. \A b \in Address \ todo'[p] : b \in listening'[p] \/ LeftBehind(b)'
      BY <1>2, <1>3, <2>2, <3>1, <3>4 DEF IInv, Alone, Binds
    <3> QED BY <1>2, <3>2, <3>3, <3>5 DEF Serving, Binds
  <2> QED BY <1>2, <2>1, <2>2 DEF IInv, Alone, Serving
<1> QED BY <1>4, <1>5, <1>6, <1>7 DEF IInv

LEMMA BindPortKeepsIInv ==
    ASSUME IInv, NEW p \in Process, NEW a \in Address, BindPort(p, a) PROVE IInv'
<1> USE ListenersAssumption DEF IInv, TypeOK, BindPort, Serving, Binds, Address, historyVars
<1>1. TypeOK'
  OBVIOUS
<1>2. Owners' /\ Orderly'
  BY DEF Owners, Orderly
<1>3. ~overlapped => a \in listening'[p]
  BY DEF Alone
<1>4. Alone'
  BY <1>3 DEF Alone, LeftBehind
<1> QED BY <1>1, <1>2, <1>4

(* The steps that only take a process to its next phase.                   *)
LEMMA PhaseKeepsIInv ==
    ASSUME IInv, NEW p \in Process, Run(p) \/ OnSignal(p) \/ ClearPaths(p) \/ AllClosed(p)
    PROVE  IInv'
<1> USE ListenersAssumption DEF IInv, TypeOK, Run, OnSignal, ClearPaths, AllClosed, PathsCleared,
        Closable, Serving, Binds, Address, historyVars
<1>1. TypeOK'
  BY DEF Owners
<1>2. Owners'
  BY DEF Owners
<1>3. Orderly'
  BY DEF Orderly, Owners
<1>4. Alone'
  BY DEF Alone, LeftBehind
<1> QED BY <1>1, <1>2, <1>3, <1>4

(* The steps that unlink the file of a path.                               *)
LEMMA UnlinkKeepsIInv ==
    ASSUME IInv, NEW p \in Process, NEW a \in Address, RemovePath(p, a) \/ CloseListener(p, a)
    PROVE  IInv'
<1> USE ListenersAssumption DEF IInv, TypeOK, RemovePath, CloseListener, Without, Closable,
        Serving, Binds, Address, historyVars
<1>1. TypeOK'
  OBVIOUS
<1>2. Owners'
  BY DEF Owners
<1>3. Orderly'
  BY DEF Orderly
<1>4. Alone'
  BY DEF Alone
<1> QED BY <1>1, <1>2, <1>3, <1>4

LEMMA ExitKeepsIInv == ASSUME IInv, NEW p \in Process, Exit(p) PROVE IInv'
<1> USE ListenersAssumption DEF IInv, TypeOK, Exit, Without, PathsCleared, Serving, Binds, Address,
        historyVars
<1>0. unix_domain_sockets[p] = {} /\ file' = file
  OBVIOUS
<1>1. TypeOK'
  OBVIOUS
<1>2. Owners' /\ Orderly'
  BY <1>0 DEF Owners, Orderly
<1>3. Alone'
  BY <1>0 DEF Alone, LeftBehind
<1> QED BY <1>1, <1>2, <1>3

LEMMA DieKeepsIInv ==
    ASSUME IInv, NEW p \in Process, FailToResolve(p) \/ Kill(p) PROVE IInv'
<1> USE ListenersAssumption DEF IInv, TypeOK, FailToResolve, Kill, Alive, Die, Serving, Binds,
        Address
<1>1. TypeOK'
  OBVIOUS
<1>2. Owners' /\ Orderly'
  BY DEF Owners, Orderly
<1>3. Alone'
  BY DEF Alone, LeftBehind
<1> QED BY <1>1, <1>2, <1>3

LEMMA NextKeepsIInv == IInv /\ [Next]_vars => IInv'
<1> SUFFICES ASSUME IInv, [Next]_vars PROVE IInv'
  OBVIOUS
<1>1. CASE UNCHANGED vars
  BY <1>1 DEF vars, historyVars, IInv, TypeOK, Owners, Orderly, Alone, LeftBehind, Serving, Binds
<1> QED BY <1>1, StartKeepsIInv, CheckKeepsIInv, BindPathKeepsIInv, BindPortKeepsIInv,
           PhaseKeepsIInv, UnlinkKeepsIInv, ExitKeepsIInv, DieKeepsIInv DEF Next

LEMMA Inductive == Spec => []IInv
BY InitIInv, NextKeepsIInv, PTL DEF Spec

(* The variables keep their types, and only who serves has listeners.      *)
THEOREM ListenersTypes == Spec => []TypeOK
<1>1. IInv => TypeOK
  BY DEF IInv
<1> QED BY <1>1, Inductive, PTL

(* The file of a listener stays, and stays its own, whoever starts, stops  *)
(* or dies, unless two processes raced for the path or one bound it before *)
(* the last had closed its listener.                                       *)
THEOREM FilesStay == Spec => []ListenersReachable
<1>1. IInv => ListenersReachable
  BY DEF IInv, Owners, Orderly, Binds, ListenersReachable
<1> QED BY <1>1, Inductive, PTL

(* An orderly stop leaves no file behind.                                  *)
THEOREM FilesRemoved == Spec => []StopLeavesNoFile
<1>1. IInv => StopLeavesNoFile
  BY DEF IInv, Owners, Binds, StopLeavesNoFile
<1> QED BY <1>1, Inductive, PTL

(* A killed process costs those after it the paths it left, nothing else.  *)
THEOREM CrashesCostPaths == Spec => []CrashCostsItsPaths
<1>1. IInv => CrashCostsItsPaths
  BY DEF IInv, TypeOK, Alone, Binds, LeftBehind, CrashCostsItsPaths
<1> QED BY <1>1, Inductive, PTL

(* After orderly stops the next process listens everywhere.                *)
THEOREM RestartsListen == Spec => []CleanRestartListens
<1>1. IInv => CleanRestartListens
  <2> SUFFICES ASSUME IInv, ~crashed, ~overlapped, NEW p \in Process, phase[p] = "running"
               PROVE  listening[p] = Address
    BY DEF CleanRestartListens
  <2>1. listening[p] \subseteq Address /\ todo[p] = {}
    BY DEF IInv, TypeOK
  <2>2. \A a \in Address : a \in listening[p] \/ LeftBehind(a)
    BY <2>1 DEF IInv, Alone, Binds
  <2>3. \A a \in Address : ~LeftBehind(a)
    BY DEF IInv, TypeOK, Alone, LeftBehind
  <2> QED BY <2>1, <2>2, <2>3
<1> QED BY <1>1, Inductive, PTL
=============================================================================
