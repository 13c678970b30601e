-------------------------- MODULE SelfUpdateProofs --------------------------
(***************************************************************************)
(* Types, UpdateNeverTears and FallbackForward, for any number of updates  *)
(* in progress, any releases, any number of polls and any interleaving     *)
(* with the guard, restarts and failures.                                  *)
(*                                                                         *)
(* That an update swaps in a whole binary depends on what .new holds since *)
(* the download was written, and that in turn on the download still going  *)
(* to .new, which another update could have renamed.  Both hold as long as *)
(* the updates have not met (WholeInv): one call at most is then past its  *)
(* download.                                                               *)
(***************************************************************************)
EXTENDS SelfUpdate, TLAPS

\* The calls that are past their download.
AtFiles(u) == update[u].stage \notin {"off", "downloading"}

CopyInv ==
  /\ guard.stage = "copying" => prev # None
  /\ guard.stage \in {"copying", "renaming"} => guard.copy # None
  /\ \A u \in Updates : update[u].stage = "copying" => update[u].copy # None

TypeInv == TypeOK /\ CopyInv

WholeInv ==
  ~met =>
    \A u \in Updates : AtFiles(u) =>
      /\ Alone(u)
      /\ update[u].stage = "writing" => update[u].at = "new"
      /\ update[u].stage \in {"written", "copying", "copied"} => new = update[u].version

\* Updates end with the process, and a fallback is for a newer version than
\* the one that runs.
ForwardInv ==
  \A u \in Updates :
    update[u].stage # "off" =>
      /\ running # None
      /\ u = Updater => update[u].version = Latest /\ Latest > running

-----------------------------------------------------------------------------
LEMMA States ==
  /\ NoUpdate \in Update /\ NoUpdate.stage = "off" /\ NoUpdate.at = "new"
  /\ Off \in Guard /\ Off.stage = "off"
  /\ \A s \in {"polling", "reporting"} :
       [Off EXCEPT !.stage = s] \in Guard /\ [Off EXCEPT !.stage = s].stage = s
  BY VersionsAssumption, AttemptsAssumption
  DEF NoUpdate, Update, Off, Guard, Content

\* Every step that ends the process.
LEMMA StopInv ==
  ASSUME TypeInv, Stop, UNCHANGED files
  PROVE  TypeInv' /\ WholeInv'
  BY States DEF Stop, TypeInv, TypeOK, CopyInv, WholeInv, AtFiles, Alone, files

\* A step of the process or the guard that changes no file.
LEMMA QuietInv ==
  ASSUME TypeInv, UNCHANGED <<files, updates>>,
         running' \in Versions \union {None},
         serving' \in BOOLEAN,
         contact' \in {"never", "recent", "absent"},
         guard' \in Guard,
         guard'.stage = "copying" => prev # None,
         guard'.stage \in {"copying", "renaming"} => guard'.copy # None
  PROVE  TypeInv' /\ (WholeInv => WholeInv')
  BY DEF TypeInv, TypeOK, CopyInv, WholeInv, AtFiles, Alone, files, updates

LEMMA ProcessStep ==
  ASSUME TypeInv, Start \/ Listen \/ Crash \/ Contact \/ Silence
  PROVE  TypeInv' /\ (WholeInv => WholeInv')
<1> USE DEF TypeInv, TypeOK, CopyInv
<1>1. CASE Start
  <2> guard' \in Guard /\ guard'.stage = "polling" /\ running' \in Versions \union {None}
    BY <1>1, States DEF Start
  <2> QED
    BY <1>1, QuietInv DEF Start
<1>2. CASE Listen
  BY <1>2, QuietInv DEF Listen
<1>3. CASE Crash
  BY <1>3, StopInv DEF Crash
<1>4. CASE Contact
  BY <1>4, QuietInv DEF Contact
<1>5. CASE Silence
  BY <1>5, QuietInv DEF Silence
<1> QED
  BY <1>1, <1>2, <1>3, <1>4, <1>5

LEMMA GuardInv ==
  ASSUME TypeInv, GuardStep
  PROVE  TypeInv' /\ (WholeInv => WholeInv')
<1> USE DEF TypeInv, TypeOK, CopyInv
<1>1. CASE PollSucceeds
  BY <1>1, States, QuietInv DEF PollSucceeds
<1>2. CASE PollFails
  <2> guard' \in Guard /\ guard'.stage = "polling"
    BY <1>2, AttemptsAssumption DEF PollFails, Guard
  <2> QED
    BY <1>2, QuietInv DEF PollFails
<1>3. CASE GiveUp
  <2> /\ guard' \in Guard
      /\ guard'.stage # "renaming"
      /\ guard'.stage = "copying" => guard'.copy = prev /\ prev # None
    BY <1>3, AttemptsAssumption DEF GiveUp, Guard
  <2> QED
    BY <1>3, QuietInv DEF GiveUp
<1>4. CASE Copied
  <2> guard' \in Guard /\ guard'.stage = "renaming" /\ guard'.copy # None
    BY <1>4 DEF Copied, Guard
  <2> QED
    BY <1>4, QuietInv DEF Copied
<1>5. CASE RestoreFails
  BY <1>5, States, QuietInv DEF RestoreFails
<1>6. CASE RenameRestored
  <2>1. /\ target' \in Versions \union {Torn}
        /\ guard' \in Guard /\ guard'.stage = "reporting"
    BY <1>6, States DEF RenameRestored, Guard, Content
  <2>2. /\ update' \in [Updates -> Update]
        /\ \A u \in Updates :
             /\ update'[u].stage = update[u].stage
             /\ update'[u].copy = update[u].copy
             /\ update'[u].version = update[u].version
             /\ update[u].at = "new" => update'[u].at = "new"
    BY <1>6 DEF RenameRestored, Follow, Update
  <2>3. TypeInv'
    BY <1>6, <2>1, <2>2 DEF RenameRestored
  <2>4. WholeInv => WholeInv'
    <3>1. met' = met /\ new' = new
      BY <1>6 DEF RenameRestored
    <3>2. \A v \in Updates : Alone(v)' = Alone(v) /\ AtFiles(v)' = AtFiles(v)
      BY <2>2 DEF AtFiles, Alone
    <3> QED
      BY <2>2, <3>1, <3>2 DEF WholeInv
  <2> QED
    BY <2>3, <2>4
<1>7. CASE GuardExits
  BY <1>7, StopInv DEF GuardExits
<1> QED
  BY <1>1, <1>2, <1>3, <1>4, <1>5, <1>6, <1>7 DEF GuardStep

LEMMA RequestInv ==
  ASSUME TypeInv, NEW u \in Updates, Requested(u)
  PROVE  TypeInv' /\ (WholeInv => WholeInv')
<1>1. PICK r \in Versions : Begin(u, r)
  BY VersionsAssumption DEF Requested, Command, Fallback
<1>2. /\ update' \in [Updates -> Update]
      /\ \A w \in Updates \ {u} : update'[w] = update[w]
      /\ update'[u].stage = "downloading" /\ update'[u].at = "new"
  BY <1>1, States DEF Begin, TypeInv, TypeOK, Update, NoUpdate
<1>3. UNCHANGED <<files, running, serving, contact, guard, met>> /\ update[u].stage = "off"
  BY <1>1 DEF Begin
<1>4. TypeInv'
  BY <1>2, <1>3 DEF TypeInv, TypeOK, CopyInv, files
<1>5. WholeInv => WholeInv'
  <2> SUFFICES ASSUME WholeInv, ~met', NEW v \in Updates, AtFiles(v)'
               PROVE  /\ Alone(v)'
                      /\ update'[v].stage = "writing" => update'[v].at = "new"
                      /\ update'[v].stage \in {"written", "copying", "copied"} =>
                           new' = update'[v].version
    BY DEF WholeInv
  <2>1. v # u /\ update'[v] = update[v] /\ ~met /\ new' = new
    BY <1>2, <1>3 DEF AtFiles, files
  <2>2. Alone(v)'
    BY <1>2, <2>1 DEF WholeInv, AtFiles, Alone
  <2>3. AtFiles(v)
    BY <2>1 DEF AtFiles
  <2>4. /\ update[v].stage = "writing" => update[v].at = "new"
        /\ update[v].stage \in {"written", "copying", "copied"} => new = update[v].version
    BY <2>1, <2>3 DEF WholeInv
  <2> QED
    BY <2>1, <2>2, <2>4
<1> QED
  BY <1>4, <1>5

LEMMA UpdateTypes ==
  ASSUME TypeInv, NEW u \in Updates, Proceeds(u) \/ UpdateFails(u)
  PROVE  TypeInv'
<1> USE DEF TypeInv, TypeOK, CopyInv
<1>1. CASE UpdateFails(u)
  <2>1. /\ update' \in [Updates -> Update]
        /\ \A w \in Updates \ {u} : update'[w] = update[w]
        /\ update'[u].stage = "off"
    BY <1>1, States DEF UpdateFails, UpdateEnds
  <2> QED
    BY <1>1, <2>1 DEF UpdateFails, files
<1>2. CASE WriteBegins(u)
  <2>0. [update[u] EXCEPT !.stage = "writing", !.at = "new"] \in Update
    BY DEF Update
  <2>1. /\ update' \in [Updates -> Update]
        /\ \A w \in Updates \ {u} : update'[w] = update[w]
        /\ update'[u].stage = "writing" /\ met' \in BOOLEAN
    BY <1>2, <2>0 DEF WriteBegins
  <2>2. UNCHANGED <<target, prev, tls, running, serving, contact, guard>> /\ new' \in Content
    BY <1>2 DEF WriteBegins, Content
  <2>3. CopyInv'
    BY <2>1, <2>2
  <2> QED
    BY <2>1, <2>2, <2>3
<1>3. CASE WriteEnds(u)
  <2>1. update' \in [Updates -> Update]
    BY <1>3 DEF WriteEnds, UpdateMoves, Update
  <2>2. target' \in Versions \union {Torn} /\ new' \in Content
    BY <1>3 DEF WriteEnds, Content, Update
  <2> QED
    BY <1>3, <2>1, <2>2 DEF WriteEnds, UpdateMoves
<1>4. CASE BackupBegins(u)
  <2>1. update' \in [Updates -> Update]
    <3>1. update[u] \in Update /\ target \in Content
      BY DEF Content
    <3>2. [update[u] EXCEPT !.stage = "copying", !.copy = target] \in Update
      BY <3>1 DEF Update
    <3> QED
      BY <1>4, <3>2 DEF BackupBegins
  <2>2. guard' \in Guard
    BY <1>4 DEF BackupBegins, Guard, Content
  <2>3. CopyInv'
    BY <1>4, VersionsAssumption DEF BackupBegins, Guard, Update
  <2> QED
    BY <1>4, <2>1, <2>2, <2>3 DEF BackupBegins, Content
<1>5. CASE BackupEnds(u)
  <2>1. /\ update' \in [Updates -> Update]
        /\ \A w \in Updates \ {u} : update'[w] = update[w]
        /\ update'[u].stage = "copied"
    BY <1>5 DEF BackupEnds, Update, Content
  <2>2. prev' \in Content /\ prev' # None
    BY <1>5, VersionsAssumption DEF BackupEnds, Update, Content
  <2>3. CopyInv'
    BY <1>5, <2>1, <2>2 DEF BackupEnds
  <2> QED
    BY <1>5, <2>1, <2>2, <2>3 DEF BackupEnds
<1>6. CASE Swap(u)
  <2> DEFINE followed == Follow(update, "new")
  <2>1. /\ followed \in [Updates -> Update]
        /\ \A w \in Updates : /\ followed[w].copy = update[w].copy
                             /\ followed[w].stage = update[w].stage
    BY DEF Follow, Update
  <2>2. update' = [followed EXCEPT ![u].stage = "exiting"]
    BY <1>6 DEF Swap
  <2> HIDE DEF followed
  <2>3. update'[u] = [followed[u] EXCEPT !.stage = "exiting"]
    BY <2>1, <2>2
  <2>4. \A w \in Updates \ {u} : update'[w] = followed[w]
    BY <2>1, <2>2
  <2>5. /\ update'[u] \in Update /\ update'[u].stage = "exiting"
        /\ update'[u].copy = update[u].copy
    <3> followed[u] \in Update /\ followed[u].copy = update[u].copy
      BY <2>1
    <3> QED
      BY <2>3 DEF Update
  <2>6. update' \in [Updates -> Update]
    BY <2>1, <2>2, <2>4, <2>5
  <2>7. target' \in Versions \union {Torn} /\ new' \in Content
    BY <1>6 DEF Swap, Content
  <2>8. CopyInv'
    BY <1>6, <2>1, <2>4, <2>5 DEF Swap
  <2> QED
    BY <1>6, <2>6, <2>7, <2>8 DEF Swap
<1>7. CASE Exit(u)
  BY <1>7, StopInv DEF Exit
<1> QED
  BY <1>1, <1>2, <1>3, <1>4, <1>5, <1>6, <1>7 DEF Proceeds

\* With one update at a time, what .new holds is that update's own.
\* The files of a step of u, when no other call is past its download.
LEMMA WholeAlone ==
  ASSUME TypeInv, NEW u \in Updates, ~met' => Alone(u),
         \A w \in Updates \ {u} : update'[w].stage = update[w].stage,
         ~met' /\ update'[u].stage = "writing" => update'[u].at = "new",
         ~met' /\ update'[u].stage \in {"written", "copying", "copied"} =>
           new' = update'[u].version
  PROVE  WholeInv'
<1> SUFFICES ASSUME ~met', NEW v \in Updates, AtFiles(v)'
             PROVE  /\ Alone(v)'
                    /\ update'[v].stage = "writing" => update'[v].at = "new"
                    /\ update'[v].stage \in {"written", "copying", "copied"} =>
                         new' = update'[v].version
  BY DEF WholeInv
<1>1. v = u
  BY DEF Alone, AtFiles
<1>2. Alone(u)'
  BY DEF Alone
<1> QED
  BY <1>1, <1>2

\* While no two calls have met, what .new holds is that of the one at it.
LEMMA UpdateWhole ==
  ASSUME TypeInv, WholeInv, NEW u \in Updates, Proceeds(u) \/ UpdateFails(u)
  PROVE  WholeInv'
<1> USE DEF TypeInv, TypeOK
<1>0. ASSUME ~met, update[u].stage \notin {"off", "downloading"}
      PROVE  /\ Alone(u)
             /\ update[u].stage = "writing" => update[u].at = "new"
             /\ update[u].stage \in {"written", "copying", "copied"} =>
                  new = update[u].version
  BY <1>0 DEF WholeInv, AtFiles
<1>1. CASE UpdateFails(u)
  <2>1. /\ \A w \in Updates \ {u} : update'[w] = update[w]
        /\ update'[u].stage = "off"
    BY <1>1, States DEF UpdateFails, UpdateEnds
  <2> QED
    BY <1>1, <2>1 DEF UpdateFails, WholeInv, AtFiles, Alone, files
<1>2. CASE WriteBegins(u)
  <2>1. /\ \A w \in Updates \ {u} : update'[w] = update[w]
        /\ update'[u].stage = "writing" /\ update'[u].at = "new"
    BY <1>2 DEF WriteBegins, Update
  <2> QED
    BY <1>2, <2>1, WholeAlone DEF WriteBegins
<1>3. CASE WriteEnds(u)
  <2>1. /\ \A w \in Updates \ {u} : update'[w] = update[w]
        /\ update'[u].stage = "written" /\ update'[u].version = update[u].version
    BY <1>3 DEF WriteEnds, UpdateMoves, Update
  <2>2. met' = met /\ (~met => Alone(u) /\ new' = update[u].version)
    BY <1>0, <1>3 DEF WriteEnds
  <2> QED
    BY <2>1, <2>2, WholeAlone
<1>4. CASE BackupBegins(u)
  <2>1. /\ \A w \in Updates \ {u} : update'[w] = update[w]
        /\ update'[u].stage = "copying" /\ update'[u].version = update[u].version
    BY <1>4 DEF BackupBegins, Update
  <2> QED
    BY <1>0, <1>4, <2>1, WholeAlone DEF BackupBegins
<1>5. CASE BackupEnds(u)
  <2>1. /\ \A w \in Updates \ {u} : update'[w] = update[w]
        /\ update'[u].stage = "copied" /\ update'[u].version = update[u].version
    BY <1>5 DEF BackupEnds, Update
  <2> QED
    BY <1>0, <1>5, <2>1, WholeAlone DEF BackupEnds
<1>6. CASE Swap(u)
  <2>1. /\ \A w \in Updates \ {u} : update'[w].stage = update[w].stage
        /\ update'[u].stage = "exiting"
    BY <1>6 DEF Swap, Follow, Update
  <2> QED
    BY <1>0, <1>6, <2>1, WholeAlone DEF Swap
<1>7. CASE Exit(u)
  BY <1>7, StopInv DEF Exit
<1> QED
  BY <1>1, <1>2, <1>3, <1>4, <1>5, <1>6, <1>7 DEF Proceeds

-----------------------------------------------------------------------------
LEMMA InitInv == Init => TypeInv /\ WholeInv
<1> SUFFICES ASSUME Init PROVE TypeInv /\ WholeInv
  OBVIOUS
<1>1. TypeInv
  BY States, VersionsAssumption DEF Init, TypeInv, TypeOK, CopyInv, Content
<1>2. WholeInv
  BY States DEF Init, WholeInv, AtFiles, Alone
<1> QED
  BY <1>1, <1>2

LEMMA NextInv == TypeInv /\ [Next]_vars => TypeInv'
<1> SUFFICES ASSUME TypeInv, [Next]_vars PROVE TypeInv'
  OBVIOUS
<1>1. CASE UNCHANGED vars
  BY <1>1 DEF vars, TypeInv, TypeOK, CopyInv
<1>2. CASE Next
  BY <1>2, ProcessStep, GuardInv, RequestInv, UpdateTypes DEF Next
<1> QED
  BY <1>1, <1>2

LEMMA NextWhole == TypeInv /\ WholeInv /\ [Next]_vars => WholeInv'
<1> SUFFICES ASSUME TypeInv, WholeInv, [Next]_vars PROVE WholeInv'
  OBVIOUS
<1>1. CASE UNCHANGED vars
  BY <1>1 DEF vars, WholeInv, AtFiles, Alone
<1>2. CASE Next
  BY <1>2, ProcessStep, GuardInv, RequestInv, UpdateWhole DEF Next
<1> QED
  BY <1>1, <1>2

(***************************************************************************)
(* Files, process, guard and updates keep their types; in particular the   *)
(* installed binary is never missing, however updates, guard and restarts  *)
(* interleave.                                                             *)
(***************************************************************************)
THEOREM TypeCorrect == Spec => []TypeOK
<1>1. Init => TypeInv
  BY InitInv
<1>2. TypeInv /\ [Next]_vars => TypeInv'
  BY NextInv
<1>3. TypeInv => TypeOK
  BY DEF TypeInv
<1> QED
  BY <1>1, <1>2, <1>3, PTL DEF Spec

(***************************************************************************)
(* Updates, however many are in progress, failing or cut short anywhere,   *)
(* leave a torn binary at the installed path only if one began to write    *)
(* .new while another was at the files; otherwise only the rename of a     *)
(* restored backup can.                                                    *)
(***************************************************************************)
THEOREM UpdatesNeverTear == Spec => UpdateNeverTears
<1> DEFINE Whole == target' = Torn => target = Torn \/ guard.stage = "renaming" \/ met
<1>1. Init => TypeInv /\ WholeInv
  BY InitInv
<1>2. TypeInv /\ WholeInv /\ [Next]_vars => (TypeInv /\ WholeInv)'
  BY NextInv, NextWhole
<1>3. TypeInv /\ WholeInv /\ [Next]_vars => Whole \/ UNCHANGED vars
  <2> SUFFICES ASSUME TypeInv, WholeInv, Next, target' # target,
                      guard.stage # "renaming", ~met
               PROVE  target' # Torn
    BY DEF vars
  <2>1. PICK u \in Updates : WriteEnds(u) \/ Swap(u)
    BY DEF Next, Start, Listen, Crash, Contact, Silence, GuardStep, PollSucceeds,
       PollFails, GiveUp, Copied, RestoreFails, RenameRestored, GuardExits, Requested,
       Command, Fallback, Begin, Proceeds, WriteBegins, BackupBegins, BackupEnds,
       Exit, UpdateFails, files, updates
  <2>2. CASE WriteEnds(u)
    <3>1. update[u].at = "new"
      BY <2>2 DEF WriteEnds, WholeInv, AtFiles
    <3> QED
      BY <2>2, <3>1 DEF WriteEnds
  <2>3. CASE Swap(u)
    <3>1. new = update[u].version
      BY <2>3 DEF Swap, WholeInv, AtFiles
    <3> QED
      BY <2>3, <3>1, VersionsAssumption DEF Swap, TypeInv, TypeOK, Update
  <2> QED
    BY <2>1, <2>2, <2>3
<1> QED
  BY <1>1, <1>2, <1>3, PTL DEF Spec, UpdateNeverTears
-----------------------------------------------------------------------------
\* A step after which every update is as it was, apart from its stage, its file
\* and what it copies.
LEMMA ForwardMoves ==
  ASSUME TypeInv, ForwardInv, UNCHANGED running,
         \A w \in Updates :
           /\ update[w].stage = "off" => update'[w].stage = "off"
           /\ update'[w].version = update[w].version
  PROVE  ForwardInv'
  BY DEF ForwardInv

LEMMA ForwardStops ==
  ASSUME Stop
  PROVE  ForwardInv'
  BY States DEF Stop, ForwardInv

LEMMA ForwardRequest ==
  ASSUME TypeInv, ForwardInv, NEW u \in Updates, Requested(u)
  PROVE  ForwardInv'
<1>1. PICK v \in Versions :
        Begin(u, v) /\ (u = Updater => v = Latest /\ Latest > running)
  BY VersionsAssumption DEF Requested, Command, Fallback, Newer
<1>2. /\ \A w \in Updates \ {u} : update'[w] = update[w]
      /\ update'[u].version = v
  BY <1>1 DEF Begin, TypeInv, TypeOK, Update, NoUpdate
<1>3. running # None /\ running' = running
  BY <1>1 DEF Begin
<1> QED
  BY <1>1, <1>2, <1>3 DEF ForwardInv

LEMMA ForwardUpdate ==
  ASSUME TypeInv, ForwardInv, NEW u \in Updates, Proceeds(u) \/ UpdateFails(u)
  PROVE  ForwardInv'
<1> USE DEF TypeInv, TypeOK
<1>1. CASE UpdateFails(u)
  <2>1. /\ \A w \in Updates \ {u} : update'[w] = update[w]
        /\ update'[u].stage = "off"
    BY <1>1, States DEF UpdateFails, UpdateEnds
  <2> QED
    BY <1>1, <2>1 DEF UpdateFails, ForwardInv
<1>2. CASE WriteBegins(u)
  BY <1>2, ForwardMoves DEF WriteBegins, UpdateMoves, Update
<1>3. CASE WriteEnds(u)
  BY <1>3, ForwardMoves DEF WriteEnds, UpdateMoves, Update
<1>4. CASE BackupBegins(u)
  BY <1>4, ForwardMoves DEF BackupBegins, Update
<1>5. CASE BackupEnds(u)
  BY <1>5, ForwardMoves DEF BackupEnds, Update
<1>6. CASE Swap(u)
  BY <1>6, ForwardMoves DEF Swap, Follow, Update
<1>7. CASE Exit(u)
  BY <1>7, ForwardStops DEF Exit
<1> QED
  BY <1>1, <1>2, <1>3, <1>4, <1>5, <1>6, <1>7 DEF Proceeds

LEMMA NextForward == TypeInv /\ ForwardInv /\ [Next]_vars => ForwardInv'
<1> SUFFICES ASSUME TypeInv, ForwardInv, [Next]_vars PROVE ForwardInv'
  OBVIOUS
<1>1. CASE UNCHANGED vars
  BY <1>1 DEF vars, ForwardInv
<1>2. CASE Start
  BY <1>2 DEF Start, ForwardInv, updates
<1>3. CASE Listen \/ Contact \/ Silence
  BY <1>3 DEF Listen, Contact, Silence, ForwardInv, updates
<1>4. CASE Crash \/ GuardExits
  BY <1>4, ForwardStops DEF Crash, GuardExits
<1>5. CASE PollSucceeds \/ PollFails \/ GiveUp \/ Copied \/ RestoreFails
  BY <1>5 DEF PollSucceeds, PollFails, GiveUp, Copied, RestoreFails, ForwardInv, updates
<1>6. CASE RenameRestored
  BY <1>6, ForwardMoves DEF RenameRestored, Follow, TypeInv, TypeOK, Update
<1>7. CASE \E u \in Updates : Requested(u) \/ Proceeds(u) \/ UpdateFails(u)
  BY <1>7, ForwardRequest, ForwardUpdate
<1> QED
  BY <1>1, <1>2, <1>3, <1>4, <1>5, <1>6, <1>7 DEF Next, GuardStep

\* The step that takes an update from "copied" to "exiting" is its Swap.
LEMMA SwapOnly ==
  ASSUME TypeInv, Next, NEW u \in Updates,
         update[u].stage = "copied", update'[u].stage = "exiting"
  PROVE  Swap(u) \/ \E w \in Updates \ {u} : Swap(w) /\ update[w].stage = "copied"
<1> USE DEF TypeInv, TypeOK
<1>1. ~(Start \/ Listen \/ Contact \/ Silence)
  BY DEF Start, Listen, Contact, Silence, updates
<1>2. ~(Crash \/ GuardExits \/ \E w \in Updates : Exit(w))
  BY States DEF Crash, GuardExits, Exit, Stop
<1>3. ~(PollSucceeds \/ PollFails \/ GiveUp \/ Copied \/ RestoreFails)
  BY DEF PollSucceeds, PollFails, GiveUp, Copied, RestoreFails, updates
<1>4. ~RenameRestored
  BY DEF RenameRestored, Follow, Update
<1>5. PICK w \in Updates : Requested(w) \/ Proceeds(w) \/ UpdateFails(w)
  BY <1>1, <1>2, <1>3, <1>4 DEF Next, GuardStep
<1>6. ~Requested(w)
  BY States DEF Requested, Command, Fallback, Begin
<1>7. ~UpdateFails(w)
  BY States DEF UpdateFails, UpdateEnds
<1>8. ~(WriteBegins(w) \/ WriteEnds(w) \/ BackupBegins(w) \/ BackupEnds(w))
  BY DEF WriteBegins, WriteEnds, BackupBegins, BackupEnds, UpdateMoves
<1>9. Swap(w)
  BY <1>2, <1>5, <1>6, <1>7, <1>8 DEF Proceeds
<1> QED
  BY <1>9 DEF Swap

(***************************************************************************)
(* What the fallback updater installs is newer than what runs, whatever    *)
(* the dashboard commanded, the guard restored or a crash cut short        *)
(* before: restarts do not repeat the same update.  Only another call that *)
(* was at the files at the same time can put an older version there.       *)
(***************************************************************************)
THEOREM FallbackGoesForward == Spec => FallbackForward
<1> DEFINE Inv == TypeInv /\ WholeInv /\ ForwardInv
           Forward ==
             update[Updater].stage = "copied" /\ update'[Updater].stage = "exiting"
               => met \/ (target' \in Versions /\ target' > running)
<1>1. Init => Inv
  BY InitInv, States DEF Init, ForwardInv
<1>2. Inv /\ [Next]_vars => Inv'
  BY NextInv, NextWhole, NextForward
<1>3. Inv /\ [Next]_vars => Forward \/ UNCHANGED vars
  <2> SUFFICES ASSUME Inv, Next, ~met,
                      update[Updater].stage = "copied",
                      update'[Updater].stage = "exiting"
               PROVE  target' \in Versions /\ target' > running
    OBVIOUS
  <2>1. Alone(Updater) /\ new = update[Updater].version
    BY UpdatesAssumption DEF WholeInv, AtFiles
  <2>2. Swap(Updater)
    BY <2>1, SwapOnly, UpdatesAssumption DEF Alone
  <2>3. target' = update[Updater].version
    BY <2>1, <2>2 DEF Swap
  <2> QED
    BY <2>3, VersionsAssumption, UpdatesAssumption DEF ForwardInv
<1> QED
  BY <1>1, <1>2, <1>3, PTL DEF Spec, FallbackForward
=============================================================================
