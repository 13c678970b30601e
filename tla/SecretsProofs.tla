---------------------------- MODULE SecretsProofs ----------------------------
(***************************************************************************)
(* Types, KeptSurvives and RingWhole for any number of rotations of both   *)
(* secrets at once, of passwords, keys and restarts.                       *)
(*                                                                         *)
(* KeptSurvives needs what a rotation knows that was the sole one from its *)
(* beginning: it still is, and what it set is still in force (LoneInv);    *)
(* and that once one has kept its secret nobody is about to change a copy  *)
(* of it (QuietInv).  RingWhole needs that what is about to be renamed is  *)
(* complete (TmpInv).                                                      *)
(***************************************************************************)
EXTENDS Secrets, TLAPS

Places == DbTask \union PskTask \union {Idle}

Kind(s) == IF s = "db" THEN DbTask ELSE PskTask

\* What is in force of s.
InForce(s) == IF s = "db" THEN password ELSE psk

LoneInv ==
  \A s \in {"db", "psk"}, a \in Slots :
    sole[s] = a /\ a \in Under(s) => Under(s) = {a} /\ InForce(s) = task[a].secret

QuietInv == \A s \in {"db", "psk"} : kept[s] # "none" => Under(s) = {}

TmpInv == agent = "renaming" => tmp = "whole"

Inv == TypeOK /\ LoneInv /\ QuietInv /\ TmpInv /\ KeptSurvives /\ RingWhole

-----------------------------------------------------------------------------
LEMMA UnderKind ==
  ASSUME NEW s \in {"db", "psk"}
  PROVE  Under(s) = {a \in Slots : task[a] \in Kind(s)}
  BY DEF Under, Kind

\* The places tell the kinds of rotation apart.
LEMMA KindOfPlace ==
  ASSUME NEW t \in Places
  PROVE  /\ t \in DbTask <=> t.at \in {"altered", "stored", "opened"}
         /\ t \in PskTask <=> t.at \in {"set", "noted", "read", "emptied"}
         /\ t = Idle <=> t.at = "idle"
         /\ t \in DbTask => t.secret \in Passwords
         /\ t \in PskTask => t.secret \in Psks
         /\ t.at \in {"read", "emptied"} => t.whole \in BOOLEAN
<1>1. CASE t \in DbTask
  BY <1>1 DEF DbTask, PskTask, Idle
<1>2. CASE t \in PskTask
  BY <1>2 DEF DbTask, PskTask, Idle
<1>3. CASE t = Idle
  BY <1>3 DEF DbTask, PskTask, Idle
<1> QED
  BY <1>1, <1>2, <1>3 DEF Places

LEMMA Becomes ==
  ASSUME TypeOK, NEW a \in Slots, NEW t \in Places, Become(a, t)
  PROVE  /\ task' \in [Slots -> Places]
         /\ task'[a] = t
         /\ \A b \in Slots \ {a} : task'[b] = task[b]
  BY DEF TypeOK, Places, Become

\* What a slot that moves to t does to the rotations under way.
LEMMA BecomesUnder ==
  ASSUME TypeOK, NEW a \in Slots, NEW t \in Places, Become(a, t), NEW s \in {"db", "psk"}
  PROVE  Under(s)' = IF t \in Kind(s) THEN Under(s) \union {a} ELSE Under(s) \ {a}
<1>1. Under(s)' = {b \in Slots : task'[b] \in Kind(s)}
  BY UnderKind, Zenon DEF Under, Kind
<1> QED
  BY <1>1, UnderKind, Becomes

\* The same for types, with all that a rotation leaves alone.
LEMMA RotationTypes ==
  ASSUME TypeOK, NEW a \in Slots, NEW t \in Places, Become(a, t),
         UNCHANGED <<ringVars, agentVars, crashes>>,
         password' \in Passwords, drawn' \subseteq Passwords, secret' \in Passwords,
         urlFile' \in Passwords \union {"torn"},
         psk' \in Psks \union {"none"}, pskFile' \in Psks, conf' \in Psks \union {"torn"},
         sole' \in [{"db", "psk"} -> Slots \union {"nobody"}],
         kept' \in [db : Passwords \union {"none"}, psk : Psks \union {"none"}]
  PROVE  TypeOK'
<1>1. task' \in [Slots -> Places]
  BY Becomes
<1> QED
  BY <1>1 DEF TypeOK, Places, ringVars, agentVars

\* No rotation touches the keyring or the start.
LEMMA RingKept ==
  ASSUME Inv, UNCHANGED <<ringVars, agentVars>>
  PROVE  TmpInv' /\ RingWhole'
  BY DEF Inv, TmpInv, RingWhole, ringVars, agentVars

-----------------------------------------------------------------------------
\* The beginning of a rotation: what it set is in force, and nothing is kept.
LEMMA BeginInv ==
  ASSUME Inv, NEW a \in Slots, NEW s \in {"db", "psk"}, NEW t \in Kind(s), Begin(a, s, t),
         t \in Places, InForce(s)' = t.secret,
         \A r \in {"db", "psk"} \ {s} : InForce(r)' = InForce(r),
         UNCHANGED <<urlFile, conf>>
  PROVE  LoneInv' /\ QuietInv' /\ KeptSurvives'
<1>1. /\ task[a].at = "idle" /\ Become(a, t)
      /\ sole' = [sole EXCEPT ![s] = IF Under(s) = {} THEN a ELSE "nobody"]
      /\ kept' = [kept EXCEPT ![s] = "none"]
  BY DEF Begin, At
<1>2. /\ task'[a] = t
      /\ \A b \in Slots \ {a} : task'[b] = task[b]
  BY <1>1, Becomes DEF Inv
<1>3. task[a] = Idle
  BY <1>1, KindOfPlace DEF Inv, TypeOK, Places
<1>4. \A r \in {"db", "psk"} : a \notin Under(r)
  BY <1>3, UnderKind DEF Kind, DbTask, PskTask, Idle
<1>5. Under(s)' = Under(s) \union {a}
  BY <1>1, BecomesUnder DEF Inv
<1>6. ASSUME NEW r \in {"db", "psk"} \ {s}
      PROVE  Under(r)' = Under(r) /\ sole'[r] = sole[r] /\ kept'[r] = kept[r]
  <2>1. t \notin Kind(r)
    BY KindOfPlace DEF Kind
  <2>2. Under(r)' = Under(r) \ {a}
    BY <1>1, <2>1, BecomesUnder DEF Inv
  <2> QED
    BY <1>1, <1>4, <2>2 DEF Inv, TypeOK
<1>7. /\ sole'[s] = IF Under(s) = {} THEN a ELSE "nobody"
      /\ kept'[s] = "none"
  BY <1>1 DEF Inv, TypeOK
<1>8. LoneInv'
  <2> SUFFICES ASSUME NEW r \in {"db", "psk"}, NEW b \in Slots, sole'[r] = b, b \in Under(r)'
               PROVE  Under(r)' = {b} /\ InForce(r)' = task'[b].secret
    BY DEF LoneInv
  <2>1. CASE r = s
    BY <1>2, <1>5, <1>7, <2>1, SecretsAssumption
  <2>2. CASE r # s
    BY <1>2, <1>4, <1>6, <2>2 DEF Inv, LoneInv
  <2> QED
    BY <2>1, <2>2
<1>9. QuietInv'
  BY <1>6, <1>7 DEF Inv, QuietInv
<1>10. KeptSurvives'
  <2>1. CASE s = "db"
    BY <1>6, <1>7, <2>1 DEF Inv, KeptSurvives, InForce
  <2>2. CASE s = "psk"
    BY <1>6, <1>7, <2>2 DEF Inv, KeptSurvives, InForce
  <2> QED
    BY <2>1, <2>2
<1> QED
  BY <1>8, <1>9, <1>10

LEMMA BeginTypes ==
  ASSUME TypeOK, NEW a \in Slots, NEW s \in {"db", "psk"}, NEW t, Begin(a, s, t)
  PROVE  /\ Become(a, t)
         /\ sole' \in [{"db", "psk"} -> Slots \union {"nobody"}]
         /\ kept' \in [db : Passwords \union {"none"}, psk : Psks \union {"none"}]
  BY DEF Begin, TypeOK

LEMMA AlterUserInv ==
  ASSUME Inv, NEW a \in Slots, NEW p \in Passwords, AlterUser(a, p)
  PROVE  Inv'
<1> DEFINE t == [at |-> "altered", secret |-> p]
<1>1. t \in DbTask /\ t.secret = p
  BY DEF DbTask
<1>2. /\ password' = p /\ drawn' = drawn \union {p} /\ Begin(a, "db", t)
      /\ UNCHANGED <<secret, urlFile, wgVars, ringVars, agentVars, crashes>>
  BY DEF AlterUser
<1> HIDE DEF t
<1>3. t \in Places /\ t \in Kind("db")
  BY <1>1 DEF Places, Kind
<1>4. LoneInv' /\ QuietInv' /\ KeptSurvives'
  BY <1>1, <1>2, <1>3, BeginInv DEF InForce, wgVars
<1>5. TypeOK'
  BY <1>2, <1>3, BeginTypes, RotationTypes DEF Inv, TypeOK, wgVars
<1> QED
  BY <1>2, <1>4, <1>5, RingKept DEF Inv

LEMMA SetPskInv ==
  ASSUME Inv, NEW a \in Slots, NEW k \in Psks, SetPsk(a, k)
  PROVE  Inv'
<1> DEFINE t == [at |-> "set", secret |-> k]
<1>1. t \in PskTask /\ t.secret = k
  BY DEF PskTask
<1>2. /\ psk' = k /\ Begin(a, "psk", t)
      /\ UNCHANGED <<dbVars, pskFile, conf, ringVars, agentVars, crashes>>
  BY DEF SetPsk
<1> HIDE DEF t
<1>3. t \in Places /\ t \in Kind("psk")
  BY <1>1 DEF Places, Kind
<1>4. LoneInv' /\ QuietInv' /\ KeptSurvives'
  BY <1>1, <1>2, <1>3, BeginInv DEF InForce, dbVars
<1>5. TypeOK'
  BY <1>2, <1>3, BeginTypes, RotationTypes DEF Inv, TypeOK, dbVars
<1> QED
  BY <1>2, <1>4, <1>5, RingKept DEF Inv

-----------------------------------------------------------------------------
\* In the middle of a rotation: its copies may change, its secret does not.
LEMMA MiddleInv ==
  ASSUME Inv, NEW a \in Slots, NEW s \in {"db", "psk"}, a \in Under(s),
         NEW t \in Kind(s), t \in Places, t.secret = task[a].secret, Become(a, t),
         UNCHANGED <<password, psk, historyVars>>,
         s = "db" => conf' = conf, s = "psk" => urlFile' = urlFile
  PROVE  LoneInv' /\ QuietInv' /\ KeptSurvives'
<1>1. /\ task'[a] = t
      /\ \A b \in Slots \ {a} : task'[b] = task[b]
  BY Becomes DEF Inv
<1>2. task[a] \in Kind(s) /\ task[a] \in Places
  BY UnderKind DEF Inv, TypeOK, Places
<1>3. ASSUME NEW r \in {"db", "psk"} PROVE Under(r)' = Under(r)
  <2>1. CASE r = s
    <3>1. Under(s)' = Under(s) \union {a}
      BY BecomesUnder DEF Inv
    <3> QED
      BY <2>1, <3>1
  <2>2. CASE r # s
    <3>1. t \notin Kind(r) /\ task[a] \notin Kind(r)
      BY <1>2, <2>2, KindOfPlace DEF Kind
    <3> QED
      BY <3>1, BecomesUnder, UnderKind DEF Inv
  <2> QED
    BY <2>1, <2>2
<1>4. \A b \in Slots : task'[b].secret = task[b].secret
  BY <1>1
<1>5. LoneInv'
  <2> SUFFICES ASSUME NEW r \in {"db", "psk"}, NEW b \in Slots, sole'[r] = b, b \in Under(r)'
               PROVE  Under(r)' = {b} /\ InForce(r)' = task'[b].secret
    BY DEF LoneInv
  <2> QED
    BY <1>3, <1>4 DEF Inv, LoneInv, InForce, historyVars
<1>6. QuietInv'
  BY <1>3 DEF Inv, QuietInv, historyVars
<1>7. kept[s] = "none"
  BY DEF Inv, QuietInv
<1>8. KeptSurvives'
  BY <1>7 DEF Inv, KeptSurvives, historyVars
<1> QED
  BY <1>5, <1>6, <1>8

\* A place a rotation moves to from one where it is.
LEMMA Moves ==
  ASSUME TypeOK, NEW a \in Slots, NEW to,
         \/ /\ task[a].at \in {"altered", "stored"} /\ to \in {"stored", "opened"}
         \/ /\ task[a].at = "set" /\ to = "noted"
         \/ /\ task[a].at = "read" /\ to = "emptied"
  PROVE  LET t == [task[a] EXCEPT !.at = to]
             s == IF task[a].at \in {"altered", "stored"} THEN "db" ELSE "psk"
         IN  t \in Places /\ t \in Kind(s) /\ t.secret = task[a].secret /\ a \in Under(s)
<1>0. task[a] \in Places
  BY DEF TypeOK, Places
<1>1. CASE task[a].at \in {"altered", "stored"}
  <2>1. task[a] \in DbTask
    BY <1>0, <1>1, KindOfPlace
  <2> QED
    BY <1>1, <2>1 DEF DbTask, Places, Kind, Under
<1>2. CASE task[a].at = "set"
  <2>1. task[a] \in PskTask
    BY <1>0, <1>2, KindOfPlace
  <2>2. task[a] \in [at : {"set", "noted"}, secret : Psks]
    BY <1>2, <2>1 DEF PskTask
  <2> QED
    BY <1>2, <2>1, <2>2 DEF PskTask, Places, Kind, Under
<1>3. CASE task[a].at = "read"
  <2>1. task[a] \in PskTask
    BY <1>0, <1>3, KindOfPlace
  <2>2. task[a] \in [at : {"read", "emptied"}, secret : Psks, whole : BOOLEAN]
    BY <1>3, <2>1 DEF PskTask
  <2> QED
    BY <1>3, <2>1, <2>2 DEF PskTask, Places, Kind, Under
<1> QED
  BY <1>1, <1>2, <1>3

LEMMA StoreOpenInv ==
  ASSUME Inv, NEW a \in Slots, StoreSecret(a) \/ OpenUrlFile(a)
  PROVE  Inv'
<1>1. PICK to \in {"stored", "opened"} : Move(a, to) /\ task[a].at \in {"altered", "stored"}
  BY DEF StoreSecret, OpenUrlFile, At
<1> DEFINE t == [task[a] EXCEPT !.at = to]
<1>2. t \in Places /\ t \in Kind("db") /\ t.secret = task[a].secret /\ a \in Under("db")
  BY <1>1, Moves DEF Inv
<1>3. Become(a, t)
  BY <1>1 DEF Move
<1> HIDE DEF t
<1>4. /\ UNCHANGED <<password, drawn, wgVars, ringVars, agentVars, crashes, historyVars>>
      /\ secret' \in {secret, task[a].secret} /\ urlFile' \in {urlFile, "torn"}
  BY DEF StoreSecret, OpenUrlFile
<1>5. LoneInv' /\ QuietInv' /\ KeptSurvives'
  BY <1>2, <1>3, <1>4, MiddleInv DEF wgVars
<1>6. task[a].secret \in Passwords
  BY <1>2, KindOfPlace DEF Kind
<1>7. TypeOK'
  BY <1>2, <1>3, <1>4, <1>6, RotationTypes DEF Inv, TypeOK, wgVars, historyVars
<1> QED
  BY <1>4, <1>5, <1>7, RingKept DEF Inv

LEMMA NoteEmptyInv ==
  ASSUME Inv, NEW a \in Slots, NotePsk(a) \/ EmptyConf(a)
  PROVE  Inv'
<1>1. PICK to \in {"noted", "emptied"} :
        /\ Move(a, to)
        /\ \/ task[a].at = "set" /\ to = "noted"
           \/ task[a].at = "read" /\ to = "emptied"
  <2>1. CASE NotePsk(a)
    BY <2>1 DEF NotePsk, At
  <2>2. CASE EmptyConf(a)
    BY <2>2 DEF EmptyConf, At
  <2> QED
    BY <2>1, <2>2
<1> DEFINE t == [task[a] EXCEPT !.at = to]
<1>2. t \in Places /\ t \in Kind("psk") /\ t.secret = task[a].secret /\ a \in Under("psk")
  BY <1>1, Moves DEF Inv
<1>3. Become(a, t)
  BY <1>1 DEF Move
<1> HIDE DEF t
<1>4. /\ UNCHANGED <<dbVars, psk, ringVars, agentVars, crashes, historyVars>>
      /\ pskFile' \in {pskFile, task[a].secret} /\ conf' \in {conf, "torn"}
  BY DEF NotePsk, EmptyConf
<1>5. LoneInv' /\ QuietInv' /\ KeptSurvives'
  BY <1>2, <1>3, <1>4, MiddleInv DEF dbVars
<1>6. task[a].secret \in Psks
  BY <1>2, KindOfPlace DEF Kind
<1>7. TypeOK'
  BY <1>2, <1>3, <1>4, <1>6, RotationTypes DEF Inv, TypeOK, dbVars, historyVars
<1> QED
  BY <1>4, <1>5, <1>7, RingKept DEF Inv

LEMMA ReadConfInv ==
  ASSUME Inv, NEW a \in Slots, ReadConf(a)
  PROVE  Inv'
<1>0. task[a] \in Places /\ task[a].at = "noted"
  BY DEF ReadConf, At, Inv, TypeOK, Places
<1>1. task[a] \in PskTask /\ task[a].secret \in Psks
  BY <1>0, KindOfPlace
<1> DEFINE t == [at |-> "read", secret |-> task[a].secret, whole |-> conf # "torn"]
<1>2. t \in PskTask /\ t.secret = task[a].secret
  BY <1>1 DEF PskTask
<1>3. Become(a, t) /\ UNCHANGED <<dbVars, wgVars, ringVars, agentVars, crashes, historyVars>>
  BY DEF ReadConf
<1> HIDE DEF t
<1>4. t \in Places /\ t \in Kind("psk") /\ a \in Under("psk")
  BY <1>1, <1>2 DEF Places, Kind, Under
<1>5. LoneInv' /\ QuietInv' /\ KeptSurvives'
  BY <1>2, <1>3, <1>4, MiddleInv DEF dbVars, wgVars
<1>6. TypeOK'
  BY <1>3, <1>4, RotationTypes DEF Inv, TypeOK, dbVars, wgVars, historyVars
<1> QED
  BY <1>3, <1>5, <1>6, RingKept DEF Inv

-----------------------------------------------------------------------------
\* The end of a rotation of s, which keeps what it says it has set.
LEMMA EndInv ==
  ASSUME Inv, NEW a \in Slots, NEW s \in {"db", "psk"}, a \in Under(s), NEW sound \in BOOLEAN,
         Succeed(a, s, sound), UNCHANGED <<password, psk>>,
         s = "db" => sound /\ urlFile' = task[a].secret /\ conf' = conf,
         s = "psk" => (sound => conf' = task[a].secret) /\ urlFile' = urlFile
  PROVE  /\ Become(a, Idle)
         /\ kept' \in [db : Passwords \union {"none"}, psk : Psks \union {"none"}]
         /\ sole' = sole
         /\ LoneInv' /\ QuietInv' /\ KeptSurvives'
<1>0. Idle \in Places /\ Idle \notin Kind("db") /\ Idle \notin Kind("psk")
  BY DEF Idle, Places, Kind, DbTask, PskTask
<1>1. /\ Become(a, Idle) /\ sole' = sole
      /\ kept' = [kept EXCEPT ![s] = IF sole[s] = a /\ sound THEN task[a].secret ELSE "none"]
  BY DEF Succeed
<1>2. task'[a] = Idle /\ \A b \in Slots \ {a} : task'[b] = task[b]
  BY <1>0, <1>1, Becomes DEF Inv
<1>3. \A r \in {"db", "psk"} : Under(r)' = Under(r) \ {a}
  BY <1>0, <1>1, BecomesUnder DEF Inv
<1>4. task[a] \in Kind(s) /\ task[a] \in Places
  BY UnderKind DEF Inv, TypeOK, Places
<1>5. task[a].secret \in IF s = "db" THEN Passwords ELSE Psks
  BY <1>4, KindOfPlace DEF Kind
<1>6. kept' \in [db : Passwords \union {"none"}, psk : Psks \union {"none"}]
  BY <1>1, <1>5 DEF Inv, TypeOK
<1>7. /\ kept'[s] = IF sole[s] = a /\ sound THEN task[a].secret ELSE "none"
      /\ \A r \in {"db", "psk"} \ {s} : kept'[r] = kept[r]
  BY <1>1 DEF Inv, TypeOK
<1>8. sole[s] = a => Under(s) = {a} /\ InForce(s) = task[a].secret
  BY DEF Inv, LoneInv
<1>9. LoneInv'
  <2> SUFFICES ASSUME NEW r \in {"db", "psk"}, NEW b \in Slots, sole'[r] = b, b \in Under(r)'
               PROVE  Under(r)' = {b} /\ InForce(r)' = task'[b].secret
    BY DEF LoneInv
  <2> QED
    BY <1>1, <1>2, <1>3 DEF Inv, LoneInv, InForce
<1>10. QuietInv'
  <2> SUFFICES ASSUME NEW r \in {"db", "psk"}, kept'[r] # "none" PROVE Under(r)' = {}
    BY DEF QuietInv
  <2>1. CASE r = s
    BY <1>3, <1>7, <1>8, <2>1
  <2>2. CASE r # s
    BY <1>3, <1>7, <2>2 DEF Inv, QuietInv
  <2> QED
    BY <2>1, <2>2
<1>11. KeptSurvives'
  <2>1. CASE s = "db"
    BY <1>7, <1>8, <2>1 DEF Inv, KeptSurvives, InForce
  <2>2. CASE s = "psk"
    BY <1>7, <1>8, <2>2 DEF Inv, KeptSurvives, InForce
  <2> QED
    BY <2>1, <2>2
<1> QED
  BY <1>1, <1>6, <1>9, <1>10, <1>11

LEMMA FillUrlFileInv ==
  ASSUME Inv, NEW a \in Slots, FillUrlFile(a)
  PROVE  Inv'
<1>0. task[a] \in Places /\ task[a].at = "opened" /\ Idle \in Places
  BY DEF FillUrlFile, At, Inv, TypeOK, Places
<1>1. task[a] \in DbTask /\ task[a].secret \in Passwords /\ a \in Under("db")
  BY <1>0, KindOfPlace DEF Under
<1>2. /\ urlFile' = task[a].secret /\ Succeed(a, "db", TRUE)
      /\ UNCHANGED <<password, drawn, secret, wgVars, ringVars, agentVars, crashes>>
  BY DEF FillUrlFile
<1>3. /\ Become(a, Idle) /\ sole' = sole
      /\ kept' \in [db : Passwords \union {"none"}, psk : Psks \union {"none"}]
      /\ LoneInv' /\ QuietInv' /\ KeptSurvives'
  BY <1>1, <1>2, EndInv DEF wgVars
<1>4. TypeOK'
  BY <1>0, <1>1, <1>2, <1>3, RotationTypes DEF Inv, TypeOK, wgVars
<1> QED
  BY <1>2, <1>3, <1>4, RingKept DEF Inv

LEMMA FillConfInv ==
  ASSUME Inv, NEW a \in Slots, FillConf(a)
  PROVE  Inv'
<1>0. task[a] \in Places /\ task[a].at = "emptied" /\ Idle \in Places
  BY DEF FillConf, At, Inv, TypeOK, Places
<1>1. /\ task[a] \in PskTask /\ task[a].secret \in Psks /\ a \in Under("psk")
      /\ task[a].whole \in BOOLEAN
  BY <1>0, KindOfPlace DEF Under
<1>2. /\ conf' = IF task[a].whole THEN task[a].secret ELSE conf
      /\ Succeed(a, "psk", task[a].whole)
      /\ UNCHANGED <<dbVars, psk, pskFile, ringVars, agentVars, crashes>>
  BY DEF FillConf
<1>3. /\ Become(a, Idle) /\ sole' = sole
      /\ kept' \in [db : Passwords \union {"none"}, psk : Psks \union {"none"}]
      /\ LoneInv' /\ QuietInv' /\ KeptSurvives'
  BY <1>1, <1>2, EndInv DEF dbVars
<1>4. conf' \in Psks \union {"torn"}
  BY <1>1, <1>2 DEF Inv, TypeOK
<1>5. TypeOK'
  BY <1>0, <1>2, <1>3, <1>4, RotationTypes DEF Inv, TypeOK, dbVars
<1> QED
  BY <1>2, <1>3, <1>5, RingKept DEF Inv

-----------------------------------------------------------------------------
\* Rotations end without having kept anything; the secrets stay.
LEMMA Abandoned ==
  ASSUME Inv, UNCHANGED <<urlFile, conf, historyVars>>,
         \A a \in Slots : task'[a] \in {task[a], Idle},
         password' = password,
         psk' = psk \/ \A a \in Slots : task'[a] = Idle,
         kept.psk # "none" => psk' = psk
  PROVE  LoneInv' /\ QuietInv' /\ KeptSurvives'
<1>0. Idle \notin Kind("db") /\ Idle \notin Kind("psk")
  BY DEF Idle, Kind, DbTask, PskTask
<1>1. ASSUME NEW r \in {"db", "psk"}, NEW a \in Under(r)'
      PROVE  a \in Slots /\ a \in Under(r) /\ task'[a] = task[a]
  <2>1. a \in Slots /\ task'[a] \in Kind(r)
    BY <1>1 DEF Under, Kind
  <2> QED
    BY <1>0, <2>1, UnderKind
<1>2. LoneInv'
  <2> SUFFICES ASSUME NEW r \in {"db", "psk"}, NEW b \in Slots, sole'[r] = b, b \in Under(r)'
               PROVE  Under(r)' = {b} /\ InForce(r)' = task'[b].secret
    BY DEF LoneInv
  <2>1. b \in Under(r) /\ task'[b] = task[b] /\ Under(r)' \subseteq Under(r)
    BY <1>1
  <2>2. Under(r) = {b} /\ InForce(r) = task[b].secret
    BY <2>1 DEF Inv, LoneInv, historyVars
  <2>3. psk' = psk
    BY <1>0, UnderKind DEF Under, Kind
  <2> QED
    BY <2>1, <2>2, <2>3 DEF InForce
<1>3. QuietInv'
  BY <1>1 DEF Inv, QuietInv, historyVars
<1>4. KeptSurvives'
  BY DEF Inv, KeptSurvives, historyVars
<1> QED
  BY <1>2, <1>3, <1>4

LEMMA GivesUpInv ==
  ASSUME Inv, NEW a \in Slots, GivesUp(a)
  PROVE  Inv'
<1>1. /\ Become(a, Idle) /\ Idle \in Places
      /\ UNCHANGED <<dbVars, wgVars, ringVars, agentVars, crashes, historyVars>>
  BY DEF GivesUp, Places
<1>2. \A b \in Slots : task'[b] \in {task[b], Idle}
  BY <1>1, Becomes DEF Inv
<1>3. LoneInv' /\ QuietInv' /\ KeptSurvives'
  BY <1>1, <1>2, Abandoned DEF dbVars, wgVars
<1>4. TypeOK'
  BY <1>1, RotationTypes DEF Inv, TypeOK, dbVars, wgVars, historyVars
<1> QED
  BY <1>1, <1>3, <1>4, RingKept DEF Inv

LEMMA CrashInv ==
  ASSUME Inv, NEW rebooted \in BOOLEAN, Crash(rebooted)
  PROVE  Inv'
<1>1. /\ task' = [a \in Slots |-> Idle] /\ agent' = "down" /\ connected' = FALSE
      /\ psk' = IF ~rebooted THEN psk ELSE IF conf = "torn" THEN "none" ELSE conf
      /\ UNCHANGED <<dbVars, pskFile, conf, ringVars, url, historyVars>>
  BY DEF Crash
<1>2. crashes' \in 0 .. MaxCrashes
  BY SecretsAssumption DEF Crash, Inv, TypeOK
<1>3. psk' \in Psks \union {"none"}
  BY <1>1 DEF Inv, TypeOK
<1>4. TypeOK'
  BY <1>1, <1>2, <1>3 DEF Inv, TypeOK, dbVars, ringVars, historyVars
<1>5. kept.psk # "none" => psk' = psk
  BY <1>1, SecretsAssumption DEF Inv, TypeOK, KeptSurvives
<1>6. LoneInv' /\ QuietInv' /\ KeptSurvives'
  BY <1>1, <1>5, Abandoned DEF dbVars
<1>7. TmpInv' /\ RingWhole'
  BY <1>1 DEF Inv, TmpInv, RingWhole, ringVars
<1> QED
  BY <1>4, <1>6, <1>7 DEF Inv

-----------------------------------------------------------------------------
\* The start and the pool touch neither the secrets nor their copies.
LEMMA StartInv ==
  ASSUME Inv, StartStep \/ Expire \/ Reconnect
  PROVE  Inv'
<1>1. UNCHANGED <<dbVars, wgVars, task, crashes, historyVars>>
  BY DEF StartStep, LoadConfig, CreateTmp, FillTmp, RenameTmp, Connect, StartFails,
         Expire, Reconnect, Advance
<1>2. LoneInv' /\ QuietInv' /\ KeptSurvives'
  BY <1>1 DEF Inv, LoneInv, QuietInv, KeptSurvives, Under, InForce, dbVars, wgVars, historyVars
<1>3. /\ agent' \in {"down", "seeding", "filling", "renaming", "connecting", "serving"}
      /\ url' \in Passwords \union {"torn"} /\ connected' \in BOOLEAN
      /\ keyring' \in {"absent", "empty", "whole"} /\ tmp' \in {"absent", "empty", "whole"}
  BY DEF Inv, TypeOK, StartStep, LoadConfig, CreateTmp, FillTmp, RenameTmp, Connect,
         StartFails, Expire, Reconnect, Advance, ringVars
<1>4. TypeOK'
  BY <1>1, <1>3 DEF Inv, TypeOK, dbVars, wgVars, historyVars
<1>5. TmpInv' /\ RingWhole'
  BY DEF Inv, TmpInv, RingWhole, StartStep, LoadConfig, CreateTmp, FillTmp, RenameTmp,
         Connect, StartFails, Expire, Reconnect, Advance, ringVars
<1> QED
  BY <1>2, <1>4, <1>5 DEF Inv

LEMMA NextInv == Inv /\ [Next]_vars => Inv'
<1> SUFFICES ASSUME Inv, [Next]_vars PROVE Inv'
  OBVIOUS
<1>1. ASSUME NEW a \in Slots, RotationStep(a) PROVE Inv'
  BY <1>1, AlterUserInv, SetPskInv, StoreOpenInv, NoteEmptyInv, ReadConfInv, FillUrlFileInv,
     FillConfInv, GivesUpInv
  DEF RotationStep
<1>2. CASE UNCHANGED vars
  BY <1>2 DEF vars, dbVars, wgVars, ringVars, agentVars, historyVars, Inv, TypeOK, LoneInv,
              QuietInv, TmpInv, KeptSurvives, RingWhole, Under, InForce
<1> QED
  BY <1>1, <1>2, StartInv, CrashInv DEF Next

LEMMA InitInv == Init => Inv
<1> SUFFICES ASSUME Init PROVE Inv
  OBVIOUS
<1>1. TypeOK
  <2>1. /\ sole \in [{"db", "psk"} -> Slots \union {"nobody"}]
        /\ kept \in [db : Passwords \union {"none"}, psk : Psks \union {"none"}]
    BY SecretsAssumption DEF Init
  <2>2. task \in [Slots -> DbTask \union PskTask \union {Idle}] /\ crashes \in 0 .. MaxCrashes
    BY SecretsAssumption DEF Init
  <2> QED
    BY <2>1, <2>2, SecretsAssumption DEF Init, TypeOK
<1>2. \A s \in {"db", "psk"} : Under(s) = {}
  BY DEF Init, Under, Idle, DbTask, PskTask
<1> QED
  BY <1>1, <1>2 DEF Init, Inv, LoneInv, QuietInv, TmpInv, KeptSurvives, RingWhole

LEMMA Invariance == Spec => []Inv
  BY InitInv, NextInv, PTL DEF Spec

(***************************************************************************)
(* The secrets, their copies, the keyring and the rotations have their     *)
(* types; no tunnel comes up with half a key.                              *)
(***************************************************************************)
THEOREM TypeCorrect == Spec => []TypeOK
<1>1. Inv => TypeOK
  BY DEF Inv
<1> QED
  BY <1>1, Invariance, PTL

(***************************************************************************)
(* What a rotation of the password (system.rs) or of the PSK               *)
(* (wireguard.rs) kept, alone and to its end, is in force and in the file  *)
(* the next start reads, until that secret is rotated again.               *)
(***************************************************************************)
THEOREM KeptIsRead == Spec => []KeptSurvives
<1>1. Inv => KeptSurvives
  BY DEF Inv
<1> QED
  BY <1>1, Invariance, PTL

(***************************************************************************)
(* The keyring (seed_keyring_from_legacy of config.rs) is whole or absent, *)
(* wherever the seeding was interrupted and however often.                 *)
(***************************************************************************)
THEOREM RingIsWhole == Spec => []RingWhole
<1>1. Inv => RingWhole
  BY DEF Inv
<1> QED
  BY <1>1, Invariance, PTL
=============================================================================
