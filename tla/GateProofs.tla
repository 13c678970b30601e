----------------------------- MODULE GateProofs -----------------------------
(***************************************************************************)
(* The two gates in front of every handler: the authentication of a        *)
(* command, and the lockdown of the agent.                                 *)
(*                                                                         *)
(* Authentication: commands are applied at most once, for every number of  *)
(* commands, nonces and concurrent requests and every skew, retention and  *)
(* stall with 2 * Skew + MaxStall <= Retention.  A nonce stays in the      *)
(* table for the retention after it was consumed (Remembered).  A request  *)
(* that is about to insert passed its freshness check at most MaxStall ago *)
(* (InTime), so it inserts at most Skew + MaxStall after the command's     *)
(* timestamp.  An earlier copy consumed the nonce at Skew before the       *)
(* timestamp or later.  If the row were gone, more than the retention      *)
(* would lie between the two, which RetentionAssumption rules out.         *)
(*                                                                         *)
(* Lockdown, in every order of its four tasks and of any number of         *)
(* concurrent acknowledgements: LockdownHasReason is inductive with the    *)
(* type invariant, for only set_lockdown raises the flag, it then counts   *)
(* as about to record its reason, and the one step that forgets a reason   *)
(* lowers the flag too.  StickyStays is a fact about single steps: while   *)
(* the flag is up the heartbeat watchdog cannot pass its test, so only     *)
(* tasks with a sticky reason can overwrite a sticky reason, and no clear  *)
(* applies.                                                                *)
(***************************************************************************)
EXTENDS CommandAuth, Lockdown, SequenceTheorems, TLAPS

-----------------------------------------------------------------------------
(***************************************************************************)
(* Authentication.                                                         *)
(***************************************************************************)
\* A consumed nonce has a row at least as young as the consumption, or the
\* consumption is older than the retention.
Remembered ==
  \A n \in Nonces :
    \A i \in 1 .. Len(consumed[n]) :
      \/ \E row \in usedNonces :
           row.nonce = n /\ row.createdAt >= consumed[n][i].at
      \/ consumed[n][i].at + Retention < now

\* A request between its freshness check and its insert is on time.
InTime ==
  \A r \in inFlight :
    Verifying(r) =>
      /\ r.checkedAt <= now
      /\ now <= r.checkedAt + MaxStall
      /\ r.cmd \notin Acks => r.checkedAt - Timestamp[r.cmd] \in -Skew .. Skew

HasConsumed(c) ==
  \E i \in 1 .. Len(consumed[NonceOf[c]]) : consumed[NonceOf[c]][i].cmd = c

Pending(c) == {r \in inFlight : r.cmd = c /\ r.stage = "verified"}

\* A command is applied or about to be, by one request, only after a copy of
\* it has consumed the nonce, and never both.
OnceEach ==
  \A c \in Commands \ Acks :
    /\ applied[c] <= 1
    /\ applied[c] # 0 => HasConsumed(c) /\ Pending(c) = {}
    /\ Pending(c) # {} => HasConsumed(c)
    /\ \A r1, r2 \in Pending(c) : r1 = r2

Inv ==
  /\ TypeOK
  /\ Remembered
  /\ InTime
  /\ ConsumptionsSpaced
  /\ ConsumedWhileFresh
  /\ OnceEach

-----------------------------------------------------------------------------
\* What Init establishes.
LEMMA InitInv == Init => Inv
<1> SUFFICES ASSUME Init PROVE Inv
  OBVIOUS
<1>1. TypeOK
  BY TimeAssumption, EmptySeq DEF Init, TypeOK, Time
<1>2. Remembered /\ ConsumptionsSpaced /\ ConsumedWhileFresh
  BY DEF Init, Remembered, ConsumptionsSpaced, ConsumedWhileFresh
<1>3. InTime /\ OnceEach
  BY DEF Init, InTime, OnceEach, Pending
<1> QED
  BY <1>1, <1>2, <1>3 DEF Inv

\* What appending to one nonce's history does to all of them.
LEMMA AppendHistory ==
  ASSUME TypeOK, NEW n \in Nonces, NEW e \in Consumption,
         consumed' = [consumed EXCEPT ![n] = Append(@, e)]
  PROVE  /\ consumed' \in [Nonces -> Seq(Consumption)]
         /\ Len(consumed[n]) \in Nat
         /\ Len(consumed'[n]) = Len(consumed[n]) + 1
         /\ consumed'[n][Len(consumed[n]) + 1] = e
         /\ \A i \in 1 .. Len(consumed[n]) : consumed'[n][i] = consumed[n][i]
         /\ \A m \in Nonces \ {n} : consumed'[m] = consumed[m]
<1>1. consumed[n] \in Seq(Consumption)
  BY DEF TypeOK
<1>2. consumed'[n] = Append(consumed[n], e)
  BY DEF TypeOK
<1>3. Append(consumed[n], e) \in Seq(Consumption)
  BY <1>1, AppendProperties
<1>4. Len(consumed[n]) \in Nat
  BY <1>1, LenProperties
<1>5. Len(consumed'[n]) = Len(consumed[n]) + 1
  BY <1>1, <1>2, AppendProperties
<1>6. consumed'[n][Len(consumed[n]) + 1] = e
  BY <1>1, <1>2, AppendProperties
<1>7. \A i \in 1 .. Len(consumed[n]) : consumed'[n][i] = consumed[n][i]
  BY <1>1, <1>2, AppendProperties
<1>8. consumed' \in [Nonces -> Seq(Consumption)]
  BY <1>2, <1>3 DEF TypeOK
<1> QED
  BY <1>4, <1>5, <1>6, <1>7, <1>8 DEF TypeOK

\* Removing the expired rows forgets no consumption within the retention.
LEMMA PurgeKeepsRemembered ==
  ASSUME TypeOK, Remembered, usedNonces' = Unexpired, UNCHANGED <<now, consumed>>
  PROVE  Remembered'
<1> SUFFICES ASSUME NEW n \in Nonces, NEW i \in 1 .. Len(consumed[n])
             PROVE  \/ \E row \in usedNonces' :
                         row.nonce = n /\ row.createdAt >= consumed[n][i].at
                    \/ consumed[n][i].at + Retention < now
  BY DEF Remembered
<1>1. consumed[n][i] \in Consumption
  BY ElementOfSeq, LenProperties DEF TypeOK
<1>2. CASE consumed[n][i].at + Retention < now
  BY <1>2
<1>3. ASSUME NEW row \in usedNonces,
             row.nonce = n, row.createdAt >= consumed[n][i].at
      PROVE  \/ row \in usedNonces'
             \/ consumed[n][i].at + Retention < now
  <2>1. CASE Expired(row)
    BY <1>1, <1>3, <2>1, TimeAssumption
       DEF TypeOK, Row, Time, Consumption, Expired
  <2>2. CASE ~Expired(row)
    BY <2>2 DEF Unexpired
  <2> QED
    BY <2>1, <2>2
<1> QED
  BY <1>2, <1>3 DEF Remembered

\* The heart of the argument: a command under the timestamp check that is
\* about to consume its nonce has not consumed it before.
LEMMA FirstConsumption ==
  ASSUME Inv, NEW r \in inFlight, r.stage = "purged", r.cmd \notin Acks,
         ~KnownNonce(NonceOf[r.cmd])
  PROVE  ~HasConsumed(r.cmd)
<1> DEFINE n == NonceOf[r.cmd]
           ts == Timestamp[r.cmd]
<1> SUFFICES ASSUME NEW i \in 1 .. Len(consumed[n]), consumed[n][i].cmd = r.cmd
             PROVE  FALSE
  BY DEF HasConsumed
<1>1. r.cmd \in Commands /\ r.checkedAt \in Int /\ now \in Int
  BY DEF Inv, TypeOK, Request, Time
<1>2. n \in Nonces /\ ts \in Int
  BY <1>1, CommandAssumption
<1>3. consumed[n][i] \in Consumption
  BY <1>2, ElementOfSeq, LenProperties DEF Inv, TypeOK
<1>4. consumed[n][i].at \in Int
  BY <1>3 DEF Consumption, Time
<1>5. consumed[n][i].at - ts >= -Skew
  BY <1>1, <1>2, <1>4, TimeAssumption DEF Inv, ConsumedWhileFresh
<1>6. consumed[n][i].at + Retention < now
  BY <1>2 DEF Inv, Remembered, KnownNonce
<1>7. now <= r.checkedAt + MaxStall /\ r.checkedAt - ts <= Skew
  BY <1>1, <1>2, TimeAssumption DEF Inv, InTime, Verifying
<1> DEFINE at == consumed[n][i].at
<1> HIDE DEF n, ts, at
<1>8. /\ at \in Int /\ now \in Int /\ ts \in Int /\ r.checkedAt \in Int
      /\ at - ts >= -Skew
      /\ at + Retention < now
      /\ now <= r.checkedAt + MaxStall
      /\ r.checkedAt - ts <= Skew
  BY <1>1, <1>2, <1>4, <1>5, <1>6, <1>7 DEF at
<1> QED
  BY <1>8, TimeAssumption, RetentionAssumption

-----------------------------------------------------------------------------
\* The steps that leave usedNonces and the histories alone.

LEMMA CheckEnvelopeInv ==
  ASSUME Inv, NEW id \in Requests, NEW c \in Commands, CheckEnvelope(id, c)
  PROVE  Inv'
<1> USE DEF CheckEnvelope
<1> DEFINE new == [id |-> id, cmd |-> c, stage |-> "checked", checkedAt |-> now]
<1>1. new \in Request
  BY DEF Inv, TypeOK, Request, Stage
<1>2. TypeOK'
  BY <1>1 DEF Inv, TypeOK
<1>3. Remembered' /\ ConsumptionsSpaced' /\ ConsumedWhileFresh'
  BY DEF Inv, Remembered, ConsumptionsSpaced, ConsumedWhileFresh
<1>4. InTime'
  BY TimeAssumption DEF Inv, InTime, Verifying, Fresh, TypeOK, Time
<1>5. \A d : Pending(d)' = Pending(d)
  BY DEF Pending
<1>6. OnceEach'
  BY <1>5 DEF Inv, OnceEach, HasConsumed
<1> QED
  BY <1>2, <1>3, <1>4, <1>6 DEF Inv

\* A request that ends without having been dispatched.
LEMMA DropInv ==
  ASSUME Inv, NEW r \in inFlight, Drop(r),
         UNCHANGED <<now, usedNonces, consumed, applied>>
  PROVE  Inv'
<1>1. TypeOK'
  BY DEF Inv, TypeOK, Drop
<1>2. Remembered' /\ ConsumptionsSpaced' /\ ConsumedWhileFresh'
  BY DEF Inv, Remembered, ConsumptionsSpaced, ConsumedWhileFresh
<1>3. InTime'
  BY DEF Inv, InTime, Verifying, Drop
<1>4. \A c : Pending(c)' \subseteq Pending(c)
  BY DEF Pending, Drop
<1>5. OnceEach'
  BY <1>4 DEF Inv, OnceEach, HasConsumed
<1> QED
  BY <1>1, <1>2, <1>3, <1>5 DEF Inv

LEMMA DispatchInv ==
  ASSUME Inv, NEW r \in inFlight, Dispatch(r)
  PROVE  Inv'
<1> USE DEF Dispatch
<1>0. r.cmd \in Commands
  BY DEF Inv, TypeOK, Request
<1>1. TypeOK'
  BY <1>0 DEF Inv, TypeOK, Drop
<1>2. Remembered' /\ ConsumptionsSpaced' /\ ConsumedWhileFresh'
  BY DEF Inv, Remembered, ConsumptionsSpaced, ConsumedWhileFresh
<1>3. InTime'
  BY DEF Inv, InTime, Verifying, Drop
<1>4. ASSUME NEW c \in Commands \ Acks
      PROVE  /\ applied'[c] <= 1
             /\ applied'[c] # 0 => HasConsumed(c)' /\ Pending(c)' = {}
             /\ Pending(c)' # {} => HasConsumed(c)'
             /\ \A r1, r2 \in Pending(c)' : r1 = r2
  <2>1. Pending(c)' = Pending(c) \ {r}
    BY DEF Pending, Drop
  <2>2. HasConsumed(c)' = HasConsumed(c)
    BY DEF HasConsumed
  <2>3. CASE c = r.cmd
    <3>1. r \in Pending(c)
      BY <2>3 DEF Pending
    <3>2. applied[c] = 0 /\ HasConsumed(c) /\ Pending(c) = {r}
      BY <3>1 DEF Inv, OnceEach
    <3>3. applied'[c] = 1
      BY <2>3, <3>2 DEF Inv, TypeOK
    <3> QED
      BY <2>1, <2>2, <3>2, <3>3
  <2>4. CASE c # r.cmd
    <3>1. applied'[c] = applied[c] /\ Pending(c)' = Pending(c)
      BY <2>1, <2>4 DEF Inv, TypeOK, Pending
    <3> QED
      BY <2>2, <3>1 DEF Inv, OnceEach
  <2> QED
    BY <2>3, <2>4
<1>5. OnceEach'
  BY <1>4 DEF OnceEach
<1> QED
  BY <1>1, <1>2, <1>3, <1>5 DEF Inv

LEMMA TickInv ==
  ASSUME Inv, Tick
  PROVE  Inv'
<1> USE DEF Tick
<1>1. TypeOK'
  BY TimeAssumption DEF Inv, TypeOK, Time
<1>2. ConsumptionsSpaced' /\ ConsumedWhileFresh'
  BY DEF Inv, ConsumptionsSpaced, ConsumedWhileFresh
<1>3. Remembered'
  <2> SUFFICES ASSUME NEW n \in Nonces, NEW i \in 1 .. Len(consumed[n])
               PROVE  \/ \E row \in usedNonces :
                           row.nonce = n /\ row.createdAt >= consumed[n][i].at
                      \/ consumed[n][i].at + Retention < now'
    BY DEF Remembered
  <2>1. consumed[n][i] \in Consumption
    BY ElementOfSeq, LenProperties DEF Inv, TypeOK
  <2>2. consumed[n][i].at + Retention \in Int /\ now \in Int
    BY <2>1, TimeAssumption DEF Consumption, Inv, TypeOK, Time
  <2> QED
    BY <2>2 DEF Inv, Remembered
<1>4. InTime'
  BY TimeAssumption DEF Inv, TypeOK, InTime, Verifying, Request, Time
<1>5. \A c : Pending(c)' = Pending(c)
  BY DEF Pending
<1>6. OnceEach'
  BY <1>5 DEF Inv, OnceEach, HasConsumed
<1> QED
  BY <1>1, <1>2, <1>3, <1>4, <1>6 DEF Inv

LEMMA CleanupInv ==
  ASSUME Inv, Cleanup
  PROVE  Inv'
<1> USE DEF Cleanup
<1>1. TypeOK'
  BY DEF Inv, TypeOK, Unexpired
<1>2. ConsumptionsSpaced' /\ ConsumedWhileFresh'
  BY DEF Inv, ConsumptionsSpaced, ConsumedWhileFresh
<1>3. Remembered'
  BY PurgeKeepsRemembered DEF Inv
<1>4. InTime'
  BY DEF Inv, InTime, Verifying
<1>5. \A c : Pending(c)' = Pending(c)
  BY DEF Pending
<1>6. OnceEach'
  BY <1>5 DEF Inv, OnceEach, HasConsumed
<1> QED
  BY <1>1, <1>2, <1>3, <1>4, <1>6 DEF Inv

LEMMA RestartInv ==
  ASSUME Inv, Restart
  PROVE  Inv'
<1> USE DEF Restart
<1>1. TypeOK' /\ InTime'
  BY DEF Inv, TypeOK, InTime
<1>2. Remembered' /\ ConsumptionsSpaced' /\ ConsumedWhileFresh'
  BY DEF Inv, Remembered, ConsumptionsSpaced, ConsumedWhileFresh
<1>3. \A c : Pending(c)' = {}
  BY DEF Pending
<1>4. OnceEach'
  BY <1>3 DEF Inv, OnceEach, HasConsumed
<1> QED
  BY <1>1, <1>2, <1>4 DEF Inv

-----------------------------------------------------------------------------
\* The steps that change the table.

LEMMA PurgeInv ==
  ASSUME Inv, NEW r \in inFlight, Purge(r)
  PROVE  Inv'
<1> USE DEF Purge
<1> DEFINE new == [r EXCEPT !.stage = "purged"]
<1>0. new \in Request /\ new.cmd = r.cmd /\ new.checkedAt = r.checkedAt
      /\ new.stage = "purged" /\ Verifying(r)
  BY DEF Inv, TypeOK, Request, Stage, Verifying
<1>1. inFlight' = (inFlight \ {r}) \union {new}
  BY DEF Replace
<1> HIDE DEF new
<1>2. TypeOK'
  BY <1>0, <1>1 DEF Inv, TypeOK, Unexpired
<1>3. ConsumptionsSpaced' /\ ConsumedWhileFresh'
  BY DEF Inv, ConsumptionsSpaced, ConsumedWhileFresh
<1>4. Remembered'
  BY PurgeKeepsRemembered DEF Inv
<1>5. InTime'
  BY <1>0, <1>1 DEF Inv, InTime, Verifying
<1>6. \A c : Pending(c)' = Pending(c)
  BY <1>0, <1>1 DEF Pending
<1>7. OnceEach'
  BY <1>6 DEF Inv, OnceEach, HasConsumed
<1> QED
  BY <1>2, <1>3, <1>4, <1>5, <1>7 DEF Inv

\* A check that was in time, and at most a stall ago, is still nearly in time.
LEMMA StalledCheck ==
  ASSUME NEW t \in Int, NEW checked \in Int, NEW later \in Int,
         checked <= later, later <= checked + MaxStall, checked - t \in -Skew .. Skew
  PROVE  later - t \in -Skew .. Skew + MaxStall
  BY TimeAssumption

\* Everything an insert does to the table and the histories; the two outcomes
\* of the insert differ only in what becomes of the request.
LEMMA ConsumeInv ==
  ASSUME Inv, NEW r \in inFlight, Consume(r)
  PROVE  /\ usedNonces' \subseteq Row
         /\ consumed' \in [Nonces -> Seq(Consumption)]
         /\ Remembered'
         /\ ConsumptionsSpaced'
         /\ ConsumedWhileFresh'
         /\ \A c \in Commands : HasConsumed(c) => HasConsumed(c)'
         /\ HasConsumed(r.cmd)'
         /\ r.cmd \notin Acks => ~HasConsumed(r.cmd)
<1> USE DEF Consume
<1> DEFINE n == NonceOf[r.cmd]
           e == [cmd |-> r.cmd, at |-> now]
           len == Len(consumed[n])
<1>1. /\ r.cmd \in Commands /\ n \in Nonces /\ now \in Time
      /\ now \in Int /\ Timestamp[r.cmd] \in Int
      /\ r.checkedAt \in Int /\ r.stage = "purged"
  BY CommandAssumption DEF Inv, TypeOK, Request, Time
<1>2. e \in Consumption /\ e.cmd = r.cmd /\ e.at = now
  BY <1>1 DEF Consumption
<1>3. /\ ~KnownNonce(n)
      /\ usedNonces' = usedNonces \union {[nonce |-> n, createdAt |-> now]}
      /\ consumed' = [consumed EXCEPT ![n] = Append(@, e)]
      /\ now' = now
  OBVIOUS
<1>4. usedNonces' \subseteq Row
  BY <1>1 DEF Inv, TypeOK, Row
<1> HIDE DEF n, e
<1>5. /\ consumed' \in [Nonces -> Seq(Consumption)]
      /\ len \in Nat
      /\ Len(consumed'[n]) = len + 1
      /\ consumed'[n][len + 1] = e
      /\ \A i \in 1 .. len : consumed'[n][i] = consumed[n][i]
      /\ \A m \in Nonces \ {n} : consumed'[m] = consumed[m]
  BY <1>1, <1>2, <1>3, AppendHistory DEF Inv
<1>6. \A i \in 1 .. len : consumed[n][i].at + Retention < now
  BY <1>1, <1>3 DEF Inv, Remembered, KnownNonce
<1>7. \A i \in 1 .. len : consumed[n][i].at \in Int
  <2> SUFFICES ASSUME NEW i \in 1 .. len PROVE consumed[n][i].at \in Int
    OBVIOUS
  <2>1. consumed[n] \in Seq(Consumption)
    BY <1>1 DEF Inv, TypeOK
  <2>2. consumed[n][i] \in Consumption
    BY <2>1, ElementOfSeq
  <2> QED
    BY <2>2 DEF Consumption, Time
<1> HIDE DEF len
<1>8. Remembered'
  <2> SUFFICES ASSUME NEW m \in Nonces, NEW i \in 1 .. Len(consumed'[m])
               PROVE  \/ \E row \in usedNonces' :
                           row.nonce = m /\ row.createdAt >= consumed'[m][i].at
                      \/ consumed'[m][i].at + Retention < now'
    BY DEF Remembered
  <2>1. CASE m # n
    <3>1. consumed'[m] = consumed[m] /\ usedNonces \subseteq usedNonces'
      BY <1>3, <1>5, <2>1
    <3> QED
      BY <1>3, <3>1 DEF Inv, Remembered
  <2>2. CASE m = n /\ i = len + 1
    <3>1. consumed'[m][i].at = now
      BY <1>2, <1>5, <2>2
    <3>2. [nonce |-> n, createdAt |-> now] \in usedNonces'
      BY <1>3
    <3> QED
      BY <1>1, <2>2, <3>1, <3>2
  <2>3. CASE m = n /\ i # len + 1
    <3>1. i \in 1 .. len
      BY <1>5, <2>3
    <3> QED
      BY <1>3, <1>5, <1>6, <2>3, <3>1
  <2> QED
    BY <2>1, <2>2, <2>3
<1>9. ConsumptionsSpaced'
  <2> SUFFICES ASSUME NEW m \in Nonces, NEW i \in 1 .. Len(consumed'[m]),
                      NEW j \in 1 .. Len(consumed'[m]), i < j
               PROVE  consumed'[m][j].at > consumed'[m][i].at + Retention
    BY DEF ConsumptionsSpaced
  <2>1. CASE m # n
    BY <1>5, <2>1 DEF Inv, ConsumptionsSpaced
  <2>2. CASE m = n /\ j = len + 1
    <3>1. i \in 1 .. len /\ consumed'[m][i] = consumed[n][i]
      BY <1>5, <2>2
    <3>2. consumed'[m][j].at = now
      BY <1>2, <1>5, <2>2
    <3>3. consumed[n][i].at + Retention < now
      BY <1>6, <3>1
    <3>4. consumed[n][i].at \in Int
      BY <1>7, <3>1
    <3> QED
      BY <1>1, <3>1, <3>2, <3>3, <3>4, TimeAssumption
  <2>3. CASE m = n /\ j # len + 1
    <3>1. i \in 1 .. len /\ j \in 1 .. len
      BY <1>5, <2>3
    <3>2. consumed'[m][i] = consumed[n][i] /\ consumed'[m][j] = consumed[n][j]
      BY <1>5, <2>3, <3>1
    <3> QED
      BY <1>1, <3>1, <3>2 DEF len, Inv, ConsumptionsSpaced
  <2> QED
    BY <2>1, <2>2, <2>3
<1>10. ConsumedWhileFresh'
  <2>1. e.cmd \notin Acks => e.at - Timestamp[e.cmd] \in -Skew .. Skew + MaxStall
    <3> SUFFICES ASSUME r.cmd \notin Acks
                 PROVE  now - Timestamp[r.cmd] \in -Skew .. Skew + MaxStall
      BY <1>2
    <3>1. /\ r.checkedAt <= now
          /\ now <= r.checkedAt + MaxStall
          /\ r.checkedAt - Timestamp[r.cmd] \in -Skew .. Skew
      BY <1>1 DEF Inv, InTime, Verifying
    <3> QED
      BY <1>1, <3>1, StalledCheck
  <2> SUFFICES ASSUME NEW m \in Nonces, NEW i \in 1 .. Len(consumed'[m]),
                      consumed'[m][i].cmd \notin Acks
               PROVE  consumed'[m][i].at - Timestamp[consumed'[m][i].cmd]
                        \in -Skew .. Skew + MaxStall
    BY DEF ConsumedWhileFresh
  <2>2. CASE m = n /\ i = len + 1
    BY <1>5, <2>1, <2>2
  <2>3. CASE m = n /\ i # len + 1
    <3>1. i \in 1 .. len /\ consumed'[m][i] = consumed[n][i]
      BY <1>5, <2>3
    <3> QED
      BY <1>1, <3>1 DEF len, Inv, ConsumedWhileFresh
  <2>4. CASE m # n
    BY <1>5, <2>4 DEF Inv, ConsumedWhileFresh
  <2> QED
    BY <2>2, <2>3, <2>4
<1>11. \A c \in Commands : HasConsumed(c) => HasConsumed(c)'
  <2> SUFFICES ASSUME NEW c \in Commands, HasConsumed(c)
               PROVE  HasConsumed(c)'
    OBVIOUS
  <2>1. PICK i \in 1 .. Len(consumed[NonceOf[c]]) : consumed[NonceOf[c]][i].cmd = c
    BY DEF HasConsumed
  <2>2. NonceOf[c] \in Nonces
    BY CommandAssumption
  <2>3. i \in 1 .. Len(consumed'[NonceOf[c]]) /\ consumed'[NonceOf[c]][i].cmd = c
    BY <1>5, <2>1, <2>2 DEF len
  <2> QED
    BY <2>3 DEF HasConsumed
<1>12. HasConsumed(r.cmd)'
  <2>1. len + 1 \in 1 .. Len(consumed'[n]) /\ consumed'[n][len + 1].cmd = r.cmd
    BY <1>2, <1>5
  <2> QED
    BY <2>1 DEF HasConsumed, n
<1>13. r.cmd \notin Acks => ~HasConsumed(r.cmd)
  BY <1>1, <1>3, FirstConsumption DEF n
<1> QED
  BY <1>4, <1>5, <1>8, <1>9, <1>10, <1>11, <1>12, <1>13

LEMMA InsertNonceInv ==
  ASSUME Inv, NEW r \in inFlight, InsertNonce(r)
  PROVE  Inv'
<1> DEFINE new == [r EXCEPT !.stage = "verified"]
<1>1. /\ r.stage = "purged"
      /\ inFlight' = (inFlight \ {r}) \union {new}
      /\ UNCHANGED <<now, applied>>
  BY DEF InsertNonce, Consume, Replace
<1>2. new \in Request /\ new.cmd = r.cmd /\ new.stage = "verified"
  BY DEF Inv, TypeOK, Request, Stage
<1> HIDE DEF new
<1>3. /\ usedNonces' \subseteq Row
      /\ consumed' \in [Nonces -> Seq(Consumption)]
      /\ Remembered' /\ ConsumptionsSpaced' /\ ConsumedWhileFresh'
      /\ \A c \in Commands : HasConsumed(c) => HasConsumed(c)'
      /\ HasConsumed(r.cmd)'
      /\ r.cmd \notin Acks => ~HasConsumed(r.cmd)
  BY ConsumeInv DEF InsertNonce
<1>4. TypeOK'
  BY <1>1, <1>2, <1>3 DEF Inv, TypeOK
<1>5. InTime'
  BY <1>1, <1>2 DEF Inv, InTime, Verifying
<1>6. OnceEach'
  <2> SUFFICES ASSUME NEW c \in Commands \ Acks
               PROVE  /\ applied[c] <= 1
                      /\ applied[c] # 0 => HasConsumed(c)' /\ Pending(c)' = {}
                      /\ Pending(c)' # {} => HasConsumed(c)'
                      /\ \A r1, r2 \in Pending(c)' : r1 = r2
    BY <1>1 DEF OnceEach
  <2>1. CASE c = r.cmd
    <3>1. applied[c] = 0 /\ Pending(c) = {}
      BY <1>3, <2>1 DEF Inv, OnceEach
    <3>2. Pending(c)' = {new}
      BY <1>1, <1>2, <2>1, <3>1 DEF Pending
    <3> QED
      BY <1>3, <2>1, <3>1, <3>2
  <2>2. CASE c # r.cmd
    <3>1. Pending(c)' = Pending(c)
      BY <1>1, <1>2, <2>2 DEF Pending
    <3> QED
      BY <1>3, <3>1 DEF Inv, OnceEach
  <2> QED
    BY <2>1, <2>2
<1> QED
  BY <1>3, <1>4, <1>5, <1>6 DEF Inv

LEMMA InsertUnacknowledgedInv ==
  ASSUME Inv, NEW r \in inFlight, InsertUnacknowledged(r)
  PROVE  Inv'
<1>1. inFlight' = inFlight \ {r} /\ UNCHANGED <<now, applied>>
  BY DEF InsertUnacknowledged, Consume, Drop
<1>2. /\ usedNonces' \subseteq Row
      /\ consumed' \in [Nonces -> Seq(Consumption)]
      /\ Remembered' /\ ConsumptionsSpaced' /\ ConsumedWhileFresh'
      /\ \A c \in Commands : HasConsumed(c) => HasConsumed(c)'
  BY ConsumeInv DEF InsertUnacknowledged
<1>3. TypeOK'
  BY <1>1, <1>2 DEF Inv, TypeOK
<1>4. InTime'
  BY <1>1 DEF Inv, InTime, Verifying
<1>5. \A c : Pending(c)' \subseteq Pending(c)
  BY <1>1 DEF Pending
<1>6. OnceEach'
  BY <1>1, <1>2, <1>5 DEF Inv, OnceEach
<1> QED
  BY <1>2, <1>3, <1>4, <1>6 DEF Inv

\* Every step of the specification.
LEMMA NextInv == Inv /\ [Next]_vars => Inv'
<1> SUFFICES ASSUME Inv, [Next]_vars PROVE Inv'
  OBVIOUS
<1>1. ASSUME NEW id \in Requests, NEW c \in Commands, CheckEnvelope(id, c)
      PROVE  Inv'
  BY <1>1, CheckEnvelopeInv
<1>2. ASSUME NEW r \in inFlight, Step(r)
      PROVE  Inv'
  <2>1. CASE Purge(r)
    BY <2>1, PurgeInv
  <2>2. CASE InsertNonce(r)
    BY <2>2, InsertNonceInv
  <2>3. CASE InsertUnacknowledged(r)
    BY <2>3, InsertUnacknowledgedInv
  <2>4. CASE RefuseUsed(r)
    BY <2>4, DropInv DEF RefuseUsed
  <2>5. CASE DatabaseError(r)
    BY <2>5, DropInv DEF DatabaseError
  <2>6. CASE Dispatch(r)
    BY <2>6, DispatchInv
  <2> QED
    BY <1>2, <2>1, <2>2, <2>3, <2>4, <2>5, <2>6 DEF Step
<1>3. CASE Cleanup
  BY <1>3, CleanupInv
<1>4. CASE Restart
  BY <1>4, RestartInv
<1>5. CASE Tick
  BY <1>5, TickInv
<1>6. CASE UNCHANGED vars
  <2>1. TypeOK' /\ Remembered' /\ InTime'
    BY <1>6 DEF vars, Inv, TypeOK, Remembered, InTime, Verifying
  <2>2. ConsumptionsSpaced' /\ ConsumedWhileFresh'
    BY <1>6 DEF vars, Inv, ConsumptionsSpaced, ConsumedWhileFresh
  <2>3. OnceEach'
    BY <1>6 DEF vars, Inv, OnceEach, HasConsumed, Pending
  <2> QED
    BY <2>1, <2>2, <2>3 DEF Inv
<1> QED
  BY <1>1, <1>2, <1>3, <1>4, <1>5, <1>6 DEF Next

-----------------------------------------------------------------------------
\* The inductive invariant holds in every reachable state.
THEOREM Invariance == Spec => []Inv
  BY InitInv, NextInv, PTL DEF Spec

\* Every variable keeps its type.
THEOREM TypeCorrect == Spec => []TypeOK
<1>1. Inv => TypeOK
  BY DEF Inv
<1> QED
  BY <1>1, Invariance, PTL

\* A command under the timestamp check reaches its handler at most once,
\* whatever the network duplicates or delays and wherever the agent restarts.
THEOREM AppliedAtMostOnce == Spec => []AtMostOnce
<1>1. Inv => AtMostOnce
  BY DEF Inv, OnceEach, AtMostOnce
<1> QED
  BY <1>1, Invariance, PTL

\* No nonce is consumed twice within the retention, whatever the command.
THEOREM NoncesSpaced == Spec => []ConsumptionsSpaced
<1>1. Inv => ConsumptionsSpaced
  BY DEF Inv
<1> QED
  BY <1>1, Invariance, PTL

\* A consumed command was fresh, up to the stall of the request carrying it.
THEOREM FreshWhenConsumed == Spec => []ConsumedWhileFresh
<1>1. Inv => ConsumedWhileFresh
  BY DEF Inv
<1> QED
  BY <1>1, Invariance, PTL

-----------------------------------------------------------------------------
(***************************************************************************)
(* Lockdown.                                                               *)
(***************************************************************************)
LockdownInv == LockdownTypeOK /\ LockdownHasReason

LEMMA ReasonOfTask == \A t \in Task :
  /\ ReasonOf(t) \in Reason
  /\ t # "heartbeat" => ReasonOf(t) \in Sticky
  BY DEF Task, ReasonOf, Reason, Sticky

\* Where every process starts, at startup and at each restart.
LEMMA FreshStart ==
  /\ "None" \in Reason \union {"None"} /\ 0 \in 0 .. Timeout + 1
  /\ [t \in Task |-> "idle"] \in [Task -> TaskStage]
  /\ [a \in AckTasks |-> "none"] \in [AckTasks -> AckStage]
  BY TimeoutAssumption DEF TaskStage, AckStage

LEMMA LockdownInitInv == LockdownInit => LockdownInv
  BY FreshStart DEF LockdownInit, LockdownInv, LockdownTypeOK, LockdownHasReason

-----------------------------------------------------------------------------
\* The tasks.
LEMMA TaskInv ==
  ASSUME LockdownInv, NEW t \in Task, TaskStep(t)
  PROVE  LockdownInv'
<1>1. CASE TestFlag(t)
  <2>1. LockdownTypeOK'
    BY <1>1 DEF LockdownInv, LockdownTypeOK, TestFlag, Move, TaskStage
  <2>2. LockdownHasReason'
    BY <1>1 DEF LockdownInv, LockdownTypeOK, LockdownHasReason, TestFlag, Move
  <2> QED
    BY <2>1, <2>2 DEF LockdownInv
<1>2. CASE Fail(t)
  <2>1. LockdownTypeOK'
    BY <1>2 DEF LockdownInv, LockdownTypeOK, Fail, Move, TaskStage
  <2>2. LockdownHasReason'
    BY <1>2 DEF LockdownInv, LockdownTypeOK, LockdownHasReason, Fail, Move
  <2> QED
    BY <2>1, <2>2 DEF LockdownInv
<1>3. CASE SetLockdown(t)
  <2>1. CASE task[t] = "entering"
    <3>1. LockdownTypeOK'
      BY <1>3, <2>1 DEF LockdownInv, LockdownTypeOK, SetLockdown, Move, TaskStage
    <3>2. task'[t] = "flagged"
      BY <1>3, <2>1 DEF LockdownInv, LockdownTypeOK, SetLockdown, Move
    <3>3. LockdownHasReason'
      BY <3>2 DEF LockdownHasReason
    <3> QED
      BY <3>1, <3>3 DEF LockdownInv
  <2>2. CASE task[t] = "flagged"
    <3>1. /\ reason' = ReasonOf(t)
          /\ Move(t, "idle")
          /\ UNCHANGED <<lockdown, age, ack, pgUp>>
      BY <1>3, <2>2 DEF SetLockdown
    <3>2. LockdownTypeOK'
      BY <3>1, ReasonOfTask DEF LockdownInv, LockdownTypeOK, Move, TaskStage
    <3>3. reason' # "None"
      BY <3>1, ReasonOfTask DEF Reason, Sticky
    <3> QED
      BY <3>2, <3>3 DEF LockdownInv, LockdownHasReason
  <2> QED
    BY <1>3, <2>1, <2>2 DEF SetLockdown
<1> QED
  BY <1>1, <1>2, <1>3 DEF TaskStep

LEMMA TriggerInv ==
  ASSUME LockdownInv, HeartbeatLost \/ PgQueryFails
  PROVE  LockdownInv'
<1>1. LockdownTypeOK'
  BY DEF LockdownInv, LockdownTypeOK, HeartbeatLost, PgQueryFails, Move, Task, TaskStage
<1>2. LockdownHasReason'
  BY DEF LockdownInv, LockdownTypeOK, LockdownHasReason, HeartbeatLost, PgQueryFails, Move, Task
<1> QED
  BY <1>1, <1>2 DEF LockdownInv

\* The acknowledgements.
LEMMA AckInv ==
  ASSUME LockdownInv, NEW a \in AckTasks, AckVerified(a) \/ AckStep(a)
  PROVE  LockdownInv'
<1>1. CASE AckVerified(a)
  BY <1>1 DEF LockdownInv, LockdownTypeOK, AckVerified, AckStage, LockdownHasReason
<1>2. CASE AckResetsTimer(a)
  BY <1>2, TimeoutAssumption
     DEF LockdownInv, LockdownTypeOK, AckResetsTimer, AckStage, LockdownHasReason
<1>3. CASE AckClears(a)
  <2>1. LockdownTypeOK'
    BY <1>3 DEF LockdownInv, LockdownTypeOK, AckClears, ClearIfHeartbeat, AckStage
  <2>2. LockdownHasReason'
    BY <1>3 DEF LockdownInv, AckClears, ClearIfHeartbeat, LockdownHasReason
  <2> QED
    BY <2>1, <2>2 DEF LockdownInv
<1> QED
  BY <1>1, <1>2, <1>3 DEF AckStep

\* The environment.
LEMMA EnvironmentInv ==
  ASSUME LockdownInv, TimePasses \/ PgFlips \/ AgentRestarts
  PROVE  LockdownInv'
<1>1. CASE TimePasses
  BY <1>1, TimeoutAssumption
     DEF LockdownInv, LockdownTypeOK, TimePasses, LaterAge, LockdownHasReason
<1>2. CASE PgFlips
  BY <1>2 DEF LockdownInv, LockdownTypeOK, PgFlips, LockdownHasReason
<1>3. CASE AgentRestarts
  BY <1>3, FreshStart DEF LockdownInv, LockdownTypeOK, AgentRestarts, LockdownHasReason
<1> QED
  BY <1>1, <1>2, <1>3

LEMMA LockdownNextInv == LockdownInv /\ [LockdownNext]_lockdownVars => LockdownInv'
<1> SUFFICES ASSUME LockdownInv, [LockdownNext]_lockdownVars PROVE LockdownInv'
  OBVIOUS
<1>1. CASE UNCHANGED lockdownVars
  BY <1>1 DEF lockdownVars, LockdownInv, LockdownTypeOK, LockdownHasReason
<1> QED
  BY <1>1, TriggerInv, TaskInv, AckInv, EnvironmentInv DEF LockdownNext

-----------------------------------------------------------------------------
THEOREM LockdownInvariance == LockdownSpec => []LockdownInv
  BY LockdownInitInv, LockdownNextInv, PTL DEF LockdownSpec

\* Every variable keeps its type.
THEOREM LockdownTypeCorrect == LockdownSpec => []LockdownTypeOK
<1>1. LockdownInv => LockdownTypeOK
  BY DEF LockdownInv
<1> QED
  BY <1>1, LockdownInvariance, PTL

\* The agent is never locked down without a reason, except while a task is
\* between the two stores of set_lockdown.
THEOREM NeverLockedWithoutReason == LockdownSpec => []LockdownHasReason
<1>1. LockdownInv => LockdownHasReason
  BY DEF LockdownInv
<1> QED
  BY <1>1, LockdownInvariance, PTL

\* One step out of a safely locked state, by any actor, is safe or a restart.
LEMMA SafelyLockedStep ==
  ASSUME LockdownInv, SafelyLocked, [LockdownNext]_lockdownVars
  PROVE  SafelyLocked' \/ AgentRestarts
<1> USE DEF SafelyLocked
<1>1. CASE HeartbeatLost \/ PgQueryFails
  BY <1>1 DEF LockdownInv, LockdownTypeOK, HeartbeatLost, PgQueryFails, Move, Task
<1>2. ASSUME NEW t \in Task, TestFlag(t) \/ Fail(t)
      PROVE  SafelyLocked'
  BY <1>2 DEF LockdownInv, LockdownTypeOK, TestFlag, Fail, Move, Task
<1>3. ASSUME NEW t \in Task, SetLockdown(t)
      PROVE  SafelyLocked'
  <2>1. t # "heartbeat"
    BY <1>3 DEF SetLockdown
  <2>2. task'["heartbeat"] = task["heartbeat"]
    BY <1>3, <2>1 DEF LockdownInv, LockdownTypeOK, SetLockdown, Move, Task
  <2>3. lockdown' /\ reason' \in Sticky
    BY <1>3, <2>1, ReasonOfTask DEF SetLockdown
  <2> QED
    BY <2>2, <2>3
<1>4. ASSUME NEW a \in AckTasks, AckVerified(a) \/ AckStep(a)
      PROVE  SafelyLocked'
  BY <1>4 DEF AckVerified, AckStep, AckResetsTimer, AckClears,
              ClearIfHeartbeat, Sticky
<1>5. CASE TimePasses \/ PgFlips \/ UNCHANGED lockdownVars
  BY <1>5 DEF TimePasses, PgFlips, lockdownVars
<1> QED
  BY <1>1, <1>2, <1>3, <1>4, <1>5 DEF LockdownNext, TaskStep

\* Only a restart ends a sticky lockdown that the heartbeat watchdog is not
\* in the middle of overwriting.
THEOREM StickyLockdownStays == LockdownSpec => StickyStays
<1>1. LockdownInv /\ [LockdownNext]_lockdownVars
        => [SafelyLocked => SafelyLocked' \/ AgentRestarts]_lockdownVars
  BY SafelyLockedStep
<1> QED
  BY <1>1, LockdownInvariance, PTL DEF LockdownSpec, StickyStays
=============================================================================
