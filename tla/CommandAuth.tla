----------------------------- MODULE CommandAuth -----------------------------
(***************************************************************************)
(* The gate every signed command passes: verify_command and                *)
(* check_and_consume_nonce of internal/auth/mod.rs, run by any number of   *)
(* concurrent requests (HTTP /cmd, HTTP /heartbeat, the WebSocket session) *)
(* over one used_nonces table that survives restarts.                      *)
(*                                                                         *)
(* The network may deliver a copy of a signed command at any time, any     *)
(* number of times.  The DELETE of expired nonces and the INSERT are two   *)
(* statements with an await between them, so a request can stall, and      *)
(* another one run, between its freshness check, its purge and its insert. *)
(*                                                                         *)
(* Abstractions: time is a clock shared by the process and PostgreSQL      *)
(* (the database is local to the agent) and never runs backwards; base64,  *)
(* JSON and Ed25519 are the set Authentic; a request that is refused       *)
(* before it touches the database leaves no trace here.                    *)
(***************************************************************************)
EXTENDS Integers, Sequences

CONSTANTS
  Commands,     \* the signed envelopes in existence, genuine or not
  Nonces,
  Requests,     \* tasks that can be inside verify_command at once
  NonceOf,      \* payload.nonce of a command
  Timestamp,    \* payload.timestamp of a command
  Acks,         \* commands whose type is agent.heartbeat_ack
  Authentic,    \* signed by a key of the ring and addressed to this agent
  Skew,         \* MAX_TIMESTAMP_SKEW_SECS
  Retention,    \* INTERVAL '5 minutes'
  MaxStall,     \* bound on the time from the freshness check to the insert
  MaxTime       \* bound on the clock

ASSUME CommandAssumption ==
  /\ NonceOf \in [Commands -> Nonces]
  /\ Timestamp \in [Commands -> Int]
  /\ Acks \subseteq Commands
  /\ Authentic \subseteq Commands

ASSUME TimeAssumption ==
  /\ Skew \in Nat
  /\ Retention \in Nat
  /\ MaxStall \in Nat
  /\ MaxTime \in Nat

(***************************************************************************)
(* The margin the retention leaves.  A command is fresh for 2 * Skew       *)
(* seconds at most, so its nonce must be remembered that long and for as   *)
(* long again as a request may stall.  With 30 s and 5 minutes the code    *)
(* allows a stall of 240 s.                                                *)
(***************************************************************************)
ASSUME RetentionAssumption == 2 * Skew + MaxStall <= Retention

VARIABLES
  now,          \* Utc::now() and PostgreSQL's NOW()
  usedNonces,   \* rows of the used_nonces table
  inFlight,     \* requests past the envelope checks
  consumed,     \* history: per nonce, who consumed it and when, oldest first
  applied       \* history: how often a command reached its handler

vars == <<now, usedNonces, inFlight, consumed, applied>>

Time == 0 .. MaxTime
Row == [nonce : Nonces, createdAt : Time]
Stage == {"checked", "purged", "verified"}
Request == [id : Requests, cmd : Commands, stage : Stage, checkedAt : Time]
Consumption == [cmd : Commands, at : Time]

TypeOK ==
  /\ now \in Time
  /\ usedNonces \subseteq Row
  /\ inFlight \subseteq Request
  /\ consumed \in [Nonces -> Seq(Consumption)]
  /\ applied \in [Commands -> Nat]

Init ==
  /\ now = 0
  /\ usedNonces = {}
  /\ inFlight = {}
  /\ consumed = [n \in Nonces |-> <<>>]
  /\ applied = [c \in Commands |-> 0]

-----------------------------------------------------------------------------
\* Faulty variants of operators below: a freshness check without abs(), an
\* expiry that compares with <= or with the skew.
FreshWithoutAbs(c) == now - Timestamp[c] <= Skew

ExpiredAtBoundary(row) == row.createdAt <= now - Retention

ExpiredAfterSkew(row) == row.createdAt < now - Skew

-----------------------------------------------------------------------------
\* (now - payload.timestamp).abs() <= MAX_TIMESTAMP_SKEW_SECS
Fresh(c) == now - Timestamp[c] \in -Skew .. Skew

\* created_at < NOW() - INTERVAL '5 minutes'
Expired(row) == row.createdAt < now - Retention

KnownNonce(n) == \E row \in usedNonces : row.nonce = n

Unexpired == {row \in usedNonces : ~Expired(row)}

Replace(r, stage) ==
  inFlight' = (inFlight \ {r}) \union {[r EXCEPT !.stage = stage]}

Drop(r) == inFlight' = inFlight \ {r}

(***************************************************************************)
(* The envelope checks up to the first await: signature and addressee,     *)
(* then freshness, which an acknowledgement skips.  A copy that fails one  *)
(* is answered with an error and goes no further.                          *)
(***************************************************************************)
CheckEnvelope(id, c) ==
  /\ \A r \in inFlight : r.id # id
  /\ c \in Authentic
  /\ c \in Acks \/ Fresh(c)
  /\ inFlight' = inFlight \union
       {[id |-> id, cmd |-> c, stage |-> "checked", checkedAt |-> now]}
  /\ UNCHANGED <<now, usedNonces, consumed, applied>>

\* DELETE FROM used_nonces, the first statement of check_and_consume_nonce.
Purge(r) ==
  /\ r.stage = "checked"
  /\ usedNonces' = Unexpired
  /\ Replace(r, "purged")
  /\ UNCHANGED <<now, consumed, applied>>

\* The INSERT found no row: it wrote one and stamped it with the time.
Consume(r) ==
  /\ r.stage = "purged"
  /\ LET n == NonceOf[r.cmd] IN
       /\ ~KnownNonce(n)
       /\ usedNonces' = usedNonces \union {[nonce |-> n, createdAt |-> now]}
       /\ consumed' = [consumed EXCEPT
                         ![n] = Append(@, [cmd |-> r.cmd, at |-> now])]
  /\ UNCHANGED <<now, applied>>

\* INSERT ... RETURNING gave a row: verify_command returns Ok.
InsertNonce(r) == Consume(r) /\ Replace(r, "verified")

\* The INSERT was committed and its reply lost: the request is refused.
InsertUnacknowledged(r) == Consume(r) /\ Drop(r)

\* ON CONFLICT DO NOTHING gave no row: the request is refused.
RefuseUsed(r) ==
  /\ r.stage = "purged"
  /\ KnownNonce(NonceOf[r.cmd])
  /\ Drop(r)
  /\ UNCHANGED <<now, usedNonces, consumed, applied>>

\* Either statement failed without effect: the request is refused.
DatabaseError(r) ==
  /\ r.stage \in {"checked", "purged"}
  /\ Drop(r)
  /\ UNCHANGED <<now, usedNonces, consumed, applied>>

\* The caller hands the verified command to its handler.
Dispatch(r) ==
  /\ r.stage = "verified"
  /\ applied' = [applied EXCEPT ![r.cmd] = @ + 1]
  /\ Drop(r)
  /\ UNCHANGED <<now, usedNonces, consumed>>

\* The nonce-cleanup task: the same DELETE at startup and every hour after.
Cleanup ==
  /\ usedNonces' = Unexpired
  /\ UNCHANGED <<now, inFlight, consumed, applied>>

\* The process stops and starts again: requests are lost, the table is not.
Restart ==
  /\ inFlight' = {}
  /\ UNCHANGED <<now, usedNonces, consumed, applied>>

Verifying(r) == r.stage \in {"checked", "purged"}

\* Time passes, for as long as no request stalls for more than MaxStall.
Tick ==
  /\ now < MaxTime
  /\ \A r \in inFlight : Verifying(r) => now < r.checkedAt + MaxStall
  /\ now' = now + 1
  /\ UNCHANGED <<usedNonces, inFlight, consumed, applied>>

Step(r) ==
  \/ Purge(r)
  \/ InsertNonce(r)
  \/ InsertUnacknowledged(r)
  \/ RefuseUsed(r)
  \/ DatabaseError(r)
  \/ Dispatch(r)

Next ==
  \/ \E id \in Requests, c \in Commands : CheckEnvelope(id, c)
  \/ \E r \in inFlight : Step(r)
  \/ Cleanup
  \/ Restart
  \/ Tick

Spec == Init /\ [][Next]_vars

-----------------------------------------------------------------------------
(***************************************************************************)
(* A command under the timestamp check reaches its handler at most once,   *)
(* however many copies arrive, whichever requests race between purge and   *)
(* insert, and whether or not the agent restarts in between.               *)
(***************************************************************************)
AtMostOnce == \A c \in Commands \ Acks : applied[c] <= 1

(***************************************************************************)
(* Every command, acknowledgements included: two requests consume the same *)
(* nonce only if the retention lies between them.                          *)
(***************************************************************************)
ConsumptionsSpaced ==
  \A n \in Nonces :
    \A i, j \in 1 .. Len(consumed[n]) :
      i < j => consumed[n][j].at > consumed[n][i].at + Retention

(***************************************************************************)
(* What the 30 s window still means when the nonce is consumed: a command  *)
(* under the timestamp check is within the skew of its timestamp, give or  *)
(* take the stall of the request that carries it.                          *)
(***************************************************************************)
ConsumedWhileFresh ==
  \A n \in Nonces :
    \A i \in 1 .. Len(consumed[n]) :
      LET e == consumed[n][i]
      IN  e.cmd \notin Acks => e.at - Timestamp[e.cmd] \in -Skew .. Skew + MaxStall
=============================================================================
