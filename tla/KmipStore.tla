----------------------------- MODULE KmipStore -----------------------------
(***************************************************************************)
(* The operational key store of the KMIP daemon (WrappedKeyStore): rows in *)
(* SQLite and, in a file of its own, the KEK envelope, which commits to    *)
(* the exact rows.  A change writes the envelope with a pending            *)
(* commitment, commits the rows, and writes the envelope again; every      *)
(* operation first compares the rows with the envelope and settles what a  *)
(* crash left pending.  Each write may fail before or after it reached the *)
(* disk, the daemon may die between any two of them, the rows may be       *)
(* replaced by an earlier copy, and the helper's status command may open   *)
(* the same files.                                                         *)
(***************************************************************************)
EXTENDS Naturals, FiniteSets

CONSTANTS
    Keys,          \* key ids: a random one for each create
    MaxWrites,     \* bound on changes attempted
    MaxCrashes,    \* bound on deaths of the daemon
    MaxFaults,     \* bound on failed writes
    MaxRollbacks,  \* bound on restorations of an earlier database
    MaxProbes      \* bound on status commands

ASSUME KeysAssumption == Keys # {}
ASSUME StoreBounds == {MaxWrites, MaxCrashes, MaxFaults, MaxRollbacks, MaxProbes} \subseteq Nat

State == {"absent", "pre", "active"}
After(s) == IF s = "absent" THEN "pre" ELSE "active"
\* A row is its life-cycle state and the nonce it was wrapped with.
Row == [st : State, nonce : 0..MaxWrites]
Rows == [Keys -> Row]
NoRows == [k \in Keys |-> [st |-> "absent", nonce |-> 0]]
\* commitment == "" and pending_commitment is None.
Nothing == [k \in Keys |-> [st |-> "nothing", nonce |-> 0]]
Envelope == [commit : Rows \cup {Nothing}, pend : Rows \cup {Nothing}]

VARIABLES
    files,    \* which of kek.json and store.db exist
    rows,     \* committed content of store.db
    env,      \* content of kek.json
    pc, mem,  \* the daemon and its copy of the envelope
    op,       \* the operation that holds the store's lock
    next,     \* rows of its open transaction
    told,     \* what clients were told
    ppc, penv, pnew,  \* a status command, its copy, and what it will write
    past,     \* contents store.db had, to be restored from a copy
    writes, crashes, faults, rollbacks, probes

disk == <<files, rows, env>>
daemon == <<pc, mem, op, next, told>>
prober == <<ppc, penv, pnew, probes>>
bounds == <<past, writes, crashes, faults, rollbacks>>
vars == <<disk, daemon, prober, bounds>>

NoOp == [kind |-> "none"]
Settled(c) == [commit |-> c, pend |-> Nothing]
NoEnvelope == Settled(Nothing)

Init ==
    /\ files = "none" /\ rows = NoRows /\ env = NoEnvelope
    /\ pc = "down" /\ mem = NoEnvelope /\ op = NoOp /\ next = NoRows
    /\ told = [k \in Keys |-> "absent"]
    /\ ppc = "off" /\ penv = NoEnvelope /\ pnew = NoEnvelope
    /\ past = {} /\ writes = 0 /\ crashes = 0 /\ faults = 0 /\ rollbacks = 0 /\ probes = 0

-----------------------------------------------------------------------------
(* Helpers of the daemon's steps. *)

Fault == faults < MaxFaults /\ faults' = faults + 1

\* _write_envelope: the new file and the copy, or an exception that leaves the
\* old file (before os.replace) or the new one (the directory flush failed).
Write(e, ok, raised) ==
    \/ env' = e /\ mem' = e /\ pc' = ok /\ UNCHANGED faults
    \/ Fault /\ pc' = raised /\ UNCHANGED <<env, mem>>
    \/ Fault /\ pc' = raised /\ env' = e /\ UNCHANGED mem

\* What _verify_store_commitment concludes from envelope e and the rows.
Accepts(e) == e.commit = Nothing \/ rows \in {e.commit, e.pend}
Clean(e) == rows = e.commit /\ e.pend = Nothing

-----------------------------------------------------------------------------
(* Start-up. *)

\* The first start creates the KEK before the database.
CreateKek ==
    /\ pc = "down" /\ files = "none"
    /\ files' = "kek" /\ env' = NoEnvelope
    /\ mem' = NoEnvelope /\ pc' = "init"
    /\ UNCHANGED <<rows, op, next, told, prober, bounds>>

\* Mutant: an envelope with a pending commitment is taken for a damaged one.
LoadSettledMutant ==
    /\ pc = "down" /\ files = "both" /\ env.pend = Nothing
    /\ mem' = env /\ pc' = "init"
    /\ UNCHANGED <<disk, op, next, told, prober, bounds>>

\* A later start needs both files and reads the envelope.
LoadKek ==
    /\ pc = "down" /\ files = "both"
    /\ mem' = env /\ pc' = "init"
    /\ UNCHANGED <<disk, op, next, told, prober, bounds>>

\* executescript(STORE_SCHEMA_SQL) creates what is missing.
CreateSchema ==
    /\ pc = "init" /\ pc' = "opening" /\ files' = "both"
    /\ past' = past \cup {rows}
    /\ UNCHANGED <<rows, env, mem, op, next, told, prober,
                   writes, crashes, faults, rollbacks>>

\* Where an exception of the current step leads: the process ends while it
\* opens the store, the request fails later on.
Raised == IF pc = "opening" THEN "down" ELSE "idle"
Verified == IF pc = "opening" THEN "idle" ELSE "verified"

\* Mutant: a pending commitment that the rows match is not settled.
VerifyUnsettledMutant ==
    /\ pc \in {"opening", "verify"}
    /\ IF mem.commit = Nothing THEN Write(Settled(rows), Verified, Raised)
       ELSE /\ pc' = (IF Accepts(mem) THEN Verified ELSE Raised)
            /\ UNCHANGED <<env, mem, faults>>
    /\ UNCHANGED <<files, rows, op, next, told, prober, past, writes, crashes, rollbacks>>

\* _verify_store_commitment.
Verify ==
    /\ pc \in {"opening", "verify"}
    /\ \/ Accepts(mem) /\ ~Clean(mem) /\ Write(Settled(rows), Verified, Raised)
       \/ Clean(mem) /\ pc' = Verified /\ UNCHANGED <<env, mem, faults>>
       \/ ~Accepts(mem) /\ pc' = Raised /\ UNCHANGED <<env, mem, faults>>
    /\ UNCHANGED <<files, rows, op, next, told, prober, past, writes, crashes, rollbacks>>

-----------------------------------------------------------------------------
(* Operations: one at a time, under the store's lock. *)

Begin(kind, k) ==
    /\ pc = "idle" /\ pc' = "verify"
    /\ op' = [kind |-> kind, key |-> k]
    /\ UNCHANGED <<disk, mem, next, told, prober, bounds>>

Tell(k, s) == told' = [told EXCEPT ![k] = s]

\* get_key, get_metadata; activate_key of an active key.
Answer ==
    /\ pc = "verified"
    /\ \/ op.kind = "get" /\ rows[op.key].st # "absent"
       \/ op.kind = "activate" /\ rows[op.key].st = "active"
    /\ Tell(op.key, rows[op.key].st) /\ pc' = "idle"
    /\ UNCHANGED <<disk, mem, op, next, prober, bounds>>

\* KeyNotFoundError.
NotFound ==
    /\ pc = "verified" /\ op.kind \in {"get", "activate"} /\ rows[op.key].st = "absent"
    /\ pc' = "idle"
    /\ UNCHANGED <<disk, mem, op, next, told, prober, bounds>>

\* Mutant: the row is changed whatever state it has, to the name of the request.
ExecuteAgainMutant ==
    /\ pc = "verified" /\ writes < MaxWrites /\ op.kind # "get"
    /\ writes' = writes + 1
    /\ next' = [rows EXCEPT ![op.key] = [st |-> op.kind, nonce |-> writes + 1]]
    /\ pc' = "prepare"
    /\ UNCHANGED <<disk, mem, op, told, prober, past, crashes, faults, rollbacks>>

\* create_key inserts a row, activate_key wraps the key again.
Execute ==
    /\ pc = "verified" /\ writes < MaxWrites
    /\ rows[op.key].st = CASE op.kind = "create" -> "absent"
                           [] op.kind = "activate" -> "pre"
                           [] OTHER -> "nothing"
    /\ writes' = writes + 1
    /\ next' = [rows EXCEPT ![op.key] = [st |-> After(@.st), nonce |-> writes + 1]]
    /\ pc' = "prepare"
    /\ UNCHANGED <<disk, mem, op, told, prober, past, crashes, faults, rollbacks>>

\* Mutant: the envelope commits to the new rows before they are committed.
PrepareSettledMutant ==
    /\ pc = "prepare" /\ Write(Settled(next), "commit", "idle")
    /\ UNCHANGED <<files, rows, op, next, told, prober, past, writes, crashes, rollbacks>>

\* _commit_mutation: announce the rows, ...
Prepare ==
    /\ pc = "prepare"
    /\ Write([commit |-> mem.commit, pend |-> next], "commit", "idle")
    /\ UNCHANGED <<files, rows, op, next, told, prober, past, writes, crashes, rollbacks>>

\* ... commit them, ...
Commit ==
    /\ pc = "commit"
    /\ \/ rows' = next /\ past' = past \cup {next} /\ pc' = "settle" /\ UNCHANGED faults
       \/ Fault /\ pc' = "withdraw" /\ UNCHANGED <<rows, past>>
    /\ UNCHANGED <<files, env, mem, op, next, told, prober, writes, crashes, rollbacks>>

\* ... or take the announcement back after a failed commit, ...
Withdraw ==
    /\ pc = "withdraw" /\ Write(Settled(mem.commit), "idle", "idle")
    /\ UNCHANGED <<files, rows, op, next, told, prober, past, writes, crashes, rollbacks>>

\* ... and settle the envelope.
Settle ==
    /\ pc = "settle" /\ Write(Settled(mem.pend), "return", "idle")
    /\ UNCHANGED <<files, rows, op, next, told, prober, past, writes, crashes, rollbacks>>

Return ==
    /\ pc = "return" /\ Tell(op.key, next[op.key].st) /\ pc' = "idle"
    /\ UNCHANGED <<disk, mem, op, next, prober, bounds>>

-----------------------------------------------------------------------------
(* The status command: a process of its own, started by the privileged helper *)
(* as root, that opens the store for writing beside the running daemon.       *)

StatusLoad ==
    /\ ppc = "off" /\ probes < MaxProbes /\ files = "both"
    /\ probes' = probes + 1 /\ penv' = env /\ ppc' = "look"
    /\ UNCHANGED <<disk, daemon, pnew, bounds>>

StatusVerify ==
    /\ ppc = "look"
    /\ IF Accepts(penv) /\ ~Clean(penv)
       THEN pnew' = Settled(rows) /\ ppc' = "write"
       ELSE ppc' = "off" /\ UNCHANGED pnew
    /\ UNCHANGED <<disk, daemon, penv, probes, bounds>>

StatusWrite ==
    /\ ppc = "write" /\ ppc' = "off"
    /\ env' = pnew
    /\ UNCHANGED <<files, rows, daemon, penv, pnew, probes, bounds>>

-----------------------------------------------------------------------------
(* Faults. *)

Crash ==
    /\ pc # "down" /\ crashes < MaxCrashes /\ crashes' = crashes + 1
    /\ pc' = "down" /\ mem' = NoEnvelope /\ op' = NoOp /\ next' = NoRows
    /\ UNCHANGED <<disk, told, prober, past, writes, faults, rollbacks>>

\* store.db is replaced by an earlier copy of itself.
RollBack ==
    /\ pc \in {"down", "idle"} /\ rollbacks < MaxRollbacks /\ rollbacks' = rollbacks + 1
    /\ files = "both" /\ rows' \in past \ {rows}
    /\ UNCHANGED <<files, env, daemon, prober, past, writes, crashes, faults>>

-----------------------------------------------------------------------------
Daemon ==
    \/ CreateKek \/ LoadKek \/ CreateSchema \/ Verify
    \/ Answer \/ NotFound \/ Execute
    \/ Prepare \/ Commit \/ Withdraw \/ Settle \/ Return

Next ==
    \/ Daemon
    \/ \E k \in Keys, kind \in {"get", "create", "activate"} : Begin(kind, k)
    \/ Crash \/ RollBack

Spec == Init /\ [][Next]_vars

\* Nothing keeps a status command from running beside the daemon.
Status == StatusLoad \/ StatusVerify \/ StatusWrite
StatusSpec == Init /\ [][Next \/ Status]_vars

\* systemd restarts a daemon that ends (Restart=on-failure), and a request that
\* was begun is carried through; clients need not send any.
FairSpec == Spec /\ WF_vars(Daemon)

-----------------------------------------------------------------------------
(* Properties. *)

TypeOK ==
    /\ files \in {"none", "kek", "both"} /\ rows \in Rows /\ env \in Envelope
    /\ mem \in Envelope /\ next \in Rows
    /\ pc \in {"down", "init", "opening", "idle", "verify", "verified", "prepare",
               "commit", "withdraw", "settle", "return"}
    /\ told \in [Keys -> State]
    /\ ppc \in {"off", "look", "write"} /\ penv \in Envelope /\ pnew \in Envelope

\* Wherever the daemon dies, the files it leaves can be opened again: the rows
\* are the ones the envelope commits to or announces.  A database restored from
\* an earlier copy is the one thing the envelope is there to refuse.
Reopens == files = "both" /\ rollbacks = 0 => Accepts(env)

\* The envelope the daemon goes by: its own copy while it runs (the file may be
\* ahead of it when a directory flush failed), the file when it is down.
Trusted == IF pc = "down" THEN env ELSE mem

\* The settled envelope, not the database, is what clients can rely on: seen
\* through it the store behaves as the abstract key service.  In particular an
\* answered key is never lost, never goes back to an earlier state, and never
\* is served from a restored copy.
Held == [k \in Keys |-> IF Trusted.commit = Nothing THEN "absent" ELSE Trusted.commit[k].st]
Abstract == INSTANCE KeyService WITH keys <- Held

ImplementsKeyService == Abstract!Spec

\* A daemon that went down serves again, unless the database was replaced.
ComesBack == (pc = "down" /\ files = "both") ~> (pc = "idle" \/ rollbacks > 0)
=============================================================================
