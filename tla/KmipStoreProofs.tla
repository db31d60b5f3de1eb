-------------------------- MODULE KmipStoreProofs --------------------------
(***************************************************************************)
(* For any set of keys and any number of changes, crashes, failed writes   *)
(* and restored databases: the files a dead daemon leaves can be opened    *)
(* again, and the store implements KeyService.                             *)
(***************************************************************************)
EXTENDS KmipStore, TLAPS

Operating == {"verify", "verified", "prepare", "commit", "withdraw", "settle", "return"}

\* The parts of the state TypeOK leaves open.
Typed ==
    /\ TypeOK
    /\ past \subseteq Rows
    /\ writes \in 0..MaxWrites /\ rollbacks \in Nat
    /\ pc \in Operating => op \in [kind : {"get", "create", "activate"}, key : Keys]

\* Which files there are before the first commitment, and what they hold.
Fresh ==
    /\ files # "both" => env = NoEnvelope /\ pc \in {"down", "init"}
    /\ files = "none" => pc = "down"
    /\ env.commit = Nothing => env.pend = Nothing /\ rows = NoRows /\ past \subseteq {NoRows}
    /\ pc \in {"init", "opening"} => mem = env
    /\ pc \notin {"down", "init", "opening"} => mem.commit # Nothing

\* r is what one create or one activation makes of c.
OneStep(c, r) ==
    \E k \in Keys : /\ c[k].st # "active"
                    /\ r[k].st = After(c[k].st)
                    /\ \A j \in Keys \ {k} : r[j].st = c[j].st

\* What an envelope announces is one change away from what it commits to, and
\* the file is at most that change ahead of the daemon's copy.
Ahead(e) == e.pend # Nothing => e.commit # Nothing /\ OneStep(e.commit, e.pend)
Announced ==
    /\ Ahead(env) /\ Ahead(mem)
    /\ pc # "down" => \/ env.commit = mem.commit
                      \/ mem.pend # Nothing /\ env.commit = mem.pend

\* Where a change stands; no database is exchanged while it is open.
Changing ==
    /\ pc \in {"verified", "prepare"} => Clean(mem)
    /\ pc = "prepare" => OneStep(rows, next)
    /\ pc \in {"prepare", "commit", "settle", "return"} => next[op.key].st # "absent"
    /\ pc \in {"commit", "withdraw"} =>
          env = mem /\ mem.pend = next /\ rows = mem.commit
    /\ pc = "settle" => env = mem /\ mem.pend = next /\ rows = next
    /\ pc = "return" => env = Settled(next) /\ mem = Settled(next)

\* Without an exchanged database the daemon accepts its rows as well.
Opens == Reopens /\ (pc # "down" /\ rollbacks = 0 => Accepts(mem))

IInv == Typed /\ Fresh /\ Announced /\ Changing /\ Opens

USE KeysAssumption, StoreBounds
----------------------------------------------------------------------------

\* "nothing" is no life-cycle state, so no rows look like an absent commitment.
LEMMA NothingIsNoRows == Nothing \notin Rows /\ NoRows \in Rows
<1>1. NoRows \in Rows
  BY DEF NoRows, Rows, Row, State
<1>2. ASSUME Nothing \in Rows PROVE FALSE
  <2>1. PICK k \in Keys : TRUE
    BY KeysAssumption
  <2>2. Nothing[k] \in Row
    BY <1>2, <2>1 DEF Rows
  <2> QED  BY <2>1, <2>2 DEF Nothing, Row, State
<1> QED  BY <1>1, <1>2

\* Neither file exists, the daemon is down and nobody was told anything.
LEMMA InitInv == Init => IInv
<1> SUFFICES ASSUME Init PROVE IInv
  OBVIOUS
<1> USE NothingIsNoRows DEF Init, NoEnvelope, Settled
<1>1. Typed
  BY DEF Typed, TypeOK, Envelope, State, Operating
<1>2. Fresh
  BY DEF Fresh
<1>3. Announced /\ Changing /\ Opens
  BY DEF Announced, Ahead, Changing, Opens, Reopens
<1> QED  BY <1>1, <1>2, <1>3 DEF IInv

\* The rows a change writes are well typed and one move away from the rows it
\* found.
LEMMA ExecuteMoves ==
    ASSUME IInv, Execute
    PROVE  /\ op.key \in Keys /\ next' \in Rows /\ OneStep(rows, next')
           /\ next'[op.key].st # "absent"
<1> DEFINE k == op.key
<1>1. /\ k \in Keys /\ rows \in Rows /\ writes + 1 \in 0..MaxWrites
      /\ rows[k].st \in {"absent", "pre"}
  <2>1. k \in Keys /\ rows \in Rows /\ op.kind \in {"get", "create", "activate"}
    BY DEF IInv, Typed, TypeOK, Operating, Execute
  <2>2. writes + 1 \in 0..MaxWrites
    BY DEF IInv, Typed, Execute
  <2>3. rows[k].st \in State
    BY <2>1 DEF Rows, Row
  <2>4. rows[k].st \in {"absent", "pre"}
    BY <2>1, <2>3 DEF Execute, State
  <2> QED  BY <2>1, <2>2, <2>4
<1>2. rows[k] \in Row /\ After(rows[k].st) \in State
  BY <1>1 DEF Rows, After, State
<1>3. next' = [rows EXCEPT ![k] = [st |-> After(rows[k].st), nonce |-> writes + 1]]
  BY DEF Execute
<1>4. next' \in Rows
  BY <1>1, <1>2, <1>3 DEF Rows, Row
<1>5. OneStep(rows, next')
  <2> SUFFICES /\ rows[k].st # "active"
               /\ next'[k].st = After(rows[k].st)
               /\ \A j \in Keys \ {k} : next'[j].st = rows[j].st
    BY <1>1 DEF OneStep
  <2> QED  BY <1>1, <1>3 DEF Rows
<1>6. next'[k].st # "absent"
  BY <1>1, <1>3 DEF Rows, After
<1> QED  BY <1>1, <1>4, <1>5, <1>6

\* An answer about a key tells a life-cycle state.
LEMMA TellTyped ==
    ASSUME NEW k \in Keys, NEW r \in Rows, told \in [Keys -> State], Tell(k, r[k].st)
    PROVE  told' \in [Keys -> State]
<1>1. r[k].st \in State
  BY DEF Rows, Row
<1> QED  BY <1>1 DEF Tell

\* Every step of the daemon, of its clients and of the faults keeps IInv.
LEMMA InvStep == IInv /\ [Next]_vars => IInv'
<1> SUFFICES ASSUME IInv, [Next]_vars PROVE IInv'
  OBVIOUS
<1> USE NothingIsNoRows DEF IInv, disk, daemon, prober, bounds
<1>1. CASE CreateKek
  <2>1. Typed'
    BY <1>1 DEF CreateKek, Typed, TypeOK, Operating, Fresh
  <2>2. Fresh'
    BY <1>1 DEF CreateKek, Fresh
  <2>3. Announced'
    BY <1>1 DEF CreateKek, Announced, Fresh
  <2>4. Changing'
    BY <1>1 DEF CreateKek, Changing
  <2>5. Opens'
    BY <1>1 DEF CreateKek, Opens, Reopens, Accepts, Settled, NoEnvelope
  <2> QED  BY <2>1, <2>2, <2>3, <2>4, <2>5
<1>2. CASE LoadKek
  <2>1. Typed'
    BY <1>2 DEF LoadKek, Typed, TypeOK, Operating
  <2>2. Fresh'
    BY <1>2 DEF LoadKek, Fresh
  <2>3. Announced'
    BY <1>2 DEF LoadKek, Announced
  <2>4. Changing'
    BY <1>2 DEF LoadKek, Changing
  <2>5. Opens'
    BY <1>2 DEF LoadKek, Opens, Reopens, Accepts
  <2> QED  BY <2>1, <2>2, <2>3, <2>4, <2>5
<1>3. CASE CreateSchema
  <2>1. Typed'
    BY <1>3 DEF CreateSchema, Typed, TypeOK, Operating
  <2>2. Fresh'
    BY <1>3 DEF CreateSchema, Fresh
  <2>3. Announced'
    BY <1>3 DEF CreateSchema, Announced
  <2>4. Changing'
    BY <1>3 DEF CreateSchema, Changing
  <2>5. Opens'
    BY <1>3 DEF CreateSchema, Opens, Reopens, Accepts, Fresh
  <2> QED  BY <2>1, <2>2, <2>3, <2>4, <2>5
<1>4. CASE Verify
  <2>1. Typed'
    BY <1>4 DEF Verify, Typed, TypeOK, Envelope, Operating, Write, Settled,
                Raised, Verified
  <2>2. Fresh'
    BY <1>4 DEF Verify, Fresh, Write, Typed, TypeOK, Settled, Clean, Raised,
                Verified
  <2>3. Announced'
    BY <1>4 DEF Verify, Announced, Ahead, Write, Typed, TypeOK, Fresh, Settled,
                Accepts, Raised
  <2>4. Changing'
    BY <1>4 DEF Verify, Changing, Clean, Write, Settled, Raised, Verified
  <2>5. Opens'
    BY <1>4 DEF Verify, Opens, Reopens, Accepts, Write, Settled
  <2> QED  BY <2>1, <2>2, <2>3, <2>4, <2>5
<1>5. CASE Answer
  <2>1. Typed'
    <3>1. op.key \in Keys /\ rows \in Rows /\ told \in [Keys -> State]
      BY <1>5 DEF Answer, Typed, TypeOK, Operating
    <3>2. told' \in [Keys -> State]
      BY <1>5, <3>1, TellTyped DEF Answer
    <3> QED  BY <1>5, <3>2 DEF Answer, Typed, TypeOK, Operating
  <2>2. Fresh'
    BY <1>5 DEF Answer, Fresh
  <2>3. Announced'
    BY <1>5 DEF Answer, Announced
  <2>4. Changing'
    BY <1>5 DEF Answer, Changing
  <2>5. Opens'
    BY <1>5 DEF Answer, Opens, Reopens, Accepts
  <2> QED  BY <2>1, <2>2, <2>3, <2>4, <2>5
<1>6. CASE NotFound
  <2>1. Typed'
    BY <1>6 DEF NotFound, Typed, TypeOK, Operating
  <2>2. Fresh'
    BY <1>6 DEF NotFound, Fresh
  <2>3. Announced'
    BY <1>6 DEF NotFound, Announced
  <2>4. Changing'
    BY <1>6 DEF NotFound, Changing
  <2>5. Opens'
    BY <1>6 DEF NotFound, Opens, Reopens, Accepts
  <2> QED  BY <2>1, <2>2, <2>3, <2>4, <2>5
<1>7. CASE Execute
  <2>1. Typed'
    BY <1>7, ExecuteMoves DEF Execute, Typed, TypeOK, Operating
  <2>2. Fresh'
    BY <1>7 DEF Execute, Fresh
  <2>3. Announced'
    BY <1>7 DEF Execute, Announced
  <2>4. Changing'
    BY <1>7, ExecuteMoves DEF Execute, Changing, Clean
  <2>5. Opens'
    BY <1>7 DEF Execute, Opens, Reopens, Accepts
  <2> QED  BY <2>1, <2>2, <2>3, <2>4, <2>5
<1>8. CASE Prepare
  <2>1. Typed'
    BY <1>8 DEF Prepare, Typed, TypeOK, Envelope, Operating, Write
  <2>2. Fresh'
    BY <1>8 DEF Prepare, Fresh, Write
  <2>3. Announced'
    BY <1>8 DEF Prepare, Announced, Ahead, Write, Fresh, Changing, Clean
  <2>4. Changing'
    BY <1>8 DEF Prepare, Changing, Clean, Write
  <2>5. Opens'
    BY <1>8 DEF Prepare, Opens, Reopens, Accepts, Write, Changing, Clean
  <2> QED  BY <2>1, <2>2, <2>3, <2>4, <2>5
<1>9. CASE Commit
  <2>1. Typed'
    BY <1>9 DEF Commit, Typed, TypeOK, Operating
  <2>2. Fresh'
    BY <1>9 DEF Commit, Fresh, Announced
  <2>3. Announced'
    BY <1>9 DEF Commit, Announced
  <2>4. Changing'
    BY <1>9 DEF Commit, Changing
  <2>5. Opens'
    BY <1>9 DEF Commit, Opens, Reopens, Accepts, Changing
  <2> QED  BY <2>1, <2>2, <2>3, <2>4, <2>5
<1>10. CASE Withdraw
  <2>1. Typed'
    BY <1>10 DEF Withdraw, Typed, TypeOK, Envelope, Operating, Write, Settled
  <2>2. Fresh'
    BY <1>10 DEF Withdraw, Fresh, Write, Settled
  <2>3. Announced'
    BY <1>10 DEF Withdraw, Announced, Ahead, Write, Settled
  <2>4. Changing'
    BY <1>10 DEF Withdraw, Changing, Write
  <2>5. Opens'
    BY <1>10 DEF Withdraw, Opens, Reopens, Accepts, Write, Settled, Changing
  <2> QED  BY <2>1, <2>2, <2>3, <2>4, <2>5
<1>11. CASE Settle
  <2>1. Typed'
    BY <1>11 DEF Settle, Typed, TypeOK, Envelope, Operating, Write, Settled
  <2>2. Fresh'
    BY <1>11 DEF Settle, Fresh, Write, Typed, TypeOK, Settled, Changing
  <2>3. Announced'
    BY <1>11 DEF Settle, Announced, Ahead, Write, Typed, TypeOK, Settled,
                 Changing
  <2>4. Changing'
    BY <1>11 DEF Settle, Changing, Write
  <2>5. Opens'
    BY <1>11 DEF Settle, Opens, Reopens, Accepts, Write, Settled, Changing
  <2> QED  BY <2>1, <2>2, <2>3, <2>4, <2>5
<1>12. CASE Return
  <2>1. Typed'
    <3>1. op.key \in Keys /\ next \in Rows /\ told \in [Keys -> State]
      BY <1>12 DEF Return, Typed, TypeOK, Operating
    <3>2. told' \in [Keys -> State]
      BY <1>12, <3>1, TellTyped DEF Return
    <3> QED  BY <1>12, <3>2 DEF Return, Typed, TypeOK, Operating
  <2>2. Fresh'
    BY <1>12 DEF Return, Fresh
  <2>3. Announced'
    BY <1>12 DEF Return, Announced
  <2>4. Changing'
    BY <1>12 DEF Return, Changing
  <2>5. Opens'
    BY <1>12 DEF Return, Opens, Reopens, Accepts
  <2> QED  BY <2>1, <2>2, <2>3, <2>4, <2>5
<1>13. CASE Crash
  <2>1. Typed'
    BY <1>13 DEF Crash, Typed, TypeOK, Envelope, Operating, Settled, NoEnvelope
  <2>2. Fresh'
    BY <1>13 DEF Crash, Fresh
  <2>3. Announced'
    BY <1>13 DEF Crash, Announced, Ahead, Settled, NoEnvelope
  <2>4. Changing'
    BY <1>13 DEF Crash, Changing
  <2>5. Opens'
    BY <1>13 DEF Crash, Opens, Reopens, Accepts
  <2> QED  BY <2>1, <2>2, <2>3, <2>4, <2>5
<1>14. CASE RollBack
  <2>1. Typed'
    BY <1>14 DEF RollBack, Typed, TypeOK
  <2>2. Fresh'
    BY <1>14 DEF RollBack, Fresh
  <2>3. Announced'
    BY <1>14 DEF RollBack, Announced
  <2>4. Changing'
    BY <1>14 DEF RollBack, Changing
  <2>5. Opens'
    BY <1>14 DEF RollBack, Opens, Reopens, Typed
  <2> QED  BY <2>1, <2>2, <2>3, <2>4, <2>5
<1>15. ASSUME NEW k \in Keys, NEW kind \in {"get", "create", "activate"}, Begin(kind, k)
       PROVE  IInv'
  BY <1>15 DEF Begin, Typed, TypeOK, Fresh, Announced, Changing, Opens, Reopens,
               Accepts
<1>16. CASE UNCHANGED vars
  BY <1>16 DEF vars, Typed, TypeOK, Fresh, Announced, Changing, Clean, Opens,
               Reopens, Accepts
<1> QED
  BY <1>1, <1>2, <1>3, <1>4, <1>5, <1>6, <1>7, <1>8, <1>9, <1>10, <1>11, <1>12,
     <1>13, <1>14, <1>15, <1>16
     DEF Next, Daemon

\* IInv holds in every reachable state.
THEOREM Invariance == Spec => []IInv
<1> QED  BY InitInv, InvStep, PTL DEF Spec

\* Every variable of the store keeps its type.
THEOREM TypeCorrect == Spec => []TypeOK
<1>1. IInv => TypeOK
  BY DEF IInv, Typed
<1> QED  BY <1>1, Invariance, PTL

\* Wherever the daemon dies or a write fails, the envelope it leaves accepts the
\* rows it leaves: the next start opens the store.
THEOREM Reopening == Spec => []Reopens
<1>1. IInv => Reopens
  BY DEF IInv, Opens
<1> QED  BY <1>1, Invariance, PTL

----------------------------------------------------------------------------
(* The store implements the key service. *)

\* A step that changes neither the trusted commitment nor what clients were
\* told is no step of the key service.
LEMMA StutterStep ==
    ASSUME Trusted'.commit = Trusted.commit, UNCHANGED told
    PROVE  [Abstract!Next]_(Abstract!vars)
<1>1. Held' = Held
  BY DEF Held
<1> QED  BY <1>1 DEF Abstract!vars

\* Announced rows that become the commitment are one move of the abstract key.
LEMMA MoveStep ==
    ASSUME NEW c \in Rows, NEW r \in Rows, OneStep(c, r), Trusted.commit = c,
           Trusted'.commit = r, UNCHANGED told
    PROVE  Abstract!Next
<1>1. PICK k \in Keys : /\ c[k].st # "active"
                        /\ r[k].st = After(c[k].st)
                        /\ \A j \in Keys \ {k} : r[j].st = c[j].st
  BY DEF OneStep
<1>2. Abstract!Move(k)
  BY <1>1, NothingIsNoRows DEF Abstract!Move, Abstract!After, After, Held
<1> QED  BY <1>2 DEF Abstract!Next

\* Telling a client the state of a key in the rows the envelope commits to is an
\* answer of the key service.
LEMMA AnswerStep ==
    ASSUME NEW k \in Keys, NEW c \in Rows, Trusted.commit = c, Trusted'.commit = c,
           c[k].st # "absent", Tell(k, c[k].st)
    PROVE  Abstract!Next
<1>1. Held[k] = c[k].st /\ Held' = Held
  BY NothingIsNoRows DEF Held
<1>2. Abstract!Answer(k)
  BY <1>1 DEF Abstract!Answer, Tell
<1> QED  BY <1>2 DEF Abstract!Next

\* The commitment that verification settles on is the one the daemon trusted, its
\* announced successor, or the empty one of a store without rows.
LEMMA SettleOnRows ==
    ASSUME IInv, pc \in {"opening", "verify"}, Accepts(mem), Trusted'.commit = rows,
           UNCHANGED told
    PROVE  [Abstract!Next]_(Abstract!vars)
<1>1. rows \in Rows /\ rows # Nothing /\ Trusted = mem
  BY NothingIsNoRows DEF IInv, Typed, TypeOK, Trusted
<1>2. CASE rows = mem.commit
  BY <1>1, <1>2, StutterStep
<1>3. CASE mem.commit # Nothing /\ rows = mem.pend
  <2>1. OneStep(mem.commit, rows) /\ mem.commit \in Rows
    BY <1>1, <1>3 DEF IInv, Announced, Ahead, Typed, TypeOK, Envelope
  <2> QED  BY <1>1, <2>1, MoveStep
<1>4. CASE mem.commit = Nothing
  <2>1. rows = NoRows
    BY <1>4 DEF IInv, Fresh
  <2>2. Held' = Held
    BY <1>1, <1>4, <2>1 DEF Held, NoRows
  <2> QED  BY <2>2 DEF Abstract!vars
<1> QED  BY <1>2, <1>3, <1>4 DEF Accepts

\* The initial store is the initial key service.
LEMMA InitRefines == Init => Abstract!Init
BY DEF Init, Abstract!Init, Held, Trusted, NoEnvelope, Settled

\* Every step of the store is a step of the key service or none.
LEMMA StepRefines == IInv /\ [Next]_vars => [Abstract!Next]_(Abstract!vars)
<1> SUFFICES ASSUME IInv, [Next]_vars PROVE [Abstract!Next]_(Abstract!vars)
  OBVIOUS
<1> USE DEF disk, daemon, prober, bounds
<1>1. CASE Verify
  <2>1. pc \in {"opening", "verify"} /\ UNCHANGED told
    BY <1>1 DEF Verify
  <2>2. CASE Accepts(mem) /\ Write(Settled(rows), Verified, Raised)
    <3>1. Trusted'.commit \in {rows, mem.commit} /\ Trusted = mem
      BY <2>1, <2>2 DEF IInv, Fresh, Write, Settled, Trusted, Raised
    <3> QED  BY <2>1, <2>2, <3>1, SettleOnRows, StutterStep
  <2>3. CASE pc' \in {Verified, Raised} /\ UNCHANGED <<env, mem>>
    <3>1. Trusted'.commit = Trusted.commit
      BY <2>1, <2>3 DEF IInv, Fresh, Trusted, Verified, Raised
    <3> QED  BY <2>1, <3>1, StutterStep
  <2> QED  BY <1>1, <2>2, <2>3 DEF Verify
<1>2. CASE Settle
  <2>1. /\ pc = "settle" /\ Trusted = mem /\ UNCHANGED told
        /\ Trusted'.commit \in {mem.commit, mem.pend}
    BY <1>2 DEF Settle, Write, Settled, Trusted
  <2>2. mem.pend \in Rows /\ mem.commit \in Rows /\ OneStep(mem.commit, mem.pend)
    BY <2>1, NothingIsNoRows DEF IInv, Changing, Announced, Ahead, Typed,
                                 TypeOK, Envelope
  <2> QED  BY <2>1, <2>2, MoveStep, StutterStep
<1>3. CASE Crash
  <2>1. /\ pc # "down" /\ Trusted = mem /\ Trusted' = env /\ UNCHANGED told
    BY <1>3 DEF Crash, Trusted
  <2>2. CASE env.commit = mem.commit
    BY <2>1, <2>2, StutterStep
  <2>3. CASE mem.pend # Nothing /\ env.commit = mem.pend
    <3>1. mem.pend \in Rows /\ mem.commit \in Rows /\ OneStep(mem.commit, mem.pend)
      BY <2>3 DEF IInv, Announced, Ahead, Typed, TypeOK, Envelope
    <3> QED  BY <2>1, <2>3, <3>1, MoveStep
  <2> QED  BY <2>1, <2>2, <2>3 DEF IInv, Announced
<1>4. CASE Answer
  <2>1. /\ op.key \in Keys /\ rows \in Rows /\ rows[op.key].st # "absent"
        /\ Tell(op.key, rows[op.key].st)
        /\ Trusted.commit = rows /\ Trusted'.commit = rows
    BY <1>4 DEF Answer, IInv, Typed, TypeOK, Operating, Changing, Clean, Trusted
  <2> QED  BY <2>1, AnswerStep
<1>5. CASE Return
  <2>1. /\ op.key \in Keys /\ next \in Rows /\ next[op.key].st # "absent"
        /\ Tell(op.key, next[op.key].st)
        /\ Trusted.commit = next /\ Trusted'.commit = next
    BY <1>5 DEF Return, IInv, Typed, TypeOK, Operating, Changing, Settled,
                Trusted
  <2> QED  BY <2>1, AnswerStep
<1>6. CASE CreateKek \/ LoadKek \/ CreateSchema
  <2>1. Trusted'.commit = Trusted.commit /\ UNCHANGED told
    BY <1>6 DEF CreateKek, LoadKek, CreateSchema, Trusted, IInv, Fresh
  <2> QED  BY <2>1, StutterStep
<1>7. CASE NotFound \/ Execute \/ Prepare \/ Commit \/ Withdraw
  <2>1. Trusted'.commit = Trusted.commit /\ UNCHANGED told
    BY <1>7 DEF NotFound, Execute, Prepare, Commit, Withdraw, Write, Settled,
                Trusted
  <2> QED  BY <2>1, StutterStep
<1>8. CASE RollBack \/ \E k \in Keys, kind \in {"get", "create", "activate"} : Begin(kind, k)
  <2>1. Trusted'.commit = Trusted.commit /\ UNCHANGED told
    BY <1>8 DEF RollBack, Begin, Trusted
  <2> QED  BY <2>1, StutterStep
<1>9. CASE UNCHANGED vars
  <2>1. Trusted'.commit = Trusted.commit /\ UNCHANGED told
    BY <1>9 DEF vars, Trusted
  <2> QED  BY <2>1, StutterStep
<1> QED
  BY <1>1, <1>2, <1>3, <1>4, <1>5, <1>6, <1>7, <1>8, <1>9 DEF Next, Daemon

\* Seen through the envelope it trusts, the store is the key service: whatever
\* crashes, failed writes and restored databases happen, an answered key is
\* never lost, never goes back, and each move happens once.
THEOREM Refinement == Spec => ImplementsKeyService
<1>1. Init => Abstract!Init
  BY InitRefines
<1>2. IInv /\ [Next]_vars => [Abstract!Next]_(Abstract!vars)
  BY StepRefines
<1> QED  BY <1>1, <1>2, Invariance, PTL DEF Spec, ImplementsKeyService,
                Abstract!Spec
============================================================================
