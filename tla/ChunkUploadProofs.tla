------------------------- MODULE ChunkUploadProofs -------------------------
(***************************************************************************)
(* Proofs about ChunkUpload, for any forms, files, sizes, limits and number *)
(* of attempts, restarts and outside changes.                              *)
(***************************************************************************)
EXTENDS ChunkUpload, TLAPS

Revisions == {Absent} \cup (Artifact \X Nat)
Tokens == [owner : {Owner[f] : f \in Forms} \cup {"nobody"}, rev : Revisions, boot : Nat]
Requests ==
    [kind : {"reserve"}, form : Forms, file : Files, token : Tokens]
    \cup [kind : {"put"}, form : Forms, file : Files, pos : Nat, try : Nat]
    \cup [kind : {"final"}, form : Forms]
    \cup [kind : {"cancel"}, form : Forms, file : Files]
Replies ==
    [status : {"none", "ok", "error", "503", "404", "409", "saved", "failed"}]
    \cup [status : {"overwrite_required"}, token : Tokens]
    \cup [status : {"ok"}, offset : Nat]
Browsers ==
    [pc : {"idle", "reserve", "put", "final", "done"}, i : Nat, off : Nat,
     try : 1..MaxTries, token : Tokens, ids : SUBSET Files,
     out : {"none", "error", "refused", "gone", "saved", "failed", "aborted"}]
Handlers ==
    [pc : {"none", "stage", "publish", "link", "replace", "audit", "restore",
           "saved", "failed", "unrestored", "over"},
     staged : Seq(Nat), backup : Artifact \cup {Absent}]

Session ==
    [state : {"none", "open", "claimed"}, data : Seq(Nat), expired : BOOLEAN,
     expected : Revisions]

\* Handlers that only release, those that hold the sessions of their form, and
\* those inside publish.
Ended == {"saved", "failed", "unrestored"}
Holding == {"stage", "publish", "link", "replace", "audit", "restore"} \cup Ended
Publishing == {"link", "replace", "audit", "restore"}
Consuming == {"publish"} \cup Publishing

\* Every variable in full.
Typed ==
    /\ br \in [Forms -> Browsers] /\ reqs \subseteq Requests
    /\ reply \in [Forms -> Replies] /\ hnd \in [Forms -> Handlers]
    /\ sess \in [Files -> Session]
    /\ dest \in Artifact \cup {Absent} /\ ctime \in [Artifact -> Nat]
    /\ lock \in Forms \cup {"free"} /\ intruded \in BOOLEAN
    /\ boot \in 0..MaxRestarts /\ foreign \in 0..MaxForeign

\* Where a browser is: a file of its form, a chunk of that file.
Positions ==
    \A f \in Forms :
        /\ br[f].i \in 1..Len(FilesOf[f]) /\ br[f].off \in 0..Size[Current(f)]
        /\ br[f].ids \subseteq Keys(f)
        /\ br[f].pc \in {"idle", "reserve"} => br[f].off = 0
        /\ br[f].pc = "put" => br[f].off < Size[Current(f)]

\* What a session holds is a beginning of its file.
Received ==
    \A x \in Files :
        /\ Len(sess[x].data) <= Size[x]
        /\ \A k \in 1..Len(sess[x].data) : sess[x].data[k] = k - 1

\* A reservation under way is the last thing its browser asked for, and its file
\* has no session yet; a finalization under way is the only one of its form.
Orderly(r) ==
    /\ r.kind # "final" => r.file \in Keys(r.form)
    /\ r.kind = "reserve" =>
          /\ br[r.form].pc \in {"reserve", "done"} /\ hnd[r.form].pc = "none"
          /\ r.file = Current(r.form) /\ r.token = br[r.form].token
          /\ sess[r.file] = NoSess /\ \A p \in reqs : p.kind = "final" => p.form # r.form
          /\ br[r.form].pc = "reserve" => reply[r.form] = Silent
    /\ r.kind = "put" =>
          /\ r.pos < Size[r.file]
          /\ br[r.form].pc = "reserve" => r.file # Current(r.form)
          /\ br[r.form].pc = "put" /\ r.file = Current(r.form) => r.pos <= br[r.form].off
    /\ r.kind = "final" => br[r.form].pc \in {"final", "done"} /\ hnd[r.form].pc = "none"
Asked == \A r \in reqs : Orderly(r)

\* Nothing exists or is under way for a file its browser has not come to.
Untouched ==
    \A f \in Forms : \A j \in 1..Len(FilesOf[f]) :
        j > br[f].i \/ br[f].pc = "idle" =>
            /\ sess[FilesOf[f][j]] = NoSess
            /\ \A r \in reqs : r.kind = "put" => r.file # FilesOf[f][j]

\* The session of the file being sent is at the browser's offset, or one chunk
\* ahead of it because an answer was lost; the answer the browser has not read
\* yet says so.
Follows(f) ==
    /\ br[f].pc \in {"idle", "reserve", "put"} => hnd[f].pc = "none"
    /\ br[f].pc = "reserve" =>
          /\ sess[Current(f)].data = <<>>
          /\ reply[f].status = "overwrite_required" =>
                sess[Current(f)] = NoSess /\ Current(f) \in Media
    /\ br[f].pc = "put" =>
          /\ sess[Current(f)].state = "open" =>
                Len(sess[Current(f)].data) \in {br[f].off, br[f].off + 1}
          /\ reply[f].status # "409"
          /\ reply[f].status = "ok" =>
                /\ reply[f].offset = br[f].off + 1
                /\ sess[Current(f)].state = "open" =>
                      Len(sess[Current(f)].data) = br[f].off + 1
InStep == \A f \in Forms : Follows(f)

\* The sessions of a form are claimed exactly while its endpoint holds them, and
\* are complete.
Claims ==
    \A f \in Forms : \A x \in Keys(f) :
        /\ sess[x].state = "claimed" <=> hnd[f].pc \in Holding
        /\ sess[x].state = "claimed" => Len(sess[x].data) = Size[x]

\* An upload that can be seen, at the destination or as a backup, is whole and
\* its endpoint has passed the publication; a publishing endpoint has it staged.
Whole(f) == hnd[f].staged = [k \in 1..Size[TheMedia(f)] |-> k - 1]
Visible(f) == dest = Mine(f) \/ \E g \in Forms : hnd[g].backup = Mine(f)
Exhibits(f) ==
    /\ hnd[f].pc \in Consuming => MediaOf(f) # {} /\ Whole(f)
    /\ MediaOf(f) # {} /\ Visible(f) =>
          Whole(f) /\ hnd[f].pc \in {"audit", "restore", "over"} \cup Ended
    /\ MediaOf(f) # {} => hnd[f].backup # Mine(f)
Shown == \A f \in Forms : Exhibits(f)

\* _LOCK is held exactly inside publish.
Locked == \A f \in Forms : lock = f <=> hnd[f].pc \in Publishing

\* An artifact a session may replace is the one its browser confirmed.
Confirmed ==
    \A f \in Forms : \A x \in Keys(f) :
        sess[x].expected # Absent =>
            /\ x \in Media
            /\ br[f].token # NoToken /\ sess[x].expected = br[f].token.rev

\* What the publication replaces, and what it keeps to hand back.
Replaced(f) == IF Expected(f) = Absent THEN Absent ELSE Expected(f)[1]
Keeps(f) ==
    /\ hnd[f].pc \in {"none", "stage", "publish", "link"} => hnd[f].backup = Absent
    /\ hnd[f].pc \in {"link", "replace"} => intruded \/ dest = Replaced(f)
    /\ hnd[f].pc = "replace" => Expected(f) # Absent
    /\ hnd[f].pc \in {"replace", "audit", "restore"} => hnd[f].backup = Replaced(f)
    /\ hnd[f].pc \in {"audit", "restore"} => intruded \/ dest = Mine(f)
Kept == \A f \in Forms : Keeps(f)

IInv ==
    /\ Typed /\ Positions /\ Received /\ Asked /\ Untouched /\ InStep /\ Claims
    /\ Shown /\ Locked /\ Confirmed /\ Kept /\ RetriesAccepted

USE DEF Ended

-----------------------------------------------------------------------------
\* Where the files of a form are: a file has one form and one place in it.
LEMMA FileFacts ==
    /\ \A f \in Forms : Len(FilesOf[f]) \in Nat /\ DOMAIN FilesOf[f] = 1..Len(FilesOf[f])
    /\ \A f \in Forms : \A j \in 1..Len(FilesOf[f]) :
          FilesOf[f][j] \in Keys(f) /\ FilesOf[f][j] \in Files
    /\ \A f \in Forms : \A x \in Keys(f) :
          x \in Files /\ \E j \in 1..Len(FilesOf[f]) : x = FilesOf[f][j]
    /\ \A f \in Forms : \A j, k \in 1..Len(FilesOf[f]) : FilesOf[f][j] = FilesOf[f][k] => j = k
    /\ \A f, g \in Forms : \A x \in Keys(f) : x \in Keys(g) => f = g
    /\ \A x \in Files : Size[x] \in Nat /\ Size[x] > 0
<1> USE FormAssumption
<1>1. \A f \in Forms : Len(FilesOf[f]) \in Nat /\ DOMAIN FilesOf[f] = 1..Len(FilesOf[f])
  OBVIOUS
<1>2. \A f \in Forms : \A j \in 1..Len(FilesOf[f]) :
          FilesOf[f][j] \in Keys(f) /\ FilesOf[f][j] \in Files
  BY <1>1 DEF Keys, ToSet
<1>3. \A f \in Forms : \A x \in Keys(f) :
          x \in Files /\ \E j \in 1..Len(FilesOf[f]) : x = FilesOf[f][j]
  BY <1>1, <1>2 DEF Keys, ToSet
<1>4. \A f \in Forms : \A j, k \in 1..Len(FilesOf[f]) : FilesOf[f][j] = FilesOf[f][k] => j = k
  BY <1>1 DEF IsInjective
<1>5. \A f, g \in Forms : \A x \in Keys(f) : x \in Keys(g) => f = g
  BY DEF Keys
<1>6. \A x \in Files : Size[x] \in Nat /\ Size[x] > 0
  OBVIOUS
<1> QED  BY <1>1, <1>2, <1>3, <1>4, <1>5, <1>6

\* A form has at most one file with a publication, and its artifact is no other
\* form's.
LEMMA MediaFacts ==
    /\ \A f \in Forms : MediaOf(f) # {} =>
          TheMedia(f) \in Keys(f) /\ TheMedia(f) \in Media /\ Mine(f) \in Artifact
    /\ \A f \in Forms : \A x \in Keys(f) : x \in Media => MediaOf(f) # {} /\ x = TheMedia(f)
    /\ \A f, g \in Forms : MediaOf(f) # {} /\ MediaOf(g) # {} /\ Mine(f) = Mine(g) => f = g
    /\ \A f \in Forms : Mine(f) # Absent /\ \A n : Mine(f) # Outside(n)
    /\ Absent \notin Artifact
<1>1. \A f \in Forms : MediaOf(f) # {} => TheMedia(f) \in Keys(f) /\ TheMedia(f) \in Media
  BY DEF MediaOf, TheMedia
<1>2. \A f \in Forms : \A x \in Keys(f) : x \in Media => MediaOf(f) # {} /\ x = TheMedia(f)
  BY <1>1, FormAssumption DEF MediaOf, Keys
<1>3. \A f \in Forms : MediaOf(f) # {} => Mine(f) \in Artifact
  BY <1>1 DEF Mine, Artifact
<1>4. \A f, g \in Forms : MediaOf(f) # {} /\ MediaOf(g) # {} /\ Mine(f) = Mine(g) => f = g
  BY <1>1, FileFacts DEF Mine, Upload
<1>5. \A f \in Forms : Mine(f) # Absent /\ \A n : Mine(f) # Outside(n)
  BY DEF Mine, Upload, Outside, Absent
<1>6. Absent \notin Artifact
  BY DEF Artifact, Absent, Upload, Outside
<1> QED  BY <1>1, <1>2, <1>3, <1>4, <1>5, <1>6

-----------------------------------------------------------------------------
(* Steps of the browser. *)

\* A step of the browser leaves what only the server writes as it is.
LEMMA ServerKept ==
    ASSUME IInv, UNCHANGED srvVars
    PROVE  Received' /\ Claims' /\ Shown' /\ Locked' /\ Kept'
<1> USE DEF IInv, srvVars
<1>1. Received' /\ Claims'
  BY DEF Received, Claims
<1>2. Shown'
  BY DEF Shown, Exhibits, Visible, Whole
<1>3. Locked' /\ Kept'
  BY DEF Locked, Kept, Keeps, Expected, Replaced
<1> QED  BY <1>1, <1>2, <1>3

\* The types of the variables a sending browser writes.
LEMMA SendTypes ==
    ASSUME Typed, NEW f \in Forms, NEW b \in Browsers, Send(f, b),
           Request(f, b) \in Requests
    PROVE  Typed'
<1>1. br' \in [Forms -> Browsers] /\ reqs' \subseteq Requests
  BY DEF Typed, Send
<1>2. reply' \in [Forms -> Replies]
  BY DEF Typed, Send, Silent, Replies
<1> QED  BY <1>1, <1>2 DEF Typed, Send, srvVars

\* A step of one browser leaves the requests of the others in order.
LEMMA OthersKept ==
    ASSUME IInv, NEW f \in Forms, UNCHANGED srvVars,
           \A g \in Forms \ {f} : br'[g] = br[g] /\ reply'[g] = reply[g],
           \A p \in reqs' : p \in reqs \/ p.form = f,
           NEW r \in reqs, r.form # f
    PROVE  Orderly(r)'
<1>1. r.form \in Forms /\ Orderly(r)
  BY DEF IInv, Asked, Typed, Requests
<1>2. /\ br'[r.form] = br[r.form] /\ reply'[r.form] = reply[r.form]
      /\ Current(r.form)' = Current(r.form)
  BY <1>1 DEF Current
<1> QED  BY <1>1, <1>2 DEF Orderly, srvVars

\* A browser that goes on has no reservation and no finalization under way.
LEMMA FirstOfForm ==
    ASSUME IInv, NEW f \in Forms, br[f].pc \in {"idle", "reserve", "put"},
           br[f].pc = "reserve" => reply[f].status # "none",
           NEW r \in reqs, r.form = f
    PROVE  r.kind \notin {"reserve", "final"}
<1>1. Orderly(r)
  BY DEF IInv, Asked
<1>2. r.kind # "final"
  BY <1>1 DEF Orderly
<1>3. ASSUME r.kind = "reserve" PROVE FALSE
  <2>1. br[f].pc = "reserve" /\ reply[f] = Silent
    BY <1>1, <1>3 DEF Orderly
  <2> QED  BY <2>1 DEF Silent
<1> QED  BY <1>2, <1>3

\* The browser sends a chunk of the file it is at: the next one, or once more
\* the one it has no answer for.
LEMMA SendPut ==
    ASSUME IInv, NEW f \in Forms, NEW b \in Browsers, Send(f, b),
           b.pc = "put", br[f].pc \in {"reserve", "put"},
           b.i = br[f].i, b.token = br[f].token, b.out = br[f].out, b.ids \subseteq Keys(f),
           b.off >= br[f].off, b.off < Size[Current(f)],
           br[f].pc = "reserve" => reply[f].status # "none",
           sess[Current(f)].state = "open" =>
               Len(sess[Current(f)].data) \in {b.off, b.off + 1}
    PROVE  IInv'
<1> DEFINE q == [kind |-> "put", form |-> f, file |-> Current(f), pos |-> b.off, try |-> b.try]
<1>1. /\ Request(f, b) = q /\ q \in Requests
      /\ Current(f) \in Files /\ Current(f) \in Keys(f)
  BY FileFacts, BoundAssumption DEF Request, Current, Requests, Browsers, IInv, Typed, Positions
<1>2. Typed'
  BY <1>1, SendTypes DEF IInv
<1>3. br' = [br EXCEPT ![f] = b] /\ reqs' = reqs \cup {q} /\ reply' = [reply EXCEPT ![f] = Silent]
  BY <1>1 DEF Send
<1>4. UNCHANGED srvVars
  BY DEF Send
<1>5. /\ br'[f] = b /\ reply'[f] = Silent /\ Current(f)' = Current(f)
      /\ \A g \in Forms \ {f} : br'[g] = br[g] /\ reply'[g] = reply[g] /\ Current(g)' = Current(g)
  BY <1>3 DEF IInv, Typed, Current
<1>6. \A r \in reqs : r.form = f => r.kind \notin {"reserve", "final"}
  BY FirstOfForm
<1>7. Positions'
  <2>1. b.off \in Nat /\ Size[Current(f)] \in Nat
    BY <1>1, FileFacts DEF Browsers
  <2> QED  BY <2>1, <1>1, <1>5 DEF IInv, Positions
<1>8. Asked'
  <2> SUFFICES ASSUME NEW r \in reqs' PROVE Orderly(r)'
    BY DEF Asked
  <2>1. CASE r = q
    <3>1. b.off \in Nat /\ b.off <= b.off
      BY DEF Browsers
    <3> QED  BY <2>1, <3>1, <1>1, <1>5 DEF Orderly
  <2>2. CASE r \in reqs /\ r.form # f
    BY <2>2, <1>3, <1>4, <1>5, OthersKept
  <2>3. CASE r \in reqs /\ r.form = f
    <3>1. Orderly(r) /\ r.kind \notin {"reserve", "final"}
      BY <2>3, <1>6 DEF IInv, Asked
    <3>2. r.kind = "put" => r.pos \in Nat /\ b.off \in Nat /\ br[f].off \in Nat
      BY <2>3 DEF IInv, Typed, Requests, Browsers
    <3>3. CASE br[f].pc = "put"
      BY <2>3, <3>1, <3>2, <3>3, <1>3, <1>4, <1>5 DEF Orderly, srvVars
    <3>4. CASE br[f].pc = "reserve"
      BY <2>3, <3>1, <3>4, <1>3, <1>4, <1>5 DEF Orderly, srvVars
    <3> QED  BY <3>3, <3>4
  <2> QED  BY <2>1, <2>2, <2>3, <1>3
<1>9. Untouched'
  BY <1>1, <1>3, <1>4, <1>5, FileFacts DEF IInv, Untouched, Positions, Current, srvVars
<1>10. InStep'
  BY <1>1, <1>3, <1>4, <1>5 DEF IInv, InStep, Follows, Silent, srvVars
<1>11. Confirmed' /\ RetriesAccepted'
  BY <1>4, <1>5 DEF IInv, Confirmed, RetriesAccepted, srvVars
<1> QED  BY <1>2, <1>4, <1>7, <1>8, <1>9, <1>10, <1>11, ServerKept DEF IInv

\* The browser asks for a session: for its first or its next file, or again for
\* the current one after the operator confirmed.
LEMMA SendReserve ==
    ASSUME IInv, NEW f \in Forms, NEW b \in Browsers, Send(f, b),
           b.pc = "reserve", br[f].pc \in {"idle", "reserve", "put"},
           b.i \in 1..Len(FilesOf[f]), b.i >= br[f].i, b.off = 0,
           b.out = br[f].out, b.ids \subseteq Keys(f),
           br[f].pc = "reserve" => reply[f].status # "none",
           sess[FilesOf[f][b.i]] = NoSess,
           \A r \in reqs : r.kind = "put" => r.file # FilesOf[f][b.i],
           b.token = br[f].token \/ FilesOf[f][b.i] \in Media
    PROVE  IInv'
<1> DEFINE x == FilesOf[f][b.i]
           q == [kind |-> "reserve", form |-> f, file |-> x, token |-> b.token]
<1>1. Request(f, b) = q /\ q \in Requests /\ x \in Files /\ x \in Keys(f) /\ Size[x] \in Nat
  BY FileFacts DEF Request, Requests, Browsers
<1>2. Typed'
  BY <1>1, SendTypes DEF IInv
<1>3. br' = [br EXCEPT ![f] = b] /\ reqs' = reqs \cup {q} /\ reply' = [reply EXCEPT ![f] = Silent]
  BY <1>1 DEF Send
<1>4. UNCHANGED srvVars
  BY DEF Send
<1>5. /\ br'[f] = b /\ reply'[f] = Silent /\ Current(f)' = x
      /\ \A g \in Forms \ {f} : br'[g] = br[g] /\ reply'[g] = reply[g] /\ Current(g)' = Current(g)
  BY <1>3 DEF IInv, Typed, Current
<1>6. \A r \in reqs : r.form = f => r.kind \notin {"reserve", "final"}
  BY FirstOfForm
<1>7. Positions'
  BY <1>1, <1>5 DEF IInv, Positions
<1>8. Asked'
  <2> SUFFICES ASSUME NEW r \in reqs' PROVE Orderly(r)'
    BY DEF Asked
  <2>1. CASE r = q
    <3>1. hnd[f].pc = "none"
      BY DEF IInv, InStep, Follows
    <3> QED  BY <2>1, <3>1, <1>1, <1>3, <1>4, <1>5, <1>6 DEF Orderly, srvVars
  <2>2. CASE r \in reqs /\ r.form # f
    BY <2>2, <1>3, <1>4, <1>5, OthersKept
  <2>3. CASE r \in reqs /\ r.form = f
    <3>1. Orderly(r) /\ r.kind \notin {"reserve", "final"}
      BY <2>3, <1>6 DEF IInv, Asked
    <3> QED  BY <2>3, <3>1, <1>4, <1>5 DEF Orderly, srvVars
  <2> QED  BY <2>1, <2>2, <2>3, <1>3
<1>9. Untouched'
  BY <1>1, <1>3, <1>4, <1>5, FileFacts DEF IInv, Typed, Browsers, Untouched, Positions, srvVars
<1>10. InStep'
  <2>1. sess[x].data = <<>> /\ reply'[f].status = "none" /\ hnd[f].pc = "none"
    BY <1>5 DEF NoSess, Silent, IInv, InStep, Follows
  <2> QED  BY <2>1, <1>1, <1>4, <1>5 DEF IInv, InStep, Follows, srvVars
<1>11. Confirmed'
  BY <1>1, <1>4, <1>5, MediaFacts DEF IInv, Confirmed, NoSess, srvVars
<1>12. RetriesAccepted'
  BY <1>5 DEF IInv, RetriesAccepted
<1> QED  BY <1>2, <1>4, <1>7, <1>8, <1>9, <1>10, <1>11, <1>12, ServerKept DEF IInv

\* The browser finalizes its form: every chunk of its last file is acknowledged.
LEMMA SendFinal ==
    ASSUME IInv, NEW f \in Forms, NEW b \in Browsers, Send(f, b),
           b.pc = "final", br[f].pc = "put",
           b.i = br[f].i, b.off \in 0..Size[Current(f)], b.token = br[f].token,
           b.out = br[f].out, b.ids \subseteq Keys(f)
    PROVE  IInv'
<1> DEFINE q == [kind |-> "final", form |-> f]
<1>1. Request(f, b) = q /\ q \in Requests
  BY DEF Request, Requests
<1>2. Typed'
  BY <1>1, SendTypes DEF IInv
<1>3. br' = [br EXCEPT ![f] = b] /\ reqs' = reqs \cup {q} /\ reply' = [reply EXCEPT ![f] = Silent]
  BY <1>1 DEF Send
<1>4. UNCHANGED srvVars
  BY DEF Send
<1>5. /\ br'[f] = b /\ reply'[f] = Silent /\ Current(f)' = Current(f)
      /\ \A g \in Forms \ {f} : br'[g] = br[g] /\ reply'[g] = reply[g] /\ Current(g)' = Current(g)
  BY <1>3 DEF IInv, Typed, Current
<1>6. \A r \in reqs : r.form = f => r.kind \notin {"reserve", "final"}
  BY FirstOfForm
<1>7. Positions'
  BY <1>5 DEF IInv, Positions
<1>8. Asked'
  <2> SUFFICES ASSUME NEW r \in reqs' PROVE Orderly(r)'
    BY DEF Asked
  <2>1. CASE r = q
    <3>1. hnd[f].pc = "none"
      BY DEF IInv, InStep, Follows
    <3> QED  BY <2>1, <3>1, <1>4, <1>5 DEF Orderly, srvVars
  <2>2. CASE r \in reqs /\ r.form # f
    BY <2>2, <1>3, <1>4, <1>5, OthersKept
  <2>3. CASE r \in reqs /\ r.form = f
    <3>1. Orderly(r) /\ r.kind \notin {"reserve", "final"}
      BY <2>3, <1>6 DEF IInv, Asked
    <3> QED  BY <2>3, <3>1, <1>4, <1>5 DEF Orderly, srvVars
  <2> QED  BY <2>1, <2>2, <2>3, <1>3
<1>9. Untouched'
  BY <1>3, <1>4, <1>5 DEF IInv, Untouched, srvVars
<1>10. InStep'
  BY <1>3, <1>4, <1>5 DEF IInv, InStep, Follows, srvVars
<1>11. Confirmed' /\ RetriesAccepted'
  BY <1>4, <1>5 DEF IInv, Confirmed, RetriesAccepted, srvVars
<1> QED  BY <1>2, <1>4, <1>7, <1>8, <1>9, <1>10, <1>11, ServerKept DEF IInv

\* The attempt ends; what is left of it on the server is asked to go.
LEMMA LeaveStep ==
    ASSUME IInv, NEW f \in Forms, br[f].pc # "idle",
           NEW out \in {"error", "gone", "saved", "failed", "aborted"}, Leave(f, out)
    PROVE  IInv'
<1>1. /\ br' = [br EXCEPT ![f] = [br[f] EXCEPT !.pc = "done", !.out = out]]
      /\ reqs' = reqs \cup {[kind |-> "cancel", form |-> f, file |-> x] : x \in br[f].ids}
      /\ reply' = [reply EXCEPT ![f] = Silent]
      /\ UNCHANGED srvVars
  BY DEF Leave, IInv, Typed, Browsers
<1>2. br[f].ids \subseteq Keys(f) /\ br[f].ids \subseteq Files
  BY DEF IInv, Positions, Typed, Browsers
<1>3. Typed'
  <2>1. br' \in [Forms -> Browsers]
    <3>1. br[f] \in Browsers
      BY DEF IInv, Typed
    <3>2. [br[f] EXCEPT !.pc = "done", !.out = out] \in Browsers
      BY <3>1 DEF Browsers
    <3> QED  BY <3>2, <1>1 DEF IInv, Typed
  <2>2. reqs' \subseteq Requests
    BY <1>1, <1>2 DEF IInv, Typed, Requests
  <2>3. reply' \in [Forms -> Replies]
    BY <1>1 DEF IInv, Typed, Silent, Replies
  <2> QED  BY <1>1, <2>1, <2>2, <2>3 DEF IInv, Typed, srvVars
<1>4. /\ br'[f].pc = "done" /\ br'[f].out = out /\ Current(f)' = Current(f)
      /\ br'[f].i = br[f].i /\ br'[f].off = br[f].off /\ br'[f].token = br[f].token
      /\ br'[f].ids = br[f].ids
      /\ \A g \in Forms \ {f} : br'[g] = br[g] /\ reply'[g] = reply[g] /\ Current(g)' = Current(g)
  BY <1>1 DEF IInv, Typed, Browsers, Current
<1>5. \A r \in reqs' : r \in reqs \/ (r.kind = "cancel" /\ r.form = f /\ r.file \in Keys(f))
  BY <1>1, <1>2
<1>6. Positions'
  BY <1>4 DEF IInv, Positions
<1>7. Asked'
  <2> SUFFICES ASSUME NEW r \in reqs' PROVE Orderly(r)'
    BY DEF Asked
  <2>1. CASE r \notin reqs
    BY <2>1, <1>5 DEF Orderly
  <2>2. CASE r \in reqs /\ r.form # f
    BY <2>2, <1>1, <1>4, <1>5, OthersKept
  <2>3. CASE r \in reqs /\ r.form = f
    <3>1. Orderly(r)
      BY <2>3 DEF IInv, Asked
    <3> QED  BY <2>3, <3>1, <1>1, <1>4, <1>5 DEF Orderly, srvVars
  <2> QED  BY <2>1, <2>2, <2>3
<1>8. Untouched'
  BY <1>1, <1>4, <1>5 DEF IInv, Untouched, srvVars
<1>9. InStep'
  BY <1>1, <1>4 DEF IInv, InStep, Follows, srvVars
<1>10. Confirmed' /\ RetriesAccepted'
  BY <1>1, <1>4 DEF IInv, Confirmed, RetriesAccepted, srvVars
<1> QED  BY <1>1, <1>3, <1>6, <1>7, <1>8, <1>9, <1>10, ServerKept DEF IInv

\* Every step of a browser preserves the invariant.
LEMMA BrowserStep ==
    ASSUME IInv, NEW f \in Forms, Browser(f)
    PROVE  IInv'
<1>1. /\ br[f] \in Browsers /\ Current(f) \in Files /\ Current(f) \in Keys(f)
      /\ br[f].i \in 1..Len(FilesOf[f]) /\ Len(FilesOf[f]) \in Nat
      /\ Size[Current(f)] \in Nat /\ Size[Current(f)] > 0 /\ br[f].off \in Nat
      /\ br[f].ids \subseteq Keys(f)
  BY FileFacts DEF IInv, Typed, Positions, Current, Browsers
<1>2. MaxTries \in Nat /\ 1 \in 1..MaxTries
  BY BoundAssumption
<1>3. CASE Start(f)
  <2> DEFINE b == [br[f] EXCEPT !.pc = "reserve"]
  <2>1. b \in Browsers /\ Send(f, b) /\ br[f].pc = "idle"
    BY <1>1, <1>3 DEF Start, Browsers
  <2>2. /\ b.pc = "reserve" /\ b.i = br[f].i /\ b.off = 0 /\ b.token = br[f].token
        /\ b.out = br[f].out /\ b.ids = br[f].ids
    BY <1>1, <2>1 DEF Browsers, IInv, Positions
  <2>3. sess[FilesOf[f][b.i]] = NoSess /\ \A r \in reqs : r.kind = "put" => r.file # FilesOf[f][b.i]
    BY <1>1, <2>1, <2>2 DEF IInv, Untouched
  <2>4. b.i \in 1..Len(FilesOf[f]) /\ b.i >= br[f].i
    BY <1>1, <2>2
  <2> HIDE DEF b
  <2> QED  BY <1>1, <2>1, <2>2, <2>3, <2>4, SendReserve
<1>4. CASE Reserved(f)
  <2> DEFINE b == [br[f] EXCEPT !.ids = @ \cup {Current(f)}, !.pc = "put", !.try = 1]
  <2>1. br[f].pc = "reserve" /\ reply[f].status = "ok" /\ br[f].off = 0
    BY <1>4 DEF Reserved, Answered, Awaiting, IInv, Positions
  <2>2. b \in Browsers
    BY <1>1, <1>2 DEF Browsers
  <2>3. Send(f, b)
    BY <1>1, <1>4, <2>1 DEF Reserved, Proceed, Current, Browsers
  <2>4. /\ b.pc = "put" /\ b.i = br[f].i /\ b.off = br[f].off /\ b.token = br[f].token
        /\ b.out = br[f].out /\ b.ids \subseteq Keys(f)
    BY <1>1 DEF Browsers
  <2>5. Len(sess[Current(f)].data) = 0
    BY <2>1 DEF IInv, InStep, Follows
  <2> HIDE DEF b
  <2> QED  BY <1>1, <2>1, <2>2, <2>3, <2>4, <2>5, SendPut
<1>5. CASE Confirm(f)
  <2> DEFINE b == [br[f] EXCEPT !.token = reply[f].token]
  <2>1. br[f].pc = "reserve" /\ reply[f].status = "overwrite_required" /\ Send(f, b)
    BY <1>5 DEF Confirm, Answered, Awaiting
  <2>2. reply[f].token \in Tokens
    BY <2>1 DEF IInv, Typed, Replies
  <2>3. b \in Browsers
    BY <1>1, <2>2 DEF Browsers
  <2>4. /\ b.pc = "reserve" /\ b.i = br[f].i /\ b.off = 0 /\ b.out = br[f].out
        /\ b.ids = br[f].ids
    BY <1>1, <2>1 DEF Browsers, IInv, Positions
  <2>5. sess[Current(f)] = NoSess /\ Current(f) \in Media
    BY <2>1 DEF IInv, InStep, Follows
  <2>6. \A r \in reqs : r.kind = "put" => r.file # Current(f)
    <3> SUFFICES ASSUME NEW r \in reqs, r.kind = "put", r.file = Current(f) PROVE FALSE
      OBVIOUS
    <3>1. r.form \in Forms /\ Orderly(r)
      BY DEF IInv, Asked, Typed, Requests
    <3>2. r.form = f
      BY <1>1, <3>1, FileFacts DEF Orderly
    <3> QED  BY <2>1, <3>1, <3>2 DEF Orderly
  <2>7. FilesOf[f][b.i] = Current(f) /\ b.i \in 1..Len(FilesOf[f]) /\ b.i >= br[f].i
    BY <1>1, <2>4 DEF Current
  <2> HIDE DEF b
  <2> QED  BY <1>1, <2>1, <2>3, <2>4, <2>5, <2>6, <2>7, SendReserve
<1>6. CASE NotReserved(f)
  BY <1>6, LeaveStep DEF NotReserved, Answered, NoAnswer, Awaiting
<1>7. CASE Acknowledged(f)
  <2>1. br[f].pc = "put" /\ reply[f].status = "ok"
    BY <1>7 DEF Acknowledged, Answered, Awaiting
  <2>2. /\ reply[f].offset = br[f].off + 1 /\ br[f].off < Size[Current(f)]
        /\ sess[Current(f)].state = "open" => Len(sess[Current(f)].data) = br[f].off + 1
    BY <2>1 DEF IInv, InStep, Follows, Positions
  <2> DEFINE c == [br[f] EXCEPT !.off = br[f].off + 1]
  <2>3. c \in Browsers /\ Send(f, Proceed(f, c)) /\ FilesOf[f][c.i] = Current(f) /\ c.i = br[f].i
    BY <1>1, <1>7, <2>2 DEF Acknowledged, Browsers, Current
  <2>4. /\ c.off = br[f].off + 1 /\ c.token = br[f].token /\ c.out = br[f].out
        /\ c.ids = br[f].ids
    BY <1>1 DEF Browsers
  <2> HIDE DEF c
  <2>5. CASE c.off < Size[Current(f)]
    <3> DEFINE b == [c EXCEPT !.pc = "put", !.try = 1]
    <3>1. Send(f, b)
      BY <1>1, <2>3, <2>5, <2>4 DEF Proceed
    <3>2. b \in Browsers
      BY <1>1, <1>2, <2>3 DEF Browsers
    <3>3. /\ b.pc = "put" /\ b.i = br[f].i /\ b.off = br[f].off + 1 /\ b.token = br[f].token
          /\ b.out = br[f].out /\ b.ids = br[f].ids /\ b.off < Size[Current(f)]
      BY <1>1, <2>3, <2>4, <2>5 DEF Browsers
    <3> HIDE DEF b
    <3> QED  BY <1>1, <2>1, <2>2, <3>1, <3>2, <3>3, SendPut
  <2>6. CASE c.off = Size[Current(f)] /\ c.i < Len(FilesOf[f])
    <3> DEFINE b == [c EXCEPT !.pc = "reserve", !.i = @ + 1, !.off = 0]
    <3>1. Send(f, b)
      BY <1>1, <2>3, <2>6 DEF Proceed
    <3>2. c.i + 1 \in Nat
      BY <1>1, <2>3
    <3>3. b \in Browsers
      BY <2>3, <3>2 DEF Browsers
    <3>4. /\ b.pc = "reserve" /\ b.i = br[f].i + 1 /\ b.off = 0 /\ b.token = br[f].token
          /\ b.out = br[f].out /\ b.ids = br[f].ids
      BY <1>1, <2>3, <2>4 DEF Browsers
    <3>5. b.i \in 1..Len(FilesOf[f]) /\ b.i > br[f].i
      BY <1>1, <2>3, <2>6, <3>4
    <3>6. sess[FilesOf[f][b.i]] = NoSess /\ \A r \in reqs : r.kind = "put" => r.file # FilesOf[f][b.i]
      BY <3>5 DEF IInv, Untouched
    <3> HIDE DEF b
    <3>7. b.i >= br[f].i
      BY <1>1, <3>4
    <3> QED  BY <1>1, <2>1, <3>1, <3>3, <3>4, <3>5, <3>6, <3>7, SendReserve
  <2>7. CASE ~(c.off < Size[Current(f)]) /\ ~(c.off = Size[Current(f)] /\ c.i < Len(FilesOf[f]))
    <3> DEFINE b == [c EXCEPT !.pc = "final"]
    <3>1. Send(f, b)
      BY <2>3, <2>7 DEF Proceed
    <3>2. b \in Browsers
      BY <1>1, <1>2, <2>3 DEF Browsers
    <3>3. /\ b.pc = "final" /\ b.i = br[f].i /\ b.off = br[f].off + 1 /\ b.token = br[f].token
          /\ b.out = br[f].out /\ b.ids = br[f].ids
      BY <1>1, <2>3, <2>4 DEF Browsers
    <3>4. b.off \in 0..Size[Current(f)]
      BY <1>1, <2>2, <3>3
    <3> HIDE DEF b
    <3> QED  BY <1>1, <2>1, <3>1, <3>2, <3>3, <3>4, SendFinal
  <2> QED  BY <2>5, <2>6, <2>7
<1>8. CASE Retry(f)
  <2>1. br[f].pc = "put"
    BY <1>8 DEF Retry, Answered, NoAnswer, Awaiting
  <2>2. CASE br[f].try < MaxTries
    <3> DEFINE b == [br[f] EXCEPT !.try = @ + 1]
    <3>1. Send(f, b)
      BY <1>8, <2>2 DEF Retry
    <3>2. b \in Browsers
      BY <1>1, <1>2, <2>2 DEF Browsers
    <3>3. /\ b.pc = "put" /\ b.i = br[f].i /\ b.off = br[f].off /\ b.token = br[f].token
          /\ b.out = br[f].out /\ b.ids = br[f].ids
      BY <1>1, <2>1 DEF Browsers
    <3>4. /\ br[f].off < Size[Current(f)]
          /\ sess[Current(f)].state = "open" =>
                Len(sess[Current(f)].data) \in {br[f].off, br[f].off + 1}
      BY <2>1 DEF IInv, Positions, InStep, Follows
    <3> HIDE DEF b
    <3> QED  BY <1>1, <2>1, <3>1, <3>2, <3>3, <3>4, SendPut
  <2>3. CASE ~(br[f].try < MaxTries)
    BY <1>8, <2>1, <2>3, LeaveStep DEF Retry
  <2> QED  BY <2>2, <2>3
<1>9. CASE NotAcknowledged(f)
  <2>1. br[f].pc = "put" /\ reply[f].status # "409"
    BY <1>9 DEF NotAcknowledged, Awaiting, IInv, InStep, Follows
  <2> QED  BY <1>9, <2>1, LeaveStep DEF NotAcknowledged
<1>10. CASE Finished(f)
  BY <1>10, LeaveStep DEF Finished, Answered, NoAnswer, Awaiting
<1>11. CASE Abort(f)
  BY <1>11, LeaveStep DEF Abort
<1> QED  BY <1>3, <1>4, <1>5, <1>6, <1>7, <1>8, <1>9, <1>10, <1>11 DEF Browser

-----------------------------------------------------------------------------
(* Steps of the upload store. *)

\* What a request under way says about the browser it is from.
LEMMA RequestFacts ==
    ASSUME IInv, NEW r \in reqs
    PROVE  /\ r \in Requests /\ r.form \in Forms /\ Orderly(r)
           /\ r.kind # "final" => r.file \in Files /\ r.file \in Keys(r.form)
           /\ r.kind = "put" => r.pos \in Nat
           /\ r.kind = "put" /\ Request(r.form, br[r.form]) = r =>
                 /\ br[r.form].pc = "put" /\ r.file = Current(r.form)
                 /\ r.pos = br[r.form].off
           /\ r.kind = "reserve" /\ Request(r.form, br[r.form]) = r => br[r.form].pc = "reserve"
           /\ r.kind = "final" /\ Request(r.form, br[r.form]) = r => br[r.form].pc = "final"
           /\ r.kind = "reserve" /\ br[r.form].pc = "reserve" => Request(r.form, br[r.form]) = r
<1>1. r \in Requests
  BY DEF IInv, Typed
<1>2. r.form \in Forms /\ Orderly(r) /\ (r.kind = "put" => r.pos \in Nat)
  BY <1>1 DEF IInv, Asked, Requests
<1>3. r.kind # "final" => r.file \in Files /\ r.file \in Keys(r.form)
  BY <1>1, <1>2 DEF Orderly, Requests
<1>4. br[r.form] \in Browsers
  BY <1>2 DEF IInv, Typed
<1>5. ASSUME r.kind = "put", Request(r.form, br[r.form]) = r
      PROVE  br[r.form].pc = "put" /\ r.file = Current(r.form) /\ r.pos = br[r.form].off
  <2>1. br[r.form].pc = "put"
    BY <1>4, <1>5 DEF Request, Browsers
  <2> QED  BY <1>5, <2>1 DEF Request, Current
<1>6. ASSUME r.kind = "reserve", Request(r.form, br[r.form]) = r
      PROVE  br[r.form].pc = "reserve"
  BY <1>4, <1>6 DEF Request, Browsers
<1>7. ASSUME r.kind = "final", Request(r.form, br[r.form]) = r
      PROVE  br[r.form].pc = "final"
  BY <1>4, <1>7 DEF Request, Browsers
<1>8. ASSUME r.kind = "reserve", br[r.form].pc = "reserve"
      PROVE  Request(r.form, br[r.form]) = r
  <2>1. r \in [kind : {"reserve"}, form : Forms, file : Files, token : Tokens]
    BY <1>1, <1>8 DEF Requests
  <2>2. r.file = FilesOf[r.form][br[r.form].i] /\ r.token = br[r.form].token
    BY <1>2, <1>8 DEF Orderly, Current
  <2> QED  BY <1>8, <2>1, <2>2 DEF Request
<1> QED  BY <1>1, <1>2, <1>3, <1>5, <1>6, <1>7, <1>8

\* There is one reservation under way for a form.
LEMMA OneReservation ==
    ASSUME IInv, NEW r \in reqs, NEW p \in reqs,
           r.kind = "reserve", p.kind = "reserve", p.form = r.form
    PROVE  p = r
<1>1. r.file = p.file /\ r.token = p.token
  BY RequestFacts DEF Orderly
<1>2. /\ r \in [kind : {"reserve"}, form : Forms, file : Files, token : Tokens]
      /\ p \in [kind : {"reserve"}, form : Forms, file : Files, token : Tokens]
  BY RequestFacts DEF Requests
<1> QED  BY <1>1, <1>2

\* An answer changes nothing but the reply of the browser that waits for it.
LEMMA AnswerFacts ==
    ASSUME IInv, NEW r \in reqs, NEW a \in Replies, Answer(r, a)
    PROVE  /\ br' = br /\ reqs' = reqs \ {r} /\ reply' \in [Forms -> Replies]
           /\ \A g \in Forms : \/ reply'[g] = reply[g]
                               \/ g = r.form /\ reply'[g] = a /\ Request(g, br[g]) = r
<1>1. r.form \in Forms /\ reply \in [Forms -> Replies]
  BY RequestFacts DEF IInv, Typed
<1> QED  BY <1>1 DEF Answer

\* Handling a request leaves the others in order, as long as no session appears
\* where one is still asked for.
LEMMA RestInOrder ==
    ASSUME IInv, NEW r \in reqs, br' = br, hnd' = hnd, reqs' = reqs \ {r},
           \A g \in Forms : reply'[g] = reply[g] \/ (g = r.form /\ Request(g, br[g]) = r),
           \A q \in reqs \ {r} : q.kind = "reserve" => sess'[q.file] = NoSess
    PROVE  Asked'
<1> SUFFICES ASSUME NEW q \in reqs, q # r PROVE Orderly(q)'
  BY DEF Asked
<1>1. Orderly(q) /\ q.form \in Forms
  BY RequestFacts
<1>2. q.kind = "reserve" /\ br[q.form].pc = "reserve" => reply'[q.form] = reply[q.form]
  BY RequestFacts, <1>1
<1>3. Current(q.form)' = Current(q.form)
  BY DEF Current
<1> QED  BY <1>1, <1>2, <1>3 DEF Orderly

\* A request that is answered without touching a session.
LEMMA AnswerOnly ==
    ASSUME IInv, NEW r \in reqs, NEW a \in Replies, Answer(r, a),
           UNCHANGED sess, UNCHANGED storeOnly,
           Request(r.form, br[r.form]) = r /\ r.kind = "put" =>
               /\ a.status # "409"
               /\ a.status = "ok" => /\ a.offset = br[r.form].off + 1
                                     /\ sess[r.file].state = "open" =>
                                           Len(sess[r.file].data) = br[r.form].off + 1,
           a.status = "overwrite_required" => r.kind = "reserve" /\ r.file \in Media
    PROVE  IInv'
<1>1. /\ br' = br /\ reqs' = reqs \ {r} /\ reply' \in [Forms -> Replies]
      /\ \A g \in Forms : \/ reply'[g] = reply[g]
                          \/ g = r.form /\ reply'[g] = a /\ Request(g, br[g]) = r
  BY AnswerFacts
<1>2. UNCHANGED srvVars /\ hnd' = hnd /\ sess' = sess
  BY DEF srvVars, storeOnly
<1>3. Typed'
  BY <1>1, <1>2 DEF IInv, Typed, srvVars
<1>4. \A f \in Forms : Current(f)' = Current(f)
  BY <1>1 DEF Current
<1>5. Positions' /\ Untouched' /\ Confirmed' /\ RetriesAccepted'
  BY <1>1, <1>2, <1>4 DEF IInv, Positions, Untouched, Confirmed, RetriesAccepted
<1>6. Asked'
  <2>1. \A q \in reqs \ {r} : q.kind = "reserve" => sess'[q.file] = NoSess
    BY <1>2, RequestFacts DEF Orderly
  <2> QED  BY <2>1, <1>1, <1>2, RestInOrder
<1>7. InStep'
  <2> SUFFICES ASSUME NEW f \in Forms, f = r.form, reply'[f] = a, Request(f, br[f]) = r
               PROVE  Follows(f)'
    BY <1>1, <1>2, <1>4 DEF IInv, InStep, Follows
  <2>1. CASE r.kind = "put"
    BY <2>1, <1>1, <1>2, <1>4, RequestFacts DEF IInv, InStep, Follows
  <2>2. CASE r.kind = "reserve"
    BY <2>2, <1>1, <1>2, <1>4, RequestFacts DEF IInv, InStep, Follows, Orderly
  <2>3. CASE r.kind = "final"
    BY <2>3, <1>1, <1>2, <1>4, RequestFacts DEF IInv, InStep, Follows
  <2>4. r.kind \in {"reserve", "put", "final"}
    BY RequestFacts DEF Request, Requests
  <2> QED  BY <2>1, <2>2, <2>3, <2>4
<1> QED  BY <1>2, <1>3, <1>5, <1>6, <1>7, ServerKept DEF IInv

\* The record of a file without a session.
LEMMA EmptySession ==
    /\ NoSess \in Session /\ NoSess.state = "none" /\ NoSess.data = <<>>
    /\ NoSess.expected = Absent
<1>1. <<>> \in Seq(Nat) /\ Absent \in Revisions
  BY DEF Revisions
<1>2. NoSess \in Session
  BY <1>1, Zenon DEF NoSess, Session
<1> QED  BY <1>2 DEF NoSess

\* Nothing publication relies on changes when the session of a form that no
\* endpoint holds does.
LEMMA StoreKept ==
    ASSUME IInv, NEW f \in Forms, NEW x \in Keys(f), hnd[f].pc \notin Holding,
           NEW n \in Session, sess' = [sess EXCEPT ![x] = n], n.state # "claimed",
           Len(n.data) <= Size[x], \A k \in 1..Len(n.data) : n.data[k] = k - 1,
           n.expected # Absent =>
               x \in Media /\ br[f].token # NoToken /\ n.expected = br[f].token.rev,
           br' = br, UNCHANGED storeOnly
    PROVE  /\ sess' \in [Files -> Session] /\ Positions' /\ Received' /\ Claims' /\ Shown'
           /\ Locked' /\ Confirmed' /\ Kept' /\ RetriesAccepted'
<1>1. /\ x \in Files /\ sess'[x] = n /\ sess' \in [Files -> Session]
      /\ \A y \in Files \ {x} : sess'[y] = sess[y]
      /\ \A g \in Forms \ {f} : \A y \in Keys(g) : y \in Files /\ sess'[y] = sess[y]
  BY FileFacts DEF IInv, Typed
<1>2. /\ hnd' = hnd /\ dest' = dest /\ ctime' = ctime /\ lock' = lock /\ intruded' = intruded
      /\ boot' = boot /\ foreign' = foreign
  BY DEF storeOnly
<1>3. Positions' /\ RetriesAccepted'
  BY DEF IInv, Positions, RetriesAccepted, Current
<1>4. Received'
  BY <1>1 DEF IInv, Received
<1>5. Claims'
  BY <1>1, <1>2, FileFacts DEF IInv, Claims
<1>6. Shown' /\ Locked'
  BY <1>2 DEF IInv, Shown, Exhibits, Visible, Whole, Locked
<1>7. Confirmed'
  BY <1>1, FileFacts DEF IInv, Confirmed
<1>8. Kept'
  <2>1. \A g \in Forms : hnd[g].pc \in Consuming =>
            g # f /\ Expected(g)' = Expected(g) /\ Replaced(g)' = Replaced(g)
    BY <1>1, MediaFacts DEF IInv, Shown, Exhibits, Visible, Expected, Replaced, Holding, Consuming, Publishing
  <2> QED  BY <2>1, <1>2 DEF IInv, Kept, Keeps, Consuming, Publishing
<1> QED  BY <1>1, <1>3, <1>4, <1>5, <1>6, <1>7, <1>8

\* A reservation: the consented revision is the one the browser confirmed.
LEMMA CreateStep ==
    ASSUME IInv, NEW r \in reqs, CreateUpload(r)
    PROVE  IInv'
<1> DEFINE f == r.form
           x == r.file
           e == IF r.file \in Media THEN Revision ELSE Absent
           n == [NoSess EXCEPT !.state = "open", !.expected = e]
<1>1. /\ r.kind = "reserve" /\ f \in Forms /\ x \in Files /\ x \in Keys(f) /\ Orderly(r)
      /\ Size[x] \in Nat
  BY RequestFacts, FileFacts DEF CreateUpload
<1>2. UNCHANGED storeOnly
  BY DEF CreateUpload
<1>3. Token(f) \in Tokens /\ e \in Revisions
  <2>1. Revision \in Revisions
    BY DEF IInv, Typed, Revision, Revisions
  <2>2. boot \in Nat
    BY BoundAssumption DEF IInv, Typed
  <2> QED  BY <1>1, <2>1, <2>2 DEF Token, Tokens, Revisions
<1>4. CASE e # Absent /\ ~Consented(r) /\ UNCHANGED sess
           /\ Answer(r, [status |-> "overwrite_required", token |-> Token(f)])
  <2>1. [status |-> "overwrite_required", token |-> Token(f)] \in Replies
    BY <1>3 DEF Replies
  <2>2. x \in Media
    BY <1>4
  <2> QED  BY <1>1, <1>2, <1>4, <2>1, <2>2, AnswerOnly
<1>5. CASE Answer(r, [status |-> "error"]) /\ UNCHANGED sess
  <2>1. [status |-> "error"] \in Replies
    BY DEF Replies
  <2> QED  BY <1>1, <1>2, <1>5, <2>1, AnswerOnly
<1>6. CASE /\ e = Absent \/ Consented(r)
           /\ sess' = [sess EXCEPT ![x] = n] /\ Answer(r, [status |-> "ok"])
  <2>1. [status |-> "ok"] \in Replies
    BY DEF Replies
  <2>2. /\ br' = br /\ reqs' = reqs \ {r} /\ reply' \in [Forms -> Replies]
        /\ \A g \in Forms : \/ reply'[g] = reply[g]
                            \/ g = f /\ reply'[g] = [status |-> "ok"] /\ Request(g, br[g]) = r
    BY <1>6, <2>1, AnswerFacts
  <2>3. n.state = "open" /\ n.data = <<>> /\ n.expected = e /\ n \in Session
    BY <1>3, EmptySession DEF Session
  <2>4. e # Absent => x \in Media /\ br[f].token # NoToken /\ e = br[f].token.rev
    <3> SUFFICES ASSUME e # Absent PROVE x \in Media /\ br[f].token # NoToken /\ e = br[f].token.rev
      OBVIOUS
    <3>1. x \in Media /\ e = Revision /\ br[f].token = Token(f)
      BY <1>1, <1>6 DEF Consented, Orderly
    <3> QED  BY <3>1 DEF Token, NoToken
  <2> HIDE DEF n, e
  <2>5. hnd[f].pc = "none" /\ hnd[f].pc \notin Holding
    BY <1>1 DEF Orderly, Holding
  <2>6. /\ sess' \in [Files -> Session] /\ Positions' /\ Received' /\ Claims' /\ Shown'
        /\ Locked' /\ Confirmed' /\ Kept' /\ RetriesAccepted'
    <3>1. Len(n.data) <= Size[x] /\ \A k \in 1..Len(n.data) : n.data[k] = k - 1
      BY <1>1, <2>3
    <3> QED  BY <1>1, <1>2, <1>6, <2>2, <2>3, <2>4, <2>5, <3>1, StoreKept
  <2>7. /\ sess'[x] = n /\ \A y \in Files \ {x} : sess'[y] = sess[y]
        /\ \A g \in Forms \ {f} : \A y \in Keys(g) : sess'[y] = sess[y]
    BY <1>1, <1>6, FileFacts DEF IInv, Typed
  <2>8. Typed'
    BY <1>2, <2>2, <2>6 DEF IInv, Typed, storeOnly
  <2>9. \A g \in Forms : /\ Current(g)' = Current(g) /\ Current(g) \in Keys(g)
                         /\ br[g].i \in 1..Len(FilesOf[g])
    BY <2>2, FileFacts DEF Current, IInv, Positions
  <2>10. Asked'
    <3>1. \A q \in reqs \ {r} : q.kind = "reserve" => sess'[q.file] = NoSess
      <4> SUFFICES ASSUME NEW q \in reqs \ {r}, q.kind = "reserve" PROVE sess'[q.file] = NoSess
        OBVIOUS
      <4>1. q.form # f
        BY <1>1, OneReservation
      <4>2. q.form \in Forms /\ q.file \in Keys(q.form) /\ sess[q.file] = NoSess
        BY RequestFacts DEF Orderly
      <4> QED  BY <2>7, <4>1, <4>2
    <3>2. hnd' = hnd
      BY <1>2 DEF storeOnly
    <3> QED  BY <2>2, <3>1, <3>2, RestInOrder
  <2>11. Untouched'
    <3>1. x = Current(f) /\ br[f].pc # "idle"
      BY <1>1 DEF Orderly
    <3> QED  BY <1>1, <2>2, <2>7, <2>9, <3>1, FileFacts DEF IInv, Untouched, Current
  <2>12. InStep'
    <3>1. /\ x = Current(f) /\ br[f].pc \in {"reserve", "done"}
          /\ br[f].pc = "reserve" => reply'[f].status # "overwrite_required"
      BY <1>1, <2>2 DEF Orderly, Silent
    <3>2. hnd' = hnd
      BY <1>2 DEF storeOnly
    <3>3. Follows(f)'
      BY <1>1, <2>2, <2>3, <2>7, <2>9, <3>1, <3>2, <2>5 DEF Follows
    <3>4. ASSUME NEW g \in Forms, g # f PROVE Follows(g)'
      BY <1>1, <2>2, <2>7, <2>9, <3>2, <3>4 DEF IInv, InStep, Follows
    <3> QED  BY <3>3, <3>4 DEF InStep
  <2> QED  BY <2>6, <2>8, <2>10, <2>11, <2>12 DEF IInv
<1> QED  BY <1>4, <1>5, <1>6 DEF CreateUpload

\* A chunk: the session moves by the chunk the browser waits for, or not at all.
LEMMA AppendStep ==
    ASSUME IInv, NEW r \in reqs, AppendChunk(r)
    PROVE  IInv'
<1> DEFINE f == r.form
           x == r.file
           have == Len(sess[r.file].data)
<1>1. /\ r.kind = "put" /\ f \in Forms /\ x \in Files /\ x \in Keys(f) /\ Orderly(r)
      /\ r.pos \in Nat /\ Size[x] \in Nat /\ sess[x] \in Session /\ have \in Nat
      /\ sess[x].data \in Seq(Nat) /\ r.pos < Size[x]
  <2>1. /\ r.kind = "put" /\ f \in Forms /\ x \in Files /\ x \in Keys(f) /\ Orderly(r)
        /\ r.pos \in Nat /\ Size[x] \in Nat
    BY RequestFacts, FileFacts DEF AppendChunk
  <2>2. sess[x] \in Session /\ sess[x].data \in Seq(Nat)
    BY <2>1 DEF IInv, Typed, Session
  <2> QED  BY <2>1, <2>2 DEF Orderly
<1>2. UNCHANGED storeOnly
  BY DEF AppendChunk
<1>3. Request(f, br[f]) = r =>
          /\ br[f].pc = "put" /\ x = Current(f) /\ r.pos = br[f].off /\ br[f].off \in Nat
          /\ sess[x].state = "open" => have \in {br[f].off, br[f].off + 1}
  BY <1>1, RequestFacts DEF IInv, InStep, Follows
<1>4. \A k \in 1..have : sess[x].data[k] = k - 1
  BY <1>1 DEF IInv, Received
<1>5. CASE ~Usable(x) /\ Answer(r, [status |-> "404"]) /\ UNCHANGED sess
  <2>1. [status |-> "404"] \in Replies
    BY DEF Replies
  <2> QED  BY <1>1, <1>2, <1>5, <2>1, AnswerOnly
<1>6. CASE /\ Usable(x) /\ r.pos < have /\ UNCHANGED sess
           /\ Answer(r, [status |-> "ok", offset |-> have])
  <2>1. [status |-> "ok", offset |-> have] \in Replies
    BY <1>1 DEF Replies
  <2>2. Request(f, br[f]) = r => have = br[f].off + 1
    BY <1>1, <1>3, <1>6 DEF Usable
  <2> QED  BY <1>1, <1>2, <1>6, <2>1, <2>2, AnswerOnly
<1>7. CASE Answer(r, [status |-> "503"]) /\ UNCHANGED sess
  <2>1. [status |-> "503"] \in Replies
    BY DEF Replies
  <2> QED  BY <1>1, <1>2, <1>7, <2>1, AnswerOnly
<1>8. CASE /\ Usable(x) /\ (r.pos > have \/ (r.pos < have /\ sess[x].data[r.pos + 1] # r.pos))
           /\ Answer(r, [status |-> "409"]) /\ UNCHANGED sess
  <2>1. [status |-> "409"] \in Replies
    BY DEF Replies
  <2>2. r.pos > have
    <3>1. ASSUME r.pos < have PROVE sess[x].data[r.pos + 1] = r.pos
      <4>1. PICK k \in 1..have : k = r.pos + 1
        BY <1>1, <3>1
      <4>2. sess[x].data[k] = k - 1
        BY <1>4, <4>1
      <4> QED  BY <1>1, <4>1, <4>2
    <3> QED  BY <1>8, <3>1
  <2>3. Request(f, br[f]) # r
    BY <1>1, <1>3, <1>8, <2>2 DEF Usable
  <2> QED  BY <1>1, <1>2, <1>8, <2>1, <2>3, AnswerOnly
<1>9. CASE /\ Usable(x) /\ r.pos = have
           /\ sess' = [sess EXCEPT ![x].data = Append(@, r.pos)]
           /\ Answer(r, [status |-> "ok", offset |-> have + 1])
  <2> DEFINE d == Append(sess[x].data, r.pos)
             n == [sess[x] EXCEPT !.data = d]
             a == [status |-> "ok", offset |-> have + 1]
  <2>1. a \in Replies
    BY <1>1 DEF Replies
  <2>2. /\ br' = br /\ reqs' = reqs \ {r} /\ reply' \in [Forms -> Replies]
        /\ \A g \in Forms : \/ reply'[g] = reply[g]
                            \/ g = f /\ reply'[g] = a /\ Request(g, br[g]) = r
    BY <1>9, <2>1, AnswerFacts
  <2>3. d \in Seq(Nat) /\ Len(d) = have + 1 /\ \A k \in 1..Len(d) : d[k] = k - 1
    BY <1>1, <1>4, <1>9
  <2>4. /\ n \in Session /\ n.data = d /\ n.state = "open" /\ n.expected = sess[x].expected
        /\ sess' = [sess EXCEPT ![x] = n] /\ sess[x].state = "open"
    <3> HIDE DEF d
    <3> QED  BY <1>1, <1>9, <2>3 DEF Usable, Session, IInv, Typed, d
  <2> HIDE DEF n, d
  <2>5. hnd[f].pc \notin Holding
    BY <1>1, <2>4 DEF IInv, Claims
  <2>6. /\ sess' \in [Files -> Session] /\ Positions' /\ Received' /\ Claims' /\ Shown'
        /\ Locked' /\ Confirmed' /\ Kept' /\ RetriesAccepted'
    <3>1. Len(n.data) <= Size[x] /\ \A k \in 1..Len(n.data) : n.data[k] = k - 1
      BY <1>1, <1>9, <2>3, <2>4
    <3>2. n.expected # Absent =>
             x \in Media /\ br[f].token # NoToken /\ n.expected = br[f].token.rev
      BY <1>1, <2>4 DEF IInv, Confirmed
    <3> QED  BY <1>1, <1>2, <2>2, <2>4, <2>5, <3>1, <3>2, StoreKept
  <2>7. /\ sess'[x] = n /\ \A y \in Files \ {x} : sess'[y] = sess[y]
        /\ \A g \in Forms \ {f} : \A y \in Keys(g) : sess'[y] = sess[y]
    BY <1>1, <2>4, FileFacts DEF IInv, Typed
  <2>8. Typed'
    BY <1>2, <2>2, <2>6 DEF IInv, Typed, storeOnly
  <2>9. \A g \in Forms : /\ Current(g)' = Current(g) /\ Current(g) \in Keys(g)
                         /\ br[g].i \in 1..Len(FilesOf[g])
    BY <2>2, FileFacts DEF Current, IInv, Positions
  <2>10. Asked'
    <3>1. \A q \in reqs \ {r} : q.kind = "reserve" => sess'[q.file] = NoSess
      <4> SUFFICES ASSUME NEW q \in reqs \ {r}, q.kind = "reserve" PROVE sess'[q.file] = NoSess
        OBVIOUS
      <4>1. q.file \in Files /\ sess[q.file] = NoSess
        BY RequestFacts DEF Orderly
      <4>2. q.file # x
        BY <2>4, <4>1, EmptySession
      <4> QED  BY <2>7, <4>1, <4>2
    <3>2. hnd' = hnd
      BY <1>2 DEF storeOnly
    <3> QED  BY <2>2, <3>1, <3>2, RestInOrder
  <2>11. Untouched'
    BY <1>1, <2>2, <2>4, <2>7, FileFacts, EmptySession DEF IInv, Untouched
  <2>12. InStep'
    <3>1. hnd' = hnd
      BY <1>2 DEF storeOnly
    <3>2. ASSUME NEW g \in Forms, x # Current(g) PROVE Follows(g)'
      <4>1. sess'[Current(g)] = sess[Current(g)] /\ Follows(g) /\ reply'[g] = reply[g]
        BY <1>1, <1>3, <2>2, <2>7, <2>9, <3>2, FileFacts DEF IInv, InStep
      <4> QED  BY <4>1, <2>2, <2>9, <3>1 DEF Follows
    <3>3. ASSUME x = Current(f) PROVE Follows(f)'
      <4>1. br[f].pc # "reserve" /\ br[f].off \in Nat
        BY <1>1, <3>3 DEF Orderly, IInv, Typed, Browsers
      <4>2. CASE br[f].pc = "put"
        <5>1. have = br[f].off /\ Follows(f)
          BY <1>1, <1>9, <2>4, <3>3, <4>1, <4>2 DEF Orderly, IInv, InStep, Follows
        <5>2. Len(n.data) = br[f].off + 1 /\ a.status = "ok" /\ a.offset = br[f].off + 1
          BY <2>3, <2>4, <5>1
        <5> HIDE DEF a
        <5> QED  BY <1>1, <2>2, <2>7, <2>9, <3>1, <3>3, <4>2, <5>1, <5>2 DEF Follows
      <4>3. CASE br[f].pc # "put"
        BY <1>1, <2>2, <4>1, <4>3, <3>1 DEF IInv, InStep, Follows
      <4> QED  BY <4>2, <4>3
    <3>4. \A g \in Forms : x = Current(g) => g = f
      BY <1>1, <2>9, FileFacts
    <3> QED  BY <3>2, <3>3, <3>4 DEF InStep
  <2> QED  BY <2>6, <2>8, <2>10, <2>11, <2>12 DEF IInv
<1> QED  BY <1>5, <1>6, <1>7, <1>8, <1>9, Zenon DEF AppendChunk

\* Sessions that no endpoint holds go: a cancellation, or a sweep.
LEMMA DropStep ==
    ASSUME IInv, sess' \in [Files -> Session],
           \A y \in Files : \/ sess'[y] = sess[y]
                            \/ sess[y].state # "claimed" /\ sess'[y] = NoSess,
           br' = br, reply' = reply, reqs' \subseteq reqs, UNCHANGED storeOnly
    PROVE  IInv'
<1>1. /\ hnd' = hnd /\ dest' = dest /\ ctime' = ctime /\ lock' = lock /\ intruded' = intruded
      /\ boot' = boot /\ foreign' = foreign
  BY DEF storeOnly
<1>2. Typed'
  BY <1>1 DEF IInv, Typed
<1>3. \A f \in Forms : /\ Current(f)' = Current(f) /\ Current(f) \in Keys(f)
                       /\ Current(f) \in Files
  BY FileFacts DEF Current, IInv, Positions
<1>4. Positions' /\ RetriesAccepted'
  BY <1>3 DEF IInv, Positions, RetriesAccepted
<1>5. Received'
  BY EmptySession, FileFacts DEF IInv, Received
<1>6. Asked'
  <2> SUFFICES ASSUME NEW r \in reqs PROVE Orderly(r)'
    BY DEF Asked
  <2>1. Orderly(r) /\ r.form \in Forms /\ (r.kind # "final" => r.file \in Files)
    BY RequestFacts
  <2> QED  BY <2>1, <1>1, <1>3 DEF Orderly
<1>7. Untouched'
  BY FileFacts DEF IInv, Untouched
<1>8. InStep'
  <2> SUFFICES ASSUME NEW f \in Forms PROVE Follows(f)'
    BY DEF InStep
  <2>1. Follows(f)
    BY DEF IInv, InStep
  <2> QED  BY <2>1, <1>1, <1>3, EmptySession DEF Follows
<1>9. Claims'
  BY <1>1, FileFacts, EmptySession DEF IInv, Claims
<1>10. Shown' /\ Locked'
  BY <1>1 DEF IInv, Shown, Exhibits, Visible, Whole, Locked
<1>11. Confirmed'
  BY FileFacts, EmptySession DEF IInv, Confirmed
<1>12. Kept'
  <2>1. \A g \in Forms : hnd[g].pc \in Consuming =>
            Expected(g)' = Expected(g) /\ Replaced(g)' = Replaced(g)
    BY MediaFacts, FileFacts
       DEF IInv, Shown, Exhibits, Visible, Claims, Expected, Replaced, Holding, Consuming, Publishing
  <2> QED  BY <2>1, <1>1 DEF IInv, Kept, Keeps, Consuming, Publishing
<1> QED  BY <1>2, <1>4, <1>5, <1>6, <1>7, <1>8, <1>9, <1>10, <1>11, <1>12 DEF IInv

\* cancel_upload preserves the invariant.
LEMMA CancelStep ==
    ASSUME IInv, NEW r \in reqs, CancelUpload(r)
    PROVE  IInv'
<1>1. r.file \in Files
  BY RequestFacts DEF CancelUpload
<1>2. sess \in [Files -> Session]
  BY DEF IInv, Typed
<1>3. sess' \in [Files -> Session]
  BY <1>1, <1>2, EmptySession DEF CancelUpload
<1>4. \A y \in Files : \/ sess'[y] = sess[y]
                       \/ sess[y].state # "claimed" /\ sess'[y] = NoSess
  BY <1>1, <1>2 DEF CancelUpload, Usable
<1> QED  BY <1>3, <1>4, DropStep DEF CancelUpload

\* _sweep preserves the invariant.
LEMMA SweepStep ==
    ASSUME IInv, Sweep
    PROVE  IInv'
<1>1. sess \in [Files -> Session]
  BY DEF IInv, Typed
<1>2. sess' \in [Files -> Session]
  BY <1>1, EmptySession DEF Sweep
<1>3. \A y \in Files : \/ sess'[y] = sess[y]
                       \/ sess[y].state # "claimed" /\ sess'[y] = NoSess
  BY <1>1 DEF Sweep, Abandoned
<1> QED  BY <1>2, <1>3, DropStep DEF Sweep

\* Claiming takes the complete sessions of a form, and only those.
LEMMA ClaimStep ==
    ASSUME IInv, NEW r \in reqs, Claim(r)
    PROVE  IInv'
<1> DEFINE f == r.form
<1>1. r.kind = "final" /\ f \in Forms /\ Orderly(r)
  BY RequestFacts DEF Claim
<1>2. hnd[f].pc = "none" /\ br[f].pc \in {"final", "done"}
  BY <1>1 DEF Orderly
<1>3. CASE ~\A x \in Keys(f) : Complete(x)
  <2>1. [status |-> "error"] \in Replies
    BY DEF Replies
  <2> QED  BY <1>1, <1>3, <2>1, AnswerOnly DEF Claim, storeOnly
<1>4. CASE \A x \in Keys(f) : Complete(x)
  <2>1. /\ sess' = [x \in Files |-> IF x \in Keys(f)
                                    THEN [sess[x] EXCEPT !.state = "claimed"] ELSE sess[x]]
        /\ hnd' = [hnd EXCEPT ![f].pc = "stage"] /\ reqs' = reqs \ {r}
        /\ br' = br /\ reply' = reply /\ dest' = dest /\ ctime' = ctime /\ lock' = lock
        /\ intruded' = intruded /\ boot' = boot /\ foreign' = foreign
    BY <1>4 DEF Claim
  <2>2. /\ \A x \in Files : x \notin Keys(f) => sess'[x] = sess[x]
        /\ \A g \in Forms \ {f} : hnd'[g] = hnd[g] /\ \A x \in Keys(g) : sess'[x] = sess[x]
        /\ \A x \in Keys(f) : /\ x \in Files /\ sess[x].state = "open"
                              /\ Len(sess[x].data) = Size[x]
    BY <1>1, <1>4, <2>1, FileFacts DEF IInv, Typed, Complete, Usable
  <2>3. \A x \in Keys(f) : /\ sess'[x] \in Session /\ sess'[x].state = "claimed"
                           /\ sess'[x].data = sess[x].data /\ sess'[x].expected = sess[x].expected
    <3> SUFFICES ASSUME NEW x \in Keys(f)
                 PROVE  /\ sess'[x] \in Session /\ sess'[x].state = "claimed"
                        /\ sess'[x].data = sess[x].data /\ sess'[x].expected = sess[x].expected
      OBVIOUS
    <3>1. sess[x] \in Session /\ sess'[x] = [sess[x] EXCEPT !.state = "claimed"]
      BY <2>1, <2>2 DEF IInv, Typed
    <3> QED  BY <3>1 DEF Session
  <2>4. /\ hnd'[f] \in Handlers /\ hnd'[f].pc = "stage" /\ hnd'[f].staged = hnd[f].staged
        /\ hnd'[f].backup = hnd[f].backup /\ hnd' \in [Forms -> Handlers]
    <3>1. hnd[f] \in Handlers /\ hnd'[f] = [hnd[f] EXCEPT !.pc = "stage"]
      BY <1>1, <2>1 DEF IInv, Typed
    <3>2. hnd'[f] \in Handlers /\ hnd'[f].pc = "stage" /\ hnd'[f].staged = hnd[f].staged
          /\ hnd'[f].backup = hnd[f].backup
      BY <3>1 DEF Handlers
    <3> QED  BY <1>1, <2>1, <3>2 DEF IInv, Typed
  <2>5. sess' \in [Files -> Session]
    <3>1. \A x \in Files : sess'[x] \in Session
      BY <2>2, <2>3 DEF IInv, Typed
    <3> QED  BY <2>1, <3>1
  <2>6. Typed'
    BY <2>1, <2>4, <2>5 DEF IInv, Typed
  <2>7. \A g \in Forms : /\ Current(g)' = Current(g) /\ Current(g) \in Keys(g)
                         /\ Current(g) \in Files
    BY <2>1, FileFacts DEF Current, IInv, Positions
  <2>8. Positions' /\ RetriesAccepted'
    BY <2>1, <2>7 DEF IInv, Positions, RetriesAccepted
  <2>9. Received'
    BY <2>2, <2>3 DEF IInv, Received
  <2>10. Asked'
    <3> SUFFICES ASSUME NEW q \in reqs, q # r PROVE Orderly(q)'
      BY <2>1 DEF Asked
    <3>1. Orderly(q) /\ q.form \in Forms /\ (q.kind # "final" => q.file \in Keys(q.form))
      BY RequestFacts
    <3>2. CASE q.form = f
      <4>1. q.kind # "reserve"
        BY <1>1, <3>1, <3>2 DEF Orderly
      <4>2. q.kind # "final"
        <5>1. ASSUME q.kind = "final" PROVE FALSE
          <6>1. q \in [kind : {"final"}, form : Forms] /\ r \in [kind : {"final"}, form : Forms]
            BY <1>1, <5>1, RequestFacts DEF Requests
          <6> QED  BY <1>1, <3>2, <5>1, <6>1
        <5> QED  BY <5>1
      <4> QED  BY <3>1, <4>1, <4>2, <2>1, <2>7 DEF Orderly
    <3>3. CASE q.form # f
      BY <3>1, <3>3, <2>1, <2>2, <2>7 DEF Orderly
    <3> QED  BY <3>2, <3>3
  <2>11. Untouched'
    BY <1>1, <1>2, <2>1, <2>2, FileFacts, EmptySession DEF IInv, Untouched
  <2>12. InStep'
    <3>1. Follows(f)'
      BY <1>1, <1>2, <2>1 DEF Follows
    <3>2. ASSUME NEW g \in Forms, g # f PROVE Follows(g)'
      <4>1. /\ Follows(g) /\ hnd'[g] = hnd[g] /\ sess'[Current(g)] = sess[Current(g)]
            /\ Current(g)' = Current(g) /\ br'[g] = br[g] /\ reply'[g] = reply[g]
        BY <3>2, <2>1, <2>2, <2>7 DEF IInv, InStep
      <4> QED  BY <4>1 DEF Follows
    <3> QED  BY <3>1, <3>2 DEF InStep
  <2>13. Claims'
    BY <1>1, <2>2, <2>3, <2>4 DEF IInv, Claims, Holding
  <2>14. Shown'
    BY <1>1, <1>2, <2>1, <2>2, <2>4 DEF IInv, Shown, Exhibits, Visible, Whole, Consuming, Publishing
  <2>15. Locked'
    BY <1>1, <1>2, <2>1, <2>2, <2>4 DEF IInv, Locked, Publishing
  <2>16. Confirmed'
    <3>1. \A g \in Forms : \A x \in Keys(g) : sess'[x].expected = sess[x].expected
      BY <1>1, <2>2, <2>3
    <3> QED  BY <3>1, <2>1 DEF IInv, Confirmed
  <2>17. Kept'
    <3>1. \A g \in Forms : hnd'[g].pc \in Consuming =>
              g # f /\ Expected(g)' = Expected(g) /\ Replaced(g)' = Replaced(g)
      BY <2>2, <2>4, MediaFacts DEF IInv, Shown, Exhibits, Visible, Expected, Replaced, Consuming, Publishing
    <3> QED  BY <3>1, <1>1, <1>2, <2>1, <2>2, <2>4 DEF IInv, Kept, Keeps, Consuming, Publishing
  <2> QED  BY <2>6, <2>8, <2>9, <2>10, <2>11, <2>12, <2>13, <2>14, <2>15, <2>16, <2>17 DEF IInv
<1> QED  BY <1>3, <1>4

-----------------------------------------------------------------------------
(* Steps of the consuming endpoint. *)

\* Links and unlinks keep the change times typed.
LEMMA TouchTypes == ASSUME Typed, NEW as PROVE Touch(as) \in [Artifact -> Nat]
<1>1. \A a \in Artifact : ctime[a] \in Nat /\ ctime[a] + 1 \in Nat
  BY DEF Typed
<1> QED  BY <1>1 DEF Touch

\* An endpoint that goes on leaves the transport as it is.
LEMMA TransportKept ==
    ASSUME IInv, NEW f \in Forms, NEW h \in Handlers, hnd' = [hnd EXCEPT ![f] = h],
           hnd[f].pc \in Holding, h.pc \in Holding, UNCHANGED hndOnly
    PROVE  /\ Positions' /\ Received' /\ Asked' /\ Untouched' /\ InStep' /\ Claims'
           /\ Confirmed' /\ RetriesAccepted' /\ hnd' \in [Forms -> Handlers]
           /\ hnd'[f] = h /\ (\A g \in Forms \ {f} : hnd'[g] = hnd[g])
           /\ \A g \in Forms : Expected(g)' = Expected(g) /\ Replaced(g)' = Replaced(g)
<1>1. /\ br' = br /\ reqs' = reqs /\ reply' = reply /\ sess' = sess
      /\ \A g \in Forms : Current(g)' = Current(g)
  BY DEF hndOnly, Current
<1>2. /\ hnd' \in [Forms -> Handlers] /\ hnd'[f] = h /\ \A g \in Forms \ {f} : hnd'[g] = hnd[g]
  BY DEF IInv, Typed
<1>3. \A g \in Forms : /\ hnd'[g].pc = "none" <=> hnd[g].pc = "none"
                       /\ hnd'[g].pc \in Holding <=> hnd[g].pc \in Holding
  BY <1>2 DEF Holding
<1>4. Positions' /\ Received' /\ Untouched' /\ Confirmed' /\ RetriesAccepted'
  BY <1>1 DEF IInv, Positions, Received, Untouched, Confirmed, RetriesAccepted
<1>5. Asked'
  <2> SUFFICES ASSUME NEW r \in reqs PROVE Orderly(r)'
    BY <1>1 DEF Asked
  <2>1. Orderly(r) /\ r.form \in Forms
    BY RequestFacts
  <2> QED  BY <1>1, <1>3, <2>1 DEF Orderly
<1>6. InStep'
  BY <1>1, <1>3 DEF IInv, InStep, Follows
<1>7. Claims'
  BY <1>1, <1>3 DEF IInv, Claims
<1> QED  BY <1>1, <1>2, <1>4, <1>5, <1>6, <1>7 DEF Expected, Replaced

\* An endpoint that only moves on.
LEMMA GotoFacts ==
    ASSUME IInv, NEW f \in Forms,
           NEW c \in {"publish", "link", "replace", "audit", "restore"} \cup Ended,
           Goto(f, c)
    PROVE  \E h \in Handlers :
               /\ hnd' = [hnd EXCEPT ![f] = h] /\ h.pc = c
               /\ h.backup = hnd[f].backup /\ h.staged = hnd[f].staged
<1> DEFINE h == [hnd[f] EXCEPT !.pc = c]
<1>1. hnd \in [Forms -> Handlers] /\ hnd[f] \in Handlers
  BY DEF IInv, Typed
<1>2. h \in Handlers /\ h.pc = c /\ h.backup = hnd[f].backup /\ h.staged = hnd[f].staged
  BY <1>1 DEF Handlers
<1>3. hnd' = [hnd EXCEPT ![f] = h]
  BY <1>1 DEF Goto
<1> HIDE DEF h
<1> QED  BY <1>2, <1>3

\* Copying and validating the upload.
LEMMA StageStep ==
    ASSUME IInv, NEW f \in Forms, Stage(f)
    PROVE  IInv'
<1>1. /\ hnd[f] \in Handlers /\ hnd[f].pc = "stage" /\ UNCHANGED hndOnly
      /\ dest' = dest /\ ctime' = ctime /\ lock' = lock /\ intruded' = intruded
      /\ boot' = boot /\ foreign' = foreign
  BY DEF Stage, At, IInv, Typed, hndOnly
<1>2. MediaOf(f) # {} => /\ sess[TheMedia(f)].data \in Seq(Nat)
                         /\ sess[TheMedia(f)].data = [k \in 1..Size[TheMedia(f)] |-> k - 1]
  <2> SUFFICES ASSUME MediaOf(f) # {}
               PROVE  /\ sess[TheMedia(f)].data \in Seq(Nat)
                      /\ sess[TheMedia(f)].data = [k \in 1..Size[TheMedia(f)] |-> k - 1]
    OBVIOUS
  <2> DEFINE x == TheMedia(f)
             d == sess[x].data
  <2>1. x \in Keys(f) /\ x \in Files
    BY MediaFacts, FileFacts
  <2>2. d \in Seq(Nat)
    BY <2>1 DEF IInv, Typed, Session
  <2>3. Len(d) = Size[x] /\ \A k \in 1..Len(d) : d[k] = k - 1
    BY <1>1, <2>1 DEF IInv, Claims, Received, Holding
  <2> HIDE DEF d, x
  <2>4. d = [k \in 1..Size[x] |-> k - 1]
    BY <2>2, <2>3
  <2> QED  BY <2>2, <2>4 DEF d, x
<1>3. PICK h \in Handlers :
          /\ hnd' = [hnd EXCEPT ![f] = h] /\ h.backup = hnd[f].backup
          /\ \/ MediaOf(f) # {} /\ h.pc = "publish" /\ h.staged = sess[TheMedia(f)].data
             \/ h.pc \in {"saved", "failed"} /\ h.staged = hnd[f].staged
  <2>1. CASE /\ MediaOf(f) # {}
             /\ hnd' = [hnd EXCEPT ![f].pc = "publish", ![f].staged = sess[TheMedia(f)].data]
    <3> DEFINE h == [hnd[f] EXCEPT !.pc = "publish", !.staged = sess[TheMedia(f)].data]
    <3>1. h \in Handlers /\ h.pc = "publish" /\ h.staged = sess[TheMedia(f)].data
          /\ h.backup = hnd[f].backup
      BY <1>1, <1>2, <2>1 DEF Handlers
    <3>2. hnd' = [hnd EXCEPT ![f] = h]
      BY <2>1 DEF IInv, Typed
    <3> HIDE DEF h
    <3> QED  BY <2>1, <3>1, <3>2
  <2>2. ASSUME NEW c \in {"saved", "failed"}, Goto(f, c)
        PROVE  \E h \in Handlers :
                  /\ hnd' = [hnd EXCEPT ![f] = h] /\ h.backup = hnd[f].backup
                  /\ h.pc \in {"saved", "failed"} /\ h.staged = hnd[f].staged
    BY <1>1, <2>2, GotoFacts
  <2> QED  BY <2>1, <2>2 DEF Stage
<1>4. /\ Positions' /\ Received' /\ Asked' /\ Untouched' /\ InStep' /\ Claims'
      /\ Confirmed' /\ RetriesAccepted' /\ hnd' \in [Forms -> Handlers]
      /\ hnd'[f] = h /\ (\A g \in Forms \ {f} : hnd'[g] = hnd[g])
      /\ \A g \in Forms : Expected(g)' = Expected(g) /\ Replaced(g)' = Replaced(g)
  BY <1>1, <1>3, TransportKept DEF Holding
<1>5. Typed'
  BY <1>1, <1>4 DEF IInv, Typed, hndOnly
<1>6. Shown'
  <2>1. \A g \in Forms : Visible(g)' <=> Visible(g)
    BY <1>1, <1>3, <1>4 DEF Visible
  <2>2. Exhibits(f)'
    BY <2>1, <1>1, <1>2, <1>3, <1>4 DEF IInv, Shown, Exhibits, Whole, Consuming, Publishing
  <2>3. ASSUME NEW g \in Forms, g # f PROVE Exhibits(g)'
    BY <2>1, <2>3, <1>4 DEF IInv, Shown, Exhibits, Whole
  <2> QED  BY <2>2, <2>3 DEF Shown
<1>7. Locked'
  BY <1>1, <1>3, <1>4 DEF IInv, Locked, Publishing
<1>8. Kept'
  BY <1>1, <1>3, <1>4 DEF IInv, Kept, Keeps
<1> QED  BY <1>4, <1>5, <1>6, <1>7, <1>8 DEF IInv

\* A step of the endpoint that holds _LOCK, takes it or gives it back.
LEMMA PublishStep ==
    ASSUME IInv, NEW f \in Forms, NEW h \in Handlers, hnd' = [hnd EXCEPT ![f] = h],
           h.staged = hnd[f].staged, hnd[f].pc \in Consuming,
           h.pc \in Publishing \cup Ended,
           h.pc \in {"link", "replace"} => hnd[f].pc \in {"publish", "link"} /\ dest' = dest,
           hnd[f].pc = "publish" => lock = "free",
           lock' = (IF h.pc \in Publishing THEN f ELSE "free"),
           intruded' \in BOOLEAN, ctime' \in [Artifact -> Nat], UNCHANGED hndOnly,
           dest' \in {dest, hnd[f].backup, Mine(f)}, h.backup # Mine(f),
           h.backup \in {Absent, dest, hnd[f].backup}, Keeps(f)'
    PROVE  IInv'
<1>1. /\ Positions' /\ Received' /\ Asked' /\ Untouched' /\ InStep' /\ Claims'
      /\ Confirmed' /\ RetriesAccepted' /\ hnd' \in [Forms -> Handlers]
      /\ hnd'[f] = h /\ (\A g \in Forms \ {f} : hnd'[g] = hnd[g])
      /\ \A g \in Forms : Expected(g)' = Expected(g) /\ Replaced(g)' = Replaced(g)
  <2>1. hnd[f].pc \in Holding /\ h.pc \in Holding
    BY DEF Holding, Consuming, Publishing
  <2> QED  BY <2>1, TransportKept
<1>2. MediaOf(f) # {} /\ Whole(f) /\ Mine(f) \in Artifact
  BY MediaFacts DEF IInv, Shown, Exhibits
<1>3. dest' \in Artifact \cup {Absent}
  <2>1. dest \in Artifact \cup {Absent} /\ hnd[f].backup \in Artifact \cup {Absent}
    BY DEF IInv, Typed, Handlers
  <2> QED  BY <1>2, <2>1
<1>4. \A g \in Forms \ {f} : hnd[g].pc \notin Publishing
  BY FormAssumption DEF IInv, Locked, Consuming
<1>5. Typed'
  <2>1. lock' \in Forms \cup {"free"}
    OBVIOUS
  <2> QED  BY <1>1, <1>3, <2>1 DEF IInv, Typed, hndOnly
<1>6. Locked'
  BY <1>1, <1>4, FormAssumption DEF Locked
<1>7. Kept'
  <2>1. ASSUME NEW g \in Forms, g # f PROVE Keeps(g)'
    BY <2>1, <1>1, <1>4 DEF IInv, Kept, Keeps, Publishing
  <2> QED  BY <2>1 DEF Kept
<1>8. \A g \in Forms \ {f} : MediaOf(g) # {} /\ Visible(g)' => Visible(g)
  BY <1>1, <1>2, MediaFacts DEF Visible
<1>9. h.pc \in {"link", "replace"} => ~Visible(f)'
  <2> SUFFICES ASSUME h.pc \in {"link", "replace"} PROVE ~Visible(f)'
    OBVIOUS
  <2>1. ~Visible(f)
    BY <1>2 DEF IInv, Shown, Exhibits
  <2> QED  BY <2>1, <1>1 DEF Visible
<1>10. Shown'
  <2>1. Exhibits(f)'
    BY <1>1, <1>2, <1>9 DEF Exhibits, Whole, Publishing
  <2>2. ASSUME NEW g \in Forms, g # f PROVE Exhibits(g)'
    BY <2>2, <1>1, <1>8 DEF IInv, Shown, Exhibits, Whole
  <2> QED  BY <2>1, <2>2 DEF Shown
<1> QED  BY <1>1, <1>5, <1>6, <1>7, <1>10 DEF IInv

\* The six steps of publish.
LEMMA PublicationStep ==
    ASSUME IInv, NEW f \in Forms,
           \/ CheckRevision(f) \/ LinkNew(f) \/ LinkBackup(f) \/ Replace(f) \/ Audit(f)
           \/ Restore(f)
    PROVE  IInv'
<1>1. /\ hnd[f] \in Handlers /\ dest \in Artifact \cup {Absent} /\ ctime \in [Artifact -> Nat]
      /\ intruded \in BOOLEAN /\ \A as : Touch(as) \in [Artifact -> Nat]
  BY TouchTypes DEF IInv, Typed
<1>2. hnd[f].pc \in Consuming /\ UNCHANGED hndOnly
  BY DEF CheckRevision, LinkNew, LinkBackup, Replace, Audit, Restore, At, Consuming, Publishing
<1>3. /\ MediaOf(f) # {} /\ Mine(f) # Absent /\ hnd[f].backup # Mine(f)
      /\ hnd[f].pc \in {"publish", "link"} => dest # Mine(f)
  BY <1>2, MediaFacts DEF IInv, Shown, Exhibits, Visible
<1>4. Keeps(f) /\ (hnd[f].pc \in Publishing => lock = f)
  BY DEF IInv, Kept, Locked
<1>5. Expected(f)' = Expected(f) /\ Replaced(f)' = Replaced(f)
  BY <1>2 DEF hndOnly, Expected, Replaced
<1>6. ASSUME NEW c \in Publishing \cup Ended, Goto(f, c),
             c \in {"link", "replace"} => hnd[f].pc \in {"publish", "link"} /\ dest' = dest,
             hnd[f].pc = "publish" => lock = "free",
             lock' = (IF c \in Publishing THEN f ELSE "free"),
             intruded' \in BOOLEAN, ctime' \in [Artifact -> Nat],
             dest' \in {dest, hnd[f].backup, Mine(f)},
             c = "link" => hnd[f].backup = Absent /\ (intruded' \/ dest' = Replaced(f)),
             c = "replace" => FALSE,
             c \in {"audit", "restore"} =>
                 hnd[f].backup = Replaced(f) /\ (intruded' \/ dest' = Mine(f))
      PROVE  IInv'
  <2>1. PICK h \in Handlers : /\ hnd' = [hnd EXCEPT ![f] = h] /\ h.pc = c
                              /\ h.backup = hnd[f].backup /\ h.staged = hnd[f].staged
    BY <1>6, GotoFacts DEF Publishing
  <2>2. hnd'[f] = h
    BY <2>1 DEF IInv, Typed
  <2>3. Keeps(f)'
    BY <1>5, <1>6, <2>1, <2>2 DEF Keeps, Publishing
  <2> QED  BY <1>2, <1>3, <1>6, <2>1, <2>3, PublishStep
<1>7. CASE CheckRevision(f)
  <2>1. /\ hnd[f].pc = "publish" /\ lock = "free" /\ dest' = dest /\ ctime' = ctime
        /\ hnd[f].backup = Absent
    BY <1>4, <1>7 DEF CheckRevision, At, Keeps
  <2>2. CASE Revision = Expected(f)
    <3>1. Goto(f, "link") /\ lock' = f /\ intruded' = FALSE
      BY <1>7, <2>2 DEF CheckRevision
    <3>2. dest = Replaced(f)
      BY <2>2 DEF Revision, Replaced, Absent
    <3> QED  BY <1>1, <1>6, <2>1, <3>1, <3>2 DEF Publishing
  <2>3. CASE Revision # Expected(f)
    <3>1. Goto(f, "failed") /\ lock' = lock /\ intruded' = intruded
      BY <1>7, <2>3 DEF CheckRevision
    <3> QED  BY <1>1, <1>6, <2>1, <3>1 DEF Publishing
  <2> QED  BY <2>2, <2>3
<1>8. CASE LinkNew(f)
  <2>1. /\ hnd[f].pc = "link" /\ Expected(f) = Absent /\ intruded' = intruded
        /\ hnd[f].backup = Absent /\ lock = f
    BY <1>4, <1>8 DEF LinkNew, At, Keeps, Publishing
  <2>2. CASE dest' = Mine(f) /\ ctime' = Touch({Mine(f)}) /\ Goto(f, "audit") /\ lock' = lock
    BY <1>1, <1>6, <2>1, <2>2 DEF Publishing, Replaced
  <2>3. CASE Goto(f, "failed") /\ lock' = "free" /\ dest' = dest /\ ctime' = ctime
    BY <1>1, <1>6, <2>1, <2>3 DEF Publishing
  <2> QED  BY <1>8, <2>2, <2>3 DEF LinkNew
<1>9. CASE LinkBackup(f)
  <2>1. /\ hnd[f].pc = "link" /\ Expected(f) # Absent /\ intruded' = intruded /\ dest' = dest
        /\ lock = f
    BY <1>4, <1>9 DEF LinkBackup, At, Publishing
  <2>2. CASE Goto(f, "failed") /\ lock' = "free" /\ ctime' = ctime
    BY <1>1, <1>6, <2>1, <2>2 DEF Publishing
  <2>3. CASE ~(Goto(f, "failed") /\ lock' = "free" /\ ctime' = ctime)
    <3> DEFINE c == IF dest = Expected(f)[1] THEN "replace" ELSE "failed"
               h == [hnd[f] EXCEPT !.pc = c, !.backup = dest]
    <3>1. /\ ctime' = Touch({dest}) /\ hnd' = [hnd EXCEPT ![f].pc = c, ![f].backup = dest]
          /\ lock' = (IF c = "replace" THEN f ELSE "free")
      BY <1>9, <2>1, <2>3 DEF LinkBackup
    <3>2. h \in Handlers /\ h.pc = c /\ h.backup = dest /\ h.staged = hnd[f].staged
      BY <1>1 DEF Handlers
    <3>3. hnd' = [hnd EXCEPT ![f] = h] /\ hnd'[f] = h
      BY <3>1 DEF IInv, Typed
    <3>4. c \in {"replace", "failed"} /\ (c = "replace" => dest = Replaced(f))
      BY <2>1 DEF Replaced
    <3> HIDE DEF c, h
    <3>5. Keeps(f)'
      BY <1>5, <2>1, <3>2, <3>3, <3>4 DEF Keeps
    <3>6. ctime' \in [Artifact -> Nat]
      BY <1>1, <3>1
    <3> QED  BY <1>1, <1>2, <1>3, <2>1, <3>1, <3>2, <3>3, <3>4, <3>5, <3>6, PublishStep DEF Publishing
  <2> QED  BY <2>2, <2>3
<1>10. CASE Replace(f)
  <2>1. /\ hnd[f].pc = "replace" /\ intruded' = intruded /\ lock = f
        /\ hnd[f].backup = Replaced(f)
    BY <1>4, <1>10 DEF Replace, At, Keeps, Publishing
  <2>2. CASE dest' = Mine(f) /\ ctime' = Touch({Mine(f)}) /\ Goto(f, "audit") /\ lock' = lock
    BY <1>1, <1>6, <2>1, <2>2 DEF Publishing
  <2>3. CASE Goto(f, "failed") /\ lock' = "free" /\ dest' = dest /\ ctime' = ctime
    BY <1>1, <1>6, <2>1, <2>3 DEF Publishing
  <2> QED  BY <1>10, <2>2, <2>3 DEF Replace
<1>11. CASE Audit(f)
  <2>1. /\ hnd[f].pc = "audit" /\ intruded' = intruded /\ lock = f /\ dest' = dest
        /\ ctime' = ctime /\ hnd[f].backup = Replaced(f)
    BY <1>4, <1>11 DEF Audit, At, Keeps, Publishing
  <2>2. CASE dest = Mine(f) /\ Goto(f, "restore") /\ lock' = lock
    BY <1>1, <1>6, <2>1, <2>2 DEF Publishing
  <2>3. CASE Goto(f, "failed") /\ lock' = "free"
    BY <1>1, <1>6, <2>1, <2>3 DEF Publishing
  <2>4. CASE Goto(f, "saved") /\ lock' = "free"
    BY <1>1, <1>6, <2>1, <2>4 DEF Publishing
  <2> QED  BY <1>11, <2>2, <2>3, <2>4 DEF Audit
<1>12. CASE Restore(f)
  <2>1. /\ hnd[f].pc = "restore" /\ intruded' = intruded /\ lock' = "free"
        /\ \/ /\ dest' = hnd[f].backup /\ ctime' = Touch({hnd[f].backup})
              /\ hnd' = [hnd EXCEPT ![f].pc = "failed", ![f].backup = Absent]
           \/ Goto(f, "unrestored") /\ dest' = dest /\ ctime' = ctime
    BY <1>12 DEF Restore, At
  <2>2. CASE Goto(f, "unrestored") /\ dest' = dest /\ ctime' = ctime
    BY <1>1, <1>6, <2>1, <2>2 DEF Publishing
  <2>3. CASE /\ dest' = hnd[f].backup /\ ctime' = Touch({hnd[f].backup})
             /\ hnd' = [hnd EXCEPT ![f].pc = "failed", ![f].backup = Absent]
    <3> DEFINE h == [hnd[f] EXCEPT !.pc = "failed", !.backup = Absent]
    <3>1. h \in Handlers /\ h.pc = "failed" /\ h.backup = Absent /\ h.staged = hnd[f].staged
      BY <1>1 DEF Handlers
    <3>2. hnd' = [hnd EXCEPT ![f] = h] /\ hnd'[f] = h
      BY <2>3 DEF IInv, Typed
    <3> HIDE DEF h
    <3>3. Keeps(f)' /\ ctime' \in [Artifact -> Nat]
      BY <1>1, <2>3, <3>1, <3>2 DEF Keeps
    <3> QED  BY <1>1, <1>2, <1>3, <2>1, <2>3, <3>1, <3>2, <3>3, PublishStep
             DEF Publishing
  <2> QED  BY <2>1, <2>2, <2>3
<1> QED  BY <1>7, <1>8, <1>9, <1>10, <1>11, <1>12

\* The finally clause: links and sessions go, and the browser is answered.
LEMMA ReleaseStep ==
    ASSUME IInv, NEW f \in Forms, Release(f)
    PROVE  IInv'
<1> DEFINE h == [hnd[f] EXCEPT !.pc = "over", !.backup = Absent]
<1>1. /\ hnd[f].pc \in Ended /\ hnd[f] \in Handlers
      /\ br' = br /\ reqs' = reqs /\ dest' = dest /\ lock' = lock /\ intruded' = intruded
      /\ boot' = boot /\ foreign' = foreign
      /\ sess' = [x \in Files |-> IF x \in Keys(f) THEN NoSess ELSE sess[x]]
  BY DEF Release, IInv, Typed
<1>2. h \in Handlers /\ h.pc = "over" /\ h.backup = Absent /\ h.staged = hnd[f].staged
  BY <1>1 DEF Handlers
<1>3. hnd' = [hnd EXCEPT ![f] = h]
  BY DEF Release, IInv, Typed
<1> HIDE DEF h
<1>4. /\ hnd' \in [Forms -> Handlers] /\ hnd'[f] = h
      /\ \A g \in Forms \ {f} : hnd'[g] = hnd[g]
  BY <1>2, <1>3 DEF IInv, Typed
<1>5. /\ sess' \in [Files -> Session] /\ (\A x \in Keys(f) : sess'[x] = NoSess)
      /\ \A x \in Files : sess'[x] = NoSess \/ sess'[x] = sess[x]
      /\ \A g \in Forms \ {f} : \A x \in Keys(g) : sess'[x] = sess[x]
  BY <1>1, FileFacts, EmptySession DEF IInv, Typed
<1>6. br[f].pc \in {"final", "done"}
  BY <1>1 DEF IInv, InStep, Follows, Typed, Browsers
<1>7. /\ reply' \in [Forms -> Replies]
      /\ \A g \in Forms \ {f} : reply'[g] = reply[g]
  <2>1. \A v \in {"saved", "failed"} : [status |-> v] \in Replies
    BY DEF Replies
  <2> QED  BY <2>1 DEF Release, IInv, Typed
<1>8. Typed'
  <2>1. ctime' \in [Artifact -> Nat]
    BY TouchTypes DEF Release, IInv
  <2> QED  BY <1>1, <1>4, <1>5, <1>7, <2>1 DEF IInv, Typed
<1>9. \A g \in Forms : /\ Current(g)' = Current(g) /\ Current(g) \in Keys(g)
                       /\ Current(g) \in Files
  BY <1>1, FileFacts DEF Current, IInv, Positions
<1>10. Positions' /\ RetriesAccepted'
  BY <1>1, <1>9 DEF IInv, Positions, RetriesAccepted
<1>11. Received'
  BY <1>5, EmptySession, FileFacts DEF IInv, Received
<1>12. Asked'
  <2> SUFFICES ASSUME NEW r \in reqs PROVE Orderly(r)'
    BY <1>1 DEF Asked
  <2>1. Orderly(r) /\ r.form \in Forms /\ (r.kind # "final" => r.file \in Files)
    BY RequestFacts
  <2>2. r.form = f => r.kind \notin {"reserve", "final"}
    BY <1>1, <2>1 DEF Orderly
  <2> QED  BY <1>1, <1>4, <1>5, <1>6, <1>7, <1>9, <2>1, <2>2 DEF Orderly
<1>13. Untouched'
  BY <1>1, <1>5, FileFacts DEF IInv, Untouched
<1>14. InStep'
  <2>1. Follows(f)'
    BY <1>1, <1>6 DEF Follows
  <2>2. ASSUME NEW g \in Forms, g # f PROVE Follows(g)'
    <3>1. /\ Follows(g) /\ hnd'[g] = hnd[g] /\ sess'[Current(g)] = sess[Current(g)]
          /\ Current(g)' = Current(g) /\ br'[g] = br[g] /\ reply'[g] = reply[g]
      BY <2>2, <1>1, <1>4, <1>5, <1>7, <1>9 DEF IInv, InStep
    <3> QED  BY <3>1 DEF Follows
  <2> QED  BY <2>1, <2>2 DEF InStep
<1>15. Claims'
  BY <1>2, <1>4, <1>5, EmptySession DEF IInv, Claims, Holding
<1>16. Shown'
  <2>1. \A g \in Forms : MediaOf(g) # {} /\ Visible(g)' => Visible(g)
    BY <1>1, <1>2, <1>4, MediaFacts DEF Visible
  <2>2. Exhibits(f)'
    BY <2>1, <1>1, <1>2, <1>4, MediaFacts DEF IInv, Shown, Exhibits, Whole, Consuming, Publishing
  <2>3. ASSUME NEW g \in Forms, g # f PROVE Exhibits(g)'
    BY <2>1, <2>3, <1>4 DEF IInv, Shown, Exhibits, Whole
  <2> QED  BY <2>2, <2>3 DEF Shown
<1>17. Locked'
  BY <1>1, <1>2, <1>4 DEF IInv, Locked, Publishing
<1>18. Confirmed'
  BY <1>1, <1>5, EmptySession DEF IInv, Confirmed
<1>19. Kept'
  <2>1. Keeps(f)'
    BY <1>2, <1>4 DEF Keeps
  <2>2. ASSUME NEW g \in Forms, g # f PROVE Keeps(g)'
    <3>1. hnd[g].pc \in Consuming => Expected(g)' = Expected(g) /\ Replaced(g)' = Replaced(g)
      BY <2>2, <1>5, MediaFacts DEF IInv, Shown, Exhibits, Expected, Replaced
    <3> QED  BY <2>2, <3>1, <1>1, <1>4 DEF IInv, Kept, Keeps, Consuming, Publishing
  <2> QED  BY <2>1, <2>2 DEF Kept
<1> QED  BY <1>8, <1>10, <1>11, <1>12, <1>13, <1>14, <1>15, <1>16, <1>17, <1>18, <1>19 DEF IInv

-----------------------------------------------------------------------------
(* Time, restarts and programs outside. *)

\* An expired session differs in nothing but its expiry.
LEMMA ExpireStep ==
    ASSUME IInv, NEW x \in Files, Expire(x)
    PROVE  IInv'
<1>1. /\ br' = br /\ reqs' = reqs /\ reply' = reply /\ hnd' = hnd /\ dest' = dest
      /\ ctime' = ctime /\ lock' = lock /\ intruded' = intruded /\ boot' = boot
      /\ foreign' = foreign
  BY DEF Expire, storeOnly
<1>2. sess[x] \in Session /\ sess' = [sess EXCEPT ![x] = [sess[x] EXCEPT !.expired = TRUE]]
  BY DEF Expire, IInv, Typed
<1>3. /\ sess'[x] \in Session /\ sess'[x].state = sess[x].state
      /\ sess'[x].data = sess[x].data /\ sess'[x].expected = sess[x].expected
  <2>1. sess'[x] = [sess[x] EXCEPT !.expired = TRUE]
    BY <1>2 DEF IInv, Typed
  <2>2. \A b \in BOOLEAN : [sess[x] EXCEPT !.expired = b] \in Session
    BY <1>2 DEF Session
  <2>3. sess'[x] \in Session
    BY <2>1, <2>2, Zenon
  <2> QED  BY <1>2, <2>1, <2>3 DEF Session
<1>4. /\ sess' \in [Files -> Session]
      /\ \A y \in Files : /\ sess'[y].state = sess[y].state /\ sess'[y].data = sess[y].data
                          /\ sess'[y].expected = sess[y].expected
                          /\ sess[y] = NoSess => sess'[y] = NoSess
  BY <1>2, <1>3, EmptySession DEF IInv, Typed, Expire
<1>5. Typed'
  BY <1>1, <1>4 DEF IInv, Typed
<1>6. \A g \in Forms : /\ Current(g)' = Current(g) /\ Current(g) \in Keys(g)
                       /\ Current(g) \in Files
  BY <1>1, FileFacts DEF Current, IInv, Positions
<1>7. Positions' /\ RetriesAccepted' /\ Locked'
  BY <1>1, <1>6 DEF IInv, Positions, RetriesAccepted, Locked
<1>8. Received' /\ Claims' /\ Confirmed'
  BY <1>1, <1>4, FileFacts DEF IInv, Received, Claims, Confirmed
<1>9. Asked'
  <2> SUFFICES ASSUME NEW r \in reqs PROVE Orderly(r)'
    BY <1>1 DEF Asked
  <2>1. Orderly(r) /\ r.form \in Forms /\ (r.kind # "final" => r.file \in Files)
    BY RequestFacts
  <2> QED  BY <1>1, <1>4, <1>6, <2>1 DEF Orderly
<1>10. Untouched'
  BY <1>1, <1>4, FileFacts DEF IInv, Untouched
<1>11. InStep'
  BY <1>1, <1>4, <1>6 DEF IInv, InStep, Follows
<1>12. Shown'
  BY <1>1 DEF IInv, Shown, Exhibits, Visible, Whole
<1>13. Kept'
  <2> SUFFICES ASSUME NEW g \in Forms PROVE Keeps(g)'
    BY DEF Kept
  <2>1. hnd[g].pc \in Consuming => Expected(g)' = Expected(g) /\ Replaced(g)' = Replaced(g)
    BY <1>4, MediaFacts, FileFacts DEF IInv, Shown, Exhibits, Expected, Replaced
  <2> QED  BY <2>1, <1>1 DEF IInv, Kept, Keeps, Consuming, Publishing
<1> QED  BY <1>5, <1>7, <1>8, <1>9, <1>10, <1>11, <1>12, <1>13 DEF IInv

\* The web process starts again.
LEMMA RestartStep ==
    ASSUME IInv, Restart
    PROVE  IInv'
<1>1. /\ br' = br /\ dest' = dest /\ ctime' = ctime /\ intruded' = intruded
      /\ foreign' = foreign /\ lock' = "free" /\ reqs' = {} /\ boot' \in 0..MaxRestarts
      /\ reply' = [f \in Forms |-> Silent] /\ sess' = [x \in Files |-> NoSess]
  BY BoundAssumption DEF Restart, IInv, Typed
<1>2. hnd' = [f \in Forms |-> [hnd[f] EXCEPT !.pc = IF hnd[f].pc = "none" THEN "none" ELSE "over"]]
  BY DEF Restart
<1>3. \A f \in Forms : /\ hnd'[f] \in Handlers
                       /\ hnd'[f].pc = IF hnd[f].pc = "none" THEN "none" ELSE "over"
                       /\ hnd'[f].staged = hnd[f].staged /\ hnd'[f].backup = hnd[f].backup
  <2> SUFFICES ASSUME NEW f \in Forms
               PROVE  /\ hnd'[f] \in Handlers
                      /\ hnd'[f].pc = IF hnd[f].pc = "none" THEN "none" ELSE "over"
                      /\ hnd'[f].staged = hnd[f].staged /\ hnd'[f].backup = hnd[f].backup
    OBVIOUS
  <2>1. hnd[f] \in Handlers
    BY DEF IInv, Typed
  <2> QED  BY <1>2, <2>1 DEF Handlers
<1>4. Typed'
  <2>1. hnd' \in [Forms -> Handlers]
    BY <1>2, <1>3
  <2>2. reply' \in [Forms -> Replies]
    BY <1>1 DEF Replies, Silent
  <2>3. sess' \in [Files -> Session]
    BY <1>1, EmptySession
  <2> QED  BY <1>1, <2>1, <2>2, <2>3 DEF IInv, Typed
<1>5. /\ \A x \in Files : sess'[x] = NoSess
      /\ \A f \in Forms : reply'[f].status = "none" /\ Current(f)' = Current(f)
      /\ \A f \in Forms : Current(f) \in Files
  BY <1>1, FileFacts DEF Silent, Current, IInv, Positions
<1>6. Positions' /\ RetriesAccepted' /\ Asked'
  BY <1>1, <1>5 DEF IInv, Positions, RetriesAccepted, Asked
<1>7. Received' /\ Claims' /\ Confirmed' /\ Untouched'
  BY <1>1, <1>3, <1>5, FileFacts, EmptySession DEF Received, Claims, Confirmed, Untouched, Holding
<1>8. InStep'
  BY <1>1, <1>3, <1>5, EmptySession DEF IInv, InStep, Follows
<1>9. Shown'
  <2>1. \A f \in Forms : Visible(f)' <=> Visible(f)
    BY <1>1, <1>3 DEF Visible
  <2> QED  BY <2>1, <1>3 DEF IInv, Shown, Exhibits, Whole, Consuming, Publishing
<1>10. Locked' /\ Kept'
  BY <1>1, <1>3, FormAssumption DEF IInv, Locked, Kept, Keeps, Publishing
<1> QED  BY <1>4, <1>6, <1>7, <1>8, <1>9, <1>10 DEF IInv

\* Another program changes the destination.
LEMMA OutsideStep ==
    ASSUME IInv, OutsideChange
    PROVE  IInv'
<1>1. /\ br' = br /\ reqs' = reqs /\ reply' = reply /\ sess' = sess /\ hnd' = hnd
      /\ ctime' = ctime /\ lock' = lock /\ boot' = boot
      /\ intruded' = (intruded \/ lock # "free") /\ dest' \in {Absent, Outside(foreign + 1)}
  BY DEF OutsideChange
<1>2. Typed'
  <2>1. foreign' \in 0..MaxForeign /\ dest' \in Artifact \cup {Absent}
    <3>1. foreign + 1 \in 0..MaxForeign /\ foreign' = foreign + 1
      BY BoundAssumption DEF OutsideChange, IInv, Typed
    <3> QED  BY <1>1, <3>1 DEF Artifact
  <2>2. intruded' \in BOOLEAN
    BY <1>1, Zenon
  <2> QED  BY <1>1, <2>1, <2>2 DEF IInv, Typed
<1>3. \A g \in Forms : /\ Current(g)' = Current(g) /\ Expected(g)' = Expected(g)
                       /\ Replaced(g)' = Replaced(g)
  BY <1>1 DEF Current, Expected, Replaced
<1>4. Positions' /\ Received' /\ Untouched' /\ Claims' /\ Locked' /\ Confirmed' /\ RetriesAccepted'
  BY <1>1, <1>3 DEF IInv, Positions, Received, Untouched, Claims, Locked, Confirmed, RetriesAccepted
<1>5. Asked' /\ InStep'
  BY <1>1, <1>3 DEF IInv, Asked, Orderly, InStep, Follows, Current
<1>6. Shown'
  <2>1. \A f \in Forms : Visible(f)' => Visible(f)
    BY <1>1, MediaFacts DEF Visible
  <2> QED  BY <2>1, <1>1 DEF IInv, Shown, Exhibits, Whole
<1>7. Kept'
  <2>1. \A f \in Forms : hnd[f].pc \in Publishing => intruded'
    BY <1>1, FormAssumption DEF IInv, Locked
  <2> QED  BY <2>1, <1>1, <1>3 DEF IInv, Kept, Keeps, Publishing
<1> QED  BY <1>2, <1>4, <1>5, <1>6, <1>7 DEF IInv

-----------------------------------------------------------------------------
\* The invariant holds initially.
LEMMA InitInv == Init => IInv
<1> SUFFICES ASSUME Init PROVE IInv
  OBVIOUS
<1>1. Typed
  <2>1. NoToken \in Tokens
    BY DEF NoToken, Tokens, Revisions
  <2>2. br \in [Forms -> Browsers]
    BY <2>1, BoundAssumption DEF Init, Browsers
  <2>3. hnd \in [Forms -> Handlers] /\ reply \in [Forms -> Replies]
    BY DEF Init, NoHandler, Handlers, Silent, Replies
  <2>4. sess \in [Files -> Session] /\ ctime \in [Artifact -> Nat]
    BY EmptySession DEF Init
  <2>5. dest \in Artifact \cup {Absent} /\ boot \in 0..MaxRestarts /\ foreign \in 0..MaxForeign
    BY BoundAssumption DEF Init, Artifact
  <2> QED  BY <2>2, <2>3, <2>4, <2>5 DEF Init, Typed
<1>2. \A f \in Forms : /\ br[f].pc = "idle" /\ br[f].i = 1 /\ br[f].off = 0 /\ br[f].ids = {}
                       /\ br[f].out = "none" /\ hnd[f].pc = "none" /\ hnd[f].backup = Absent
                       /\ reply[f].status = "none"
  BY DEF Init, NoHandler, Silent
<1>3. \A x \in Files : sess[x] = NoSess
  BY DEF Init
<1>4. \A f \in Forms : 1 \in 1..Len(FilesOf[f])
  BY FormAssumption
<1>5. Positions /\ Received /\ Asked /\ Untouched /\ RetriesAccepted
  <2>1. \A f \in Forms : Current(f) \in Files /\ Size[Current(f)] \in Nat
    BY <1>2, <1>4, FileFacts DEF Current
  <2>2. reqs = {}
    BY DEF Init
  <2> QED  BY <1>2, <1>3, <1>4, <2>1, <2>2, FileFacts, EmptySession
           DEF Positions, Received, Asked, Untouched, RetriesAccepted
<1>6. InStep /\ Claims /\ Confirmed
  BY <1>2, <1>3, FileFacts, EmptySession DEF InStep, Follows, Claims, Confirmed, Holding
<1>7. Shown
  <2>1. \A f \in Forms : ~Visible(f)
    BY <1>2, MediaFacts DEF Visible, Init
  <2> QED  BY <1>2, <2>1, MediaFacts DEF Shown, Exhibits, Consuming, Publishing
<1>8. Locked /\ Kept
  BY <1>2, FormAssumption DEF Init, Locked, Kept, Keeps, Publishing
<1> QED  BY <1>1, <1>5, <1>6, <1>7, <1>8 DEF IInv

\* Every step preserves the invariant.
LEMMA InvStep == IInv /\ [Next]_vars => IInv'
<1> SUFFICES ASSUME IInv, [Next]_vars PROVE IInv'
  OBVIOUS
<1>1. ASSUME NEW f \in Forms, Browser(f) PROVE IInv'
  BY <1>1, BrowserStep
<1>2. ASSUME NEW f \in Forms, Endpoint(f) PROVE IInv'
  BY <1>2, StageStep, PublicationStep, ReleaseStep DEF Endpoint
<1>3. ASSUME NEW r \in reqs, Handle(r) PROVE IInv'
  BY <1>3, CreateStep, AppendStep, CancelStep, ClaimStep DEF Handle
<1>4. ASSUME NEW x \in Files, Expire(x) PROVE IInv'
  BY <1>4, ExpireStep
<1>5. CASE Sweep
  BY <1>5, SweepStep
<1>6. CASE Restart
  BY <1>6, RestartStep
<1>7. CASE OutsideChange
  BY <1>7, OutsideStep
<1>8. CASE UNCHANGED vars
  <2>1. br' = br /\ reply' = reply /\ reqs' = reqs /\ sess' = sess /\ UNCHANGED storeOnly
    BY <1>8 DEF vars, srvVars, storeOnly
  <2>2. sess' \in [Files -> Session]
    BY <2>1 DEF IInv, Typed
  <2> QED  BY <2>1, <2>2, DropStep
<1> QED  BY <1>1, <1>2, <1>3, <1>4, <1>5, <1>6, <1>7, <1>8 DEF Next

\* IInv holds in every reachable state.
THEOREM Invariance == Spec => []IInv
<1> QED  BY InitInv, InvStep, PTL DEF Spec

\* Every variable keeps its type: browsers stay within their files and attempts,
\* sessions within the size they reserved.
THEOREM TypeCorrect == Spec => []TypeOK
<1>1. IInv => TypeOK
  <2> SUFFICES ASSUME IInv PROVE TypeOK
    OBVIOUS
  <2>1. \A f \in Forms : br[f] \in Browsers /\ hnd[f] \in Handlers
    BY DEF IInv, Typed
  <2>2. \A x \in Files : sess[x] \in Session
    BY DEF IInv, Typed
  <2>3. \A x \in Files : sess[x].state \in {"none", "open", "claimed"} /\ sess[x].expired \in BOOLEAN
    BY <2>2 DEF Session
  <2>4. \A f \in Forms : /\ br[f].pc \in {"idle", "reserve", "put", "final", "done"}
                         /\ br[f].try \in 1..MaxTries
                         /\ hnd[f].backup \in Artifact \cup {Absent}
                         /\ hnd[f].pc \in {"none", "stage", "publish", "link", "replace",
                                           "audit", "restore", "saved", "failed", "unrestored",
                                           "over"}
    BY <2>1 DEF Browsers, Handlers
  <2> QED  BY <2>3, <2>4 DEF IInv, Typed, Positions, Received, TypeOK
<1> QED  BY <1>1, Invariance, PTL

\* Whatever was lost, repeated or delayed, an upload at the destination is the
\* whole file.
THEOREM WholeUploads == Spec => []PublishedWhole
<1>1. IInv => PublishedWhole
  BY DEF IInv, Shown, Exhibits, Visible, Whole, PublishedWhole
<1> QED  BY <1>1, Invariance, PTL

\* No browser is ever refused a chunk because of its own retries.
THEOREM RetriesNeverRefused == Spec => []RetriesAccepted
<1>1. IInv => RetriesAccepted
  BY DEF IInv
<1> QED  BY <1>1, Invariance, PTL

\* The sessions of a form are claimed together, under a running endpoint.
THEOREM ClaimedAsOne == Spec => []ClaimedTogether
<1>1. IInv => ClaimedTogether
  BY DEF IInv, Claims, ClaimedTogether, Holding
<1> QED  BY <1>1, Invariance, PTL

\* Only the endpoint that holds _LOCK, and programs outside, change the
\* destination.
LEMMA Writers ==
    ASSUME IInv, Next, dest' # dest
    PROVE  \/ \E f \in Forms : lock = f /\ (LinkNew(f) \/ Replace(f) \/ Restore(f))
           \/ OutsideChange
<1>1. ASSUME NEW f \in Forms, Browser(f) PROVE dest' = dest
  BY <1>1 DEF Browser, Start, Reserved, Confirm, NotReserved, Acknowledged, Retry,
              NotAcknowledged, Finished, Abort, Send, Leave, srvVars
<1>2. ASSUME NEW f \in Forms, Endpoint(f)
      PROVE  lock = f /\ (LinkNew(f) \/ Replace(f) \/ Restore(f))
  <2>1. LinkNew(f) \/ Replace(f) \/ Restore(f)
    BY <1>2 DEF Endpoint, Stage, CheckRevision, LinkBackup, Audit, Release
  <2>2. hnd[f].pc \in Publishing
    BY <2>1 DEF LinkNew, Replace, Restore, At, Publishing
  <2> QED  BY <2>1, <2>2 DEF IInv, Locked
<1>3. ASSUME NEW r \in reqs, Handle(r) PROVE dest' = dest
  BY <1>3 DEF Handle, CreateUpload, AppendChunk, CancelUpload, Claim, storeOnly
<1>4. ASSUME NEW x \in Files, Expire(x) PROVE dest' = dest
  BY <1>4 DEF Expire, storeOnly
<1>5. (Sweep => dest' = dest) /\ (Restart => dest' = dest)
  BY DEF Sweep, Restart, storeOnly
<1> QED  BY <1>1, <1>2, <1>3, <1>4, <1>5 DEF Next

\* One step keeps the consent.
LEMMA ConsentStep ==
    ASSUME IInv, Next, NEW f \in Forms, lock = f, dest' = Mine(f), dest # Mine(f)
    PROVE  \/ dest = Absent
           \/ /\ br[f].token # NoToken
              /\ intruded \/ dest = br[f].token.rev[1]
<1>1. MediaOf(f) # {} /\ Keeps(f) /\ hnd[f].backup # Mine(f)
  BY DEF IInv, Locked, Shown, Exhibits, Kept, Consuming
<1>2. ~OutsideChange
  BY MediaFacts DEF OutsideChange
<1>3. PICK g \in Forms : lock = g /\ (LinkNew(g) \/ Replace(g) \/ Restore(g))
  BY <1>2, Writers
<1>4. LinkNew(f) \/ Replace(f) \/ Restore(f)
  BY <1>3
<1>5. CASE LinkNew(f)
  BY <1>5 DEF LinkNew
<1>6. CASE Restore(f)
  BY <1>1, <1>6 DEF Restore
<1>7. CASE Replace(f)
  <2>1. /\ Expected(f) # Absent /\ TheMedia(f) \in Keys(f)
        /\ intruded \/ dest = Expected(f)[1]
    BY <1>1, <1>7, MediaFacts DEF Replace, At, Keeps, Replaced
  <2>2. br[f].token # NoToken /\ Expected(f) = br[f].token.rev
    BY <2>1 DEF IInv, Confirmed, Expected
  <2> QED  BY <2>1, <2>2
<1> QED  BY <1>4, <1>5, <1>6, <1>7

\* Nothing takes the place of an artifact its operator did not confirm.
THEOREM ConsentHolds == Spec => ConsentKept
<1>1. IInv /\ [Next]_vars =>
          [\A f \in Forms : lock = f /\ dest' = Mine(f) /\ dest # Mine(f) =>
              \/ dest = Absent
              \/ /\ br[f].token # NoToken
                 /\ intruded \/ dest = br[f].token.rev[1]]_vars
  BY ConsentStep
<1> QED  BY <1>1, Invariance, PTL DEF Spec, ConsentKept

\* One step of a publication that fails hands back what it had replaced, or
\* leaves the upload where it is.
LEMMA FailureStep ==
    ASSUME IInv, Next, NEW f \in Forms, lock = f, hnd'[f].pc \in {"failed", "unrestored"},
           ~intruded
    PROVE  dest' = IF hnd'[f].pc = "failed" THEN Replaced(f) ELSE Mine(f)
<1>1. /\ Keeps(f) /\ hnd[f].pc \in Publishing /\ hnd \in [Forms -> Handlers]
      /\ hnd[f].pc \notin {"failed", "unrestored"}
  BY DEF IInv, Locked, Kept, Publishing, Typed
<1>2. ASSUME NEW g \in Forms, Browser(g) PROVE FALSE
  <2>1. hnd' = hnd
    BY <1>2 DEF Browser, Start, Reserved, Confirm, NotReserved, Acknowledged, Retry,
                NotAcknowledged, Finished, Abort, Send, Leave, srvVars
  <2> QED  BY <1>1, <2>1
<1>3. ASSUME NEW g \in Forms, g # f, Endpoint(g) PROVE FALSE
  <2>1. hnd'[f] = hnd[f]
    BY <1>1, <1>3 DEF Endpoint, Stage, CheckRevision, LinkNew, LinkBackup, Replace, Audit,
                      Restore, Release, Goto
  <2> QED  BY <1>1, <2>1
<1>4. ASSUME NEW r \in reqs, Handle(r) PROVE FALSE
  <2>1. hnd'[f].pc = hnd[f].pc \/ hnd'[f].pc = "stage"
    <3>1. CASE Claim(r)
      <4>1. hnd' = hnd \/ hnd' = [hnd EXCEPT ![r.form].pc = "stage"]
        BY <3>1 DEF Claim
      <4> QED  BY <1>1, <4>1 DEF Handlers
    <3>2. CASE ~Claim(r)
      BY <1>4, <3>2 DEF Handle, CreateUpload, AppendChunk, CancelUpload, storeOnly
    <3> QED  BY <3>1, <3>2
  <2> QED  BY <1>1, <2>1
<1>5. ASSUME NEW x \in Files, Expire(x) PROVE FALSE
  BY <1>1, <1>5 DEF Expire, storeOnly
<1>6. ~Sweep /\ ~Restart /\ ~OutsideChange
  BY <1>1 DEF Sweep, Restart, OutsideChange, storeOnly, Handlers
<1>7. Endpoint(f)
  BY <1>2, <1>3, <1>4, <1>5, <1>6 DEF Next
<1>8. \A c : Goto(f, c) => hnd'[f].pc = c
  BY <1>1 DEF Goto, Handlers
<1>9. CASE LinkNew(f)
  BY <1>1, <1>9, <1>8 DEF LinkNew, At, Keeps, Replaced
<1>10. CASE LinkBackup(f)
  <2>1. dest = Replaced(f) /\ Expected(f) # Absent /\ dest' = dest
    BY <1>1, <1>10 DEF LinkBackup, At, Keeps
  <2>2. hnd'[f].pc # "unrestored"
    BY <1>1, <1>8, <1>10 DEF LinkBackup, Handlers
  <2> QED  BY <2>1, <2>2
<1>11. CASE Replace(f)
  BY <1>1, <1>11, <1>8 DEF Replace, At, Keeps
<1>12. CASE Audit(f)
  BY <1>1, <1>12, <1>8 DEF Audit, At, Keeps
<1>13. CASE Restore(f)
  <2>1. hnd[f].backup = Replaced(f) /\ dest = Mine(f)
    BY <1>1, <1>13 DEF Restore, At, Keeps
  <2>2. CASE Goto(f, "unrestored") /\ dest' = dest
    BY <1>8, <2>1, <2>2
  <2>3. CASE /\ dest' = hnd[f].backup
             /\ hnd' = [hnd EXCEPT ![f].pc = "failed", ![f].backup = Absent]
    <3>1. hnd'[f].pc = "failed"
      BY <1>1, <2>3 DEF Handlers
    <3> QED  BY <2>1, <2>3, <3>1
  <2> QED  BY <1>13, <2>2, <2>3 DEF Restore
<1> QED  BY <1>1, <1>7, <1>9, <1>10, <1>11, <1>12, <1>13
         DEF Endpoint, Stage, CheckRevision, Release, At, Publishing

\* A failed publication leaves what the consent was for at the destination, and
\* one whose restoration failed too leaves the published upload there.
THEOREM FailuresRestore == Spec => FailureRestores
<1>1. IInv /\ [Next]_vars =>
          [\A f \in Forms : lock = f /\ ~intruded =>
              /\ hnd'[f].pc = "failed" =>
                    dest' = (IF Expected(f) = Absent THEN Absent ELSE Expected(f)[1])
              /\ hnd'[f].pc = "unrestored" => dest' = Mine(f)]_vars
  BY FailureStep DEF Replaced
<1> QED  BY <1>1, Invariance, PTL DEF Spec, FailureRestores
============================================================================
