---------------------------- MODULE ChunkUpload ----------------------------
(***************************************************************************)
(* Browser uploads in chunks, end to end: the browser transport            *)
(* (chunk-uploads.js) reserves one staging session per file, sends the     *)
(* chunks one after the other, retries the ones whose answer it misses,    *)
(* finalizes the form and cancels what is left; the web process keeps the  *)
(* sessions (chunk_uploads.py), and the consuming endpoint publishes the   *)
(* validated file over the destination the operator consented to replace   *)
(* (upload_publication.py).  A request lives on after its browser gave up  *)
(* on it, a session may expire at any time, a program outside the web      *)
(* process may change the destination, and the process may die between     *)
(* any two steps.                                                          *)
(***************************************************************************)
EXTENDS Naturals, Sequences, FiniteSets, SequencesExt, FiniteSetsExt

CONSTANTS
    Forms,           \* attempts to submit a form, each by one browser
    Files,           \* files of all forms
    FilesOf,         \* FilesOf[f]: the files of form f, in the order sent
    Size,            \* Size[x]: number of chunks of file x
    Media,           \* files with a publication (_publication is not None)
    Owner,           \* Owner[f]: the authenticated browser session
    MaxSessions, MaxPerOwner, MaxReserved,   \* limits of UploadStore.create
    MaxTries,        \* attempts per chunk before the browser gives up
    MaxForeign,      \* bound on changes made outside the web process
    MaxRestarts      \* bound on restarts of the web process

ASSUME BoundAssumption ==
    /\ {MaxSessions, MaxPerOwner, MaxReserved, MaxForeign, MaxRestarts} \subseteq Nat
    /\ MaxTries \in Nat \ {0}
ASSUME FormAssumption ==
    /\ Media \subseteq Files /\ "free" \notin Forms
    /\ Size \in [Files -> Nat \ {0}]
    /\ \A f \in Forms :
          /\ FilesOf[f] \in Seq(Files) /\ FilesOf[f] # <<>>
          /\ IsInjective(FilesOf[f])
          /\ \A x, y \in ToSet(FilesOf[f]) \cap Media : x = y
          /\ \A g \in Forms \ {f} : ToSet(FilesOf[f]) \cap ToSet(FilesOf[g]) = {}

VARIABLES
    br,       \* each form's uploadFetch: where it is, and what it knows
    reqs,     \* requests the web process has not handled yet
    reply,    \* answer to the request a browser waits for
    sess,     \* UploadStore.sessions, by the file a session is for
    hnd,      \* the finalizing endpoint of each form
    dest,     \* the artifact at the destination all forms share
    ctime,    \* ctime of each artifact: moved by every link and unlink
    lock,     \* holder of upload_publication._LOCK
    intruded, \* the destination changed from outside under the current holder
    boot,     \* restarts so far: _KEY and all sessions are of one boot
    foreign   \* artifacts written from outside so far

srvVars == <<sess, hnd, dest, ctime, lock, intruded, boot, foreign>>
vars == <<br, reqs, reply, srvVars>>

\* Artifacts: uploaded files and the ones written from outside (the first of
\* them may be found at the start).  A rewritten file counts as a new artifact:
\* inode, size or mtime differ.
Upload(x) == <<"upload", x>>
Outside(n) == <<"outside", n>>
Artifact == {Upload(x) : x \in Media} \cup {Outside(n) : n \in 0..MaxForeign}
Absent == <<>>

\* revision(): identity and ctime of the artifact, None when there is none.
Revision == IF dest = Absent THEN Absent ELSE <<dest, ctime[dest]>>

Keys(f) == ToSet(FilesOf[f])
FormOf(x) == CHOOSE f \in Forms : x \in Keys(f)
MediaOf(f) == Keys(f) \cap Media
TheMedia(f) == CHOOSE x \in MediaOf(f) : TRUE
Current(f) == FilesOf[f][br[f].i]

\* UploadPublication.token: bound to the browser session, the revision and the
\* key of this process.
Token(f) == [owner |-> Owner[f], rev |-> Revision, boot |-> boot]
NoToken == [owner |-> "nobody", rev |-> Absent, boot |-> 0]
NoSess == [state |-> "none", data |-> <<>>, expired |-> FALSE, expected |-> Absent]
Silent == [status |-> "none"]
NoHandler == [pc |-> "none", staged |-> <<>>, backup |-> Absent]

Init ==
    /\ br = [f \in Forms |-> [pc |-> "idle", i |-> 1, off |-> 0, try |-> 1,
                              token |-> NoToken, ids |-> {}, out |-> "none"]]
    /\ reqs = {} /\ reply = [f \in Forms |-> Silent]
    /\ sess = [x \in Files |-> NoSess]
    /\ hnd = [f \in Forms |-> NoHandler]
    /\ dest \in {Absent, Outside(0)} /\ ctime = [a \in Artifact |-> 0]
    /\ lock = "free" /\ intruded = FALSE /\ boot = 0 /\ foreign = 0

-----------------------------------------------------------------------------
(* The browser: uploadFetch. *)

\* The request a browser in state b waits for.  Retries of a chunk differ in
\* nothing but their number, which the server never sees.
Request(f, b) ==
    CASE b.pc = "reserve" ->
            [kind |-> "reserve", form |-> f, file |-> FilesOf[f][b.i], token |-> b.token]
      [] b.pc = "put" ->
            [kind |-> "put", form |-> f, file |-> FilesOf[f][b.i], pos |-> b.off, try |-> b.try]
      [] b.pc = "final" -> [kind |-> "final", form |-> f]
      [] OTHER -> [kind |-> "none"]

\* The next await of uploadFetch: the browser sends and waits.
Send(f, b) ==
    /\ br' = [br EXCEPT ![f] = b]
    /\ reqs' = reqs \cup {Request(f, b)}
    /\ reply' = [reply EXCEPT ![f] = Silent]
    /\ UNCHANGED srvVars
\* finally: a DELETE for every session the browser knows of, awaited by nobody.
Leave(f, out) ==
    /\ br' = [br EXCEPT ![f].pc = "done", ![f].out = out]
    /\ reqs' = reqs \cup {[kind |-> "cancel", form |-> f, file |-> x] : x \in br[f].ids}
    /\ reply' = [reply EXCEPT ![f] = Silent]
    /\ UNCHANGED srvVars

Start(f) == br[f].pc = "idle" /\ Send(f, [br[f] EXCEPT !.pc = "reserve"])

Awaiting(f, pc) == br[f].pc = pc
Answered(f, pc, status) == Awaiting(f, pc) /\ reply[f].status = status
\* A connection may fail at any moment: the request may never have arrived, may
\* still be on its way, or may have been handled.
NoAnswer(f, pc) == Awaiting(f, pc)

\* for (const [field, file] of files): chunk after chunk, file after file.  Only
\* a media file is ever challenged, so a token kept for the next one is ignored.
Proceed(f, b) ==
    CASE b.off < Size[FilesOf[f][b.i]] -> [b EXCEPT !.pc = "put", !.try = 1]
      [] b.off = Size[FilesOf[f][b.i]] /\ b.i < Len(FilesOf[f]) ->
            [b EXCEPT !.pc = "reserve", !.i = @ + 1, !.off = 0]
      [] OTHER -> [b EXCEPT !.pc = "final"]

Reserved(f) ==
    /\ Answered(f, "reserve", "ok")
    /\ Send(f, Proceed(f, [br[f] EXCEPT !.ids = @ \cup {Current(f)}]))

\* The operator confirms the overwrite; a second challenge ends the attempt.
Confirm(f) ==
    /\ Answered(f, "reserve", "overwrite_required") /\ br[f].token = NoToken
    /\ Send(f, [br[f] EXCEPT !.token = reply[f].token])

NotReserved(f) ==
    /\ \/ Answered(f, "reserve", "overwrite_required")
       \/ Answered(f, "reserve", "error")
       \/ NoAnswer(f, "reserve")
    /\ Leave(f, "error")

Acknowledged(f) ==
    /\ Answered(f, "put", "ok")
    /\ IF reply[f].offset = br[f].off + 1
       THEN Send(f, Proceed(f, [br[f] EXCEPT !.off = reply[f].offset]))
       ELSE Leave(f, "refused")

\* A 5xx answer or a lost connection is retried, at most MaxTries attempts.
Retry(f) ==
    /\ Answered(f, "put", "503") \/ NoAnswer(f, "put")
    /\ IF br[f].try < MaxTries
       THEN Send(f, [br[f] EXCEPT !.try = @ + 1])
       ELSE Leave(f, "error")

\* Any other 4xx answer ends the attempt: no such session, or a conflict.
NotAcknowledged(f) ==
    /\ Awaiting(f, "put") /\ reply[f].status \in {"404", "409"}
    /\ Leave(f, IF reply[f].status = "409" THEN "refused" ELSE "gone")

\* Finalization is never retried.
Finished(f) ==
    \/ \E out \in {"saved", "failed"} : Answered(f, "final", out) /\ Leave(f, out)
    \/ NoAnswer(f, "final") /\ Leave(f, "error")

\* options.signal: the user aborts the transfer.
Abort(f) == br[f].pc \in {"put", "final"} /\ Leave(f, "aborted")

-----------------------------------------------------------------------------
(* The upload store and its endpoints. *)

\* The handled request leaves; its answer reaches the browser if it still waits.
Answer(r, a) ==
    /\ reqs' = reqs \ {r}
    /\ reply' = IF Request(r.form, br[r.form]) = r /\ reply[r.form].status = "none"
                THEN [reply EXCEPT ![r.form] = a] ELSE reply
    /\ UNCHANGED br

Sessions == {x \in Files : sess[x].state # "none"}
ReservedSize == MapThenSumSet(LAMBDA x : Size[x], Sessions)
\* UploadStore.get: a claimed or expired session is as good as none.
Usable(x) == sess[x].state = "open" /\ ~sess[x].expired
storeOnly == <<hnd, dest, ctime, lock, intruded, boot, foreign>>

Capacity(x) ==
    /\ Cardinality(Sessions) < MaxSessions
    /\ Cardinality({y \in Sessions : Owner[FormOf(y)] = Owner[FormOf(x)]}) < MaxPerOwner
    /\ ReservedSize + Size[x] <= MaxReserved

\* Mutant: the token is bound to the browser but not to the revision.
AnyRevisionMutant(r) == r.token.owner = Owner[r.form]

\* hmac.compare_digest(token, publication.token(owner)).
Consented(r) == r.token = Token(r.form)

\* create_upload: an existing destination needs the token of its revision.
CreateUpload(r) ==
    /\ r.kind = "reserve"
    /\ LET expected == IF r.file \in Media THEN Revision ELSE Absent IN
       \/ /\ expected # Absent /\ ~Consented(r)
          /\ Answer(r, [status |-> "overwrite_required", token |-> Token(r.form)])
          /\ UNCHANGED sess
       \/ /\ expected = Absent \/ Consented(r)
          /\ Capacity(r.file)
          /\ sess' = [sess EXCEPT ![r.file] = [NoSess EXCEPT !.state = "open",
                                                           !.expected = expected]]
          /\ Answer(r, [status |-> "ok"])
       \/ \* capacity is busy, or the staging volume is unavailable
          /\ expected = Absent \/ Consented(r)
          /\ Answer(r, [status |-> "error"])
          /\ UNCHANGED sess
    /\ UNCHANGED storeOnly

\* Mutant: only the exact offset is accepted, so a repeated chunk conflicts.
ExactOnlyMutant(r) ==
    /\ r.kind = "put"
    /\ \/ /\ Usable(r.file) /\ r.pos = Len(sess[r.file].data)
          /\ sess' = [sess EXCEPT ![r.file].data = Append(@, r.pos)]
          /\ Answer(r, [status |-> "ok", offset |-> r.pos + 1])
       \/ /\ Usable(r.file) /\ r.pos # Len(sess[r.file].data)
          /\ Answer(r, [status |-> "409"]) /\ UNCHANGED sess
    /\ UNCHANGED storeOnly

\* Mutant: the offset of a chunk is not compared with the session's.
BlindAppendMutant(r) ==
    /\ r.kind = "put" /\ Usable(r.file)
    /\ sess' = [sess EXCEPT ![r.file].data = Append(@, r.pos)]
    /\ Answer(r, [status |-> "ok", offset |-> r.pos + 1])
    /\ UNCHANGED storeOnly

\* UploadStore.append: the exact offset, or a byte-identical retry.
AppendChunk(r) ==
    /\ r.kind = "put"
    /\ LET s == sess[r.file]
           have == Len(s.data)
       IN
       \/ /\ ~Usable(r.file)
          /\ Answer(r, [status |-> "404"]) /\ UNCHANGED sess
       \/ /\ Usable(r.file) /\ r.pos < have /\ s.data[r.pos + 1] = r.pos
          /\ Answer(r, [status |-> "ok", offset |-> have]) /\ UNCHANGED sess
       \/ /\ Usable(r.file) /\ r.pos = have
          /\ sess' = [sess EXCEPT ![r.file].data = Append(@, r.pos)]
          /\ Answer(r, [status |-> "ok", offset |-> have + 1])
       \/ \* the write fails and is truncated away
          /\ Usable(r.file) /\ r.pos = have
          /\ Answer(r, [status |-> "503"]) /\ UNCHANGED sess
       \/ /\ Usable(r.file)
          /\ \/ r.pos > have
             \/ r.pos < have /\ s.data[r.pos + 1] # r.pos
          /\ Answer(r, [status |-> "409"]) /\ UNCHANGED sess
    /\ UNCHANGED storeOnly

\* cancel_upload: only a session nobody claimed.
CancelUpload(r) ==
    /\ r.kind = "cancel"
    /\ sess' = IF Usable(r.file) THEN [sess EXCEPT ![r.file] = NoSess] ELSE sess
    /\ reqs' = reqs \ {r}
    /\ UNCHANGED <<br, reply, storeOnly>>

\* SESSION_SECONDS without an accepted chunk pass.
Expire(x) ==
    /\ sess[x].state # "none" /\ ~sess[x].expired
    /\ sess' = [sess EXCEPT ![x].expired = TRUE]
    /\ UNCHANGED <<br, reqs, reply, storeOnly>>

\* Mutant: the sweep does not spare claimed sessions.
AnyExpiredMutant(x) == sess[x].state # "none" /\ sess[x].expired

\* Mutant: the sweep only looks for sessions that received something.
StartedExpiredMutant(x) ==
    sess[x].state = "open" /\ sess[x].expired /\ Len(sess[x].data) > 0

\* not session.claimed and session.expires <= time.monotonic().
Abandoned(x) == sess[x].state = "open" /\ sess[x].expired

\* UploadStore._sweep.
Sweep ==
    /\ \E x \in Files : Abandoned(x)
    /\ sess' = [x \in Files |-> IF Abandoned(x) THEN NoSess ELSE sess[x]]
    /\ UNCHANGED <<br, reqs, reply, storeOnly>>

Complete(x) == Usable(x) /\ Len(sess[x].data) = Size[x]

\* ChunkedUploadRoute.handle up to the claim: all sessions, or none.
Claim(r) ==
    /\ r.kind = "final"
    /\ \/ /\ \A x \in Keys(r.form) : Complete(x)
          /\ sess' = [x \in Files |-> IF x \in Keys(r.form)
                                      THEN [sess[x] EXCEPT !.state = "claimed"] ELSE sess[x]]
          /\ hnd' = [hnd EXCEPT ![r.form].pc = "stage"]
          /\ reqs' = reqs \ {r} /\ UNCHANGED <<br, reply>>
       \/ /\ ~\A x \in Keys(r.form) : Complete(x)
          /\ Answer(r, [status |-> "error"]) /\ UNCHANGED <<sess, hnd>>
    /\ UNCHANGED <<dest, ctime, lock, intruded, boot, foreign>>

-----------------------------------------------------------------------------
(* The consuming endpoint of a claimed form. *)

At(f, pc) == hnd[f].pc = pc
Goto(f, pc) == hnd' = [hnd EXCEPT ![f].pc = pc]
hndOnly == <<br, reqs, reply, sess, boot, foreign>>
Touch(as) == [a \in Artifact |-> IF a \in as THEN ctime[a] + 1 ELSE ctime[a]]
Expected(f) == sess[TheMedia(f)].expected
Mine(f) == Upload(TheMedia(f))

\* Mutant: claim does not rewind the handle, so nothing is left to read.
NotRewoundMutant(f) ==
    /\ At(f, "stage") /\ MediaOf(f) # {} /\ Goto(f, "publish")
    /\ UNCHANGED <<dest, ctime, lock, intruded, hndOnly>>

\* The file is copied to a private name and validated; either may fail, and
\* a request of a form without media ends here.
Stage(f) ==
    /\ At(f, "stage")
    /\ \/ /\ MediaOf(f) # {}
          /\ hnd' = [hnd EXCEPT ![f].pc = "publish", ![f].staged = sess[TheMedia(f)].data]
       \/ MediaOf(f) = {} /\ Goto(f, "saved")
       \/ Goto(f, "failed")
    /\ UNCHANGED <<dest, ctime, lock, intruded, hndOnly>>

\* publish: take _LOCK and compare the revision with the consent.
CheckRevision(f) ==
    /\ At(f, "publish") /\ lock = "free"
    /\ IF Revision = Expected(f)
       THEN Goto(f, "link") /\ lock' = f /\ intruded' = FALSE
       ELSE Goto(f, "failed") /\ UNCHANGED <<lock, intruded>>
    /\ UNCHANGED <<dest, ctime, hndOnly>>

\* os.link(staged, destination): fails if anything is there, or on its own.
LinkNew(f) ==
    /\ At(f, "link") /\ Expected(f) = Absent
    /\ \/ /\ dest = Absent /\ dest' = Mine(f) /\ ctime' = Touch({Mine(f)})
          /\ Goto(f, "audit") /\ UNCHANGED lock
       \/ Goto(f, "failed") /\ lock' = "free" /\ UNCHANGED <<dest, ctime>>
    /\ UNCHANGED <<intruded, hndOnly>>

\* os.link(destination, backup), which may fail; then inode, size and mtime once
\* more.
LinkBackup(f) ==
    /\ At(f, "link") /\ Expected(f) # Absent
    /\ \/ Goto(f, "failed") /\ lock' = "free" /\ UNCHANGED ctime
       \/ /\ dest # Absent /\ ctime' = Touch({dest})
          /\ IF dest = Expected(f)[1]
             THEN /\ hnd' = [hnd EXCEPT ![f].pc = "replace", ![f].backup = dest]
                  /\ UNCHANGED lock
             ELSE /\ hnd' = [hnd EXCEPT ![f].pc = "failed", ![f].backup = dest]
                  /\ lock' = "free"
    /\ UNCHANGED <<dest, intruded, hndOnly>>

\* os.link(staged, replacement); os.replace(replacement, destination).
Replace(f) ==
    /\ At(f, "replace")
    /\ \/ /\ dest' = Mine(f) /\ ctime' = Touch({Mine(f)})
          /\ Goto(f, "audit") /\ UNCHANGED lock
       \/ Goto(f, "failed") /\ lock' = "free" /\ UNCHANGED <<dest, ctime>>
    /\ UNCHANGED <<intruded, hndOnly>>

\* The body of the with statement: the audit event, then the lock is freed;
\* on failure the old artifact is wanted back if the destination is ours.
Audit(f) ==
    /\ At(f, "audit")
    /\ \/ Goto(f, "saved") /\ lock' = "free"
       \/ dest = Mine(f) /\ Goto(f, "restore") /\ UNCHANGED lock
       \/ dest # Mine(f) /\ Goto(f, "failed") /\ lock' = "free"
    /\ UNCHANGED <<dest, ctime, intruded, hndOnly>>

\* Mutant: the destination is unlinked even if an artifact was replaced.
RestoreUnlinksMutant(f) ==
    /\ At(f, "restore") /\ dest' = Absent
    /\ hnd' = [hnd EXCEPT ![f].pc = "failed", ![f].backup = Absent]
    /\ lock' = "free"
    /\ UNCHANGED <<ctime, intruded, hndOnly>>

\* destination.unlink() or os.replace(backup, destination); if that raises, the
\* new artifact stays and the backup is left to the cleanup.
Restore(f) ==
    /\ At(f, "restore")
    /\ \/ /\ dest' = hnd[f].backup
          /\ ctime' = Touch({hnd[f].backup})
          /\ hnd' = [hnd EXCEPT ![f].pc = "failed", ![f].backup = Absent]
       \/ Goto(f, "unrestored") /\ UNCHANGED <<dest, ctime>>
    /\ lock' = "free"
    /\ UNCHANGED <<intruded, hndOnly>>

\* Private links are removed (which moves the ctime of what they name), the
\* sessions are released and the browser is answered.
Release(f) ==
    /\ hnd[f].pc \in {"saved", "failed", "unrestored"}
    /\ ctime' = Touch({hnd[f].backup} \cup {Upload(x) : x \in MediaOf(f)})
    /\ sess' = [x \in Files |-> IF x \in Keys(f) THEN NoSess ELSE sess[x]]
    /\ hnd' = [hnd EXCEPT ![f].pc = "over", ![f].backup = Absent]
    /\ reply' = IF br[f].pc = "final" /\ reply[f].status = "none"
                THEN [reply EXCEPT ![f] = [status |-> IF At(f, "saved") THEN "saved"
                                                      ELSE "failed"]]
                ELSE reply
    /\ UNCHANGED <<br, reqs, dest, lock, intruded, boot, foreign>>

-----------------------------------------------------------------------------
(* Faults. *)

\* The process ends (close() releases what it held) and starts again: sessions,
\* handlers and the key are gone, connections break, the files stay.
Restart ==
    /\ boot < MaxRestarts /\ boot' = boot + 1
    /\ sess' = [x \in Files |-> NoSess]
    /\ hnd' = [f \in Forms |-> [hnd[f] EXCEPT !.pc = IF @ = "none" THEN "none" ELSE "over"]]
    /\ lock' = "free" /\ reqs' = {}
    /\ reply' = [f \in Forms |-> Silent]
    /\ UNCHANGED <<br, dest, ctime, intruded, foreign>>

\* Another program (a depot download, a reset of the download tool) removes or
\* replaces the artifact without taking _LOCK.
OutsideChange ==
    /\ foreign < MaxForeign /\ foreign' = foreign + 1
    /\ dest' \in {Absent, Outside(foreign + 1)} \ {dest}
    /\ intruded' = (intruded \/ lock # "free")
    /\ UNCHANGED <<br, reqs, reply, sess, hnd, ctime, lock, boot>>

-----------------------------------------------------------------------------
Browser(f) ==
    \/ Start(f) \/ Reserved(f) \/ Confirm(f) \/ NotReserved(f)
    \/ Acknowledged(f) \/ Retry(f) \/ NotAcknowledged(f)
    \/ Finished(f) \/ Abort(f)

Handle(r) == CreateUpload(r) \/ AppendChunk(r) \/ CancelUpload(r) \/ Claim(r)

Endpoint(f) ==
    \/ Stage(f) \/ CheckRevision(f) \/ LinkNew(f) \/ LinkBackup(f) \/ Replace(f)
    \/ Audit(f) \/ Restore(f) \/ Release(f)

Next ==
    \/ \E f \in Forms : Browser(f) \/ Endpoint(f)
    \/ \E r \in reqs : Handle(r)
    \/ \E x \in Files : Expire(x)
    \/ Sweep \/ Restart \/ OutsideChange

Spec == Init /\ [][Next]_vars

\* The endpoint runs to its finally clause, time passes and the sweep timer
\* fires; browsers may stop at any point.
Fairness ==
    /\ \A f \in Forms : WF_vars(Endpoint(f))
    /\ \A x \in Files : WF_vars(Expire(x))
    /\ WF_vars(Sweep)

FairSpec == Spec /\ Fairness

-----------------------------------------------------------------------------
(* Properties. *)

TypeOK ==
    /\ \A f \in Forms :
          /\ br[f].pc \in {"idle", "reserve", "put", "final", "done"}
          /\ br[f].i \in 1..Len(FilesOf[f]) /\ br[f].off \in 0..Size[Current(f)]
          /\ br[f].try \in 1..MaxTries /\ br[f].ids \subseteq Keys(f)
          /\ hnd[f].pc \in {"none", "stage", "publish", "link", "replace", "audit",
                            "restore", "saved", "failed", "unrestored", "over"}
          /\ hnd[f].backup \in Artifact \cup {Absent}
    /\ \A x \in Files :
          /\ sess[x].state \in {"none", "open", "claimed"} /\ sess[x].expired \in BOOLEAN
          /\ Len(sess[x].data) <= Size[x]
    /\ dest \in Artifact \cup {Absent} /\ ctime \in [Artifact -> Nat]
    /\ lock \in Forms \cup {"free"} /\ intruded \in BOOLEAN
    /\ boot \in 0..MaxRestarts /\ foreign \in 0..MaxForeign

\* What an upload puts at the destination is the whole file, every chunk once
\* and in order, whatever was lost, repeated or delayed on the way.
PublishedWhole ==
    \A f \in Forms : MediaOf(f) # {} /\ dest = Mine(f) =>
        hnd[f].staged = [k \in 1..Size[TheMedia(f)] |-> k - 1]

\* A browser is never refused a chunk because of its own retries: the server
\* answers a late or repeated chunk with the offset the browser expects.
RetriesAccepted == \A f \in Forms : br[f].out # "refused"

\* The sessions of a form are claimed together, and only while an endpoint that
\* will release them is running: the sweep never takes a claimed one.
ClaimedTogether ==
    \A f \in Forms : (\E x \in Keys(f) : sess[x].state = "claimed") =>
        /\ \A x \in Keys(f) : sess[x].state = "claimed"
        /\ hnd[f].pc \notin {"none", "over"}

\* An upload takes the place of an existing artifact only if the operator was
\* shown that artifact and confirmed; what a program outside the web process
\* puts there during the publication itself is the one exception, and not even
\* that is replaced by an upload that never had a confirmation.
ConsentKept ==
    [][\A f \in Forms : lock = f /\ dest' = Mine(f) /\ dest # Mine(f) =>
          \/ dest = Absent
          \/ /\ br[f].token # NoToken
             /\ intruded \/ dest = br[f].token.rev[1]]_vars

\* A publication that fails after taking the lock hands back the artifact the
\* consent was for, or none if there was none.  Where the restoration itself
\* fails, the destination keeps the upload that was published: it is never left
\* empty.
FailureRestores ==
    [][\A f \in Forms : lock = f /\ ~intruded =>
          /\ hnd'[f].pc = "failed" =>
                dest' = (IF Expected(f) = Absent THEN Absent ELSE Expected(f)[1])
          /\ hnd'[f].pc = "unrestored" => dest' = Mine(f)]_vars

\* Staging is never kept for ever: a session that nobody finishes or cancels,
\* or whose id never reached the browser, expires and is swept, and a claimed
\* one is released by its endpoint.
SessionsReleased ==
    \A x \in Files : (sess[x].state # "none") ~> (sess[x].state = "none")
=============================================================================
