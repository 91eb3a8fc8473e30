--------------------------- MODULE AppendOnlyFile ---------------------------
(***************************************************************************)
(* The append only file of Redis 4.0.0 (src/redis-4.0.0/src/aof.c, and the  *)
(* parts of server.c that drive it): the buffer written before the replies *)
(* are sent, the fsync policies, the background rewrite with the diff that *)
(* flows to the child through a pipe, switching the file on and off at run *)
(* time, write errors, crashes and the loading of the file.                *)
(*                                                                         *)
(* A write is a number and the database it goes to; the dataset is the     *)
(* sequence of the writes executed.  In a file a write takes two units, so *)
(* that it can be written, sent and lost by halves, and a SELECT takes one. *)
(* Times that have or have not elapsed are chosen at will.                 *)
(***************************************************************************)
EXTENDS Integers, Sequences, FiniteSets

CONSTANTS
  DB,          \* the databases
  Setting,     \* the settings looked at: appendfsync and no-appendfsync-on-rewrite
  PipeSize,    \* the units the pipe to the child holds
  MaxWrites,   \* bound: the writes executed
  MaxFaults    \* bound: faults, crashes and BGSAVEs

ASSUME AofAssumption ==
  /\ IsFiniteSet(DB) /\ DB \subseteq Nat
  /\ Setting \subseteq {"always", "everysec", "no"} \X BOOLEAN
  /\ PipeSize \in Nat \ {0} /\ MaxWrites \in Nat /\ MaxFaults \in Nat

VARIABLES
  s,       \* the server, its rewrite child with the pipe, and the file
  waiting, \* the writes whose client waits for the reply
  acked,   \* history: the writes whose reply was sent under "always", the file switched on
  risk,    \* history: those of acked that a skipped or failed fsync leaves to chance
  next,    \* the number of the next write
  faults   \* how many faults may still happen

vars == <<s, waiting, acked, risk, next, faults>>

-----------------------------------------------------------------------------
(* Files                                                                   *)

\* feedAppendOnlyFile: the units of a write, after a SELECT if the database changes.
Units(id, db, selected) ==
  (IF db # selected THEN <<<<"select", db>>>> ELSE <<>>) \o <<<<"head", id>>, <<"tail", id>>>>

\* The loop of loadAppendOnlyFile over one unit: `db` is the database selected (none is known
\* after the base of the file), `open` the write half read, `valid` valid_up_to.
LoadUnit(a, u) ==
  LET b == [a EXCEPT !.read = @ + 1]
      whole == [b EXCEPT !.valid = b.read]
  IN CASE u[1] = "select" /\ a.open = 0 -> [whole EXCEPT !.db = u[2]]
       [] u[1] = "head" /\ a.open = 0 -> [b EXCEPT !.open = u[2]]
       [] u[1] = "tail" /\ a.open = u[2] ->
            [whole EXCEPT !.open = 0, !.data = Append(@, [id |-> u[2], db |-> a.db])]
       [] OTHER -> [b EXCEPT !.ok = FALSE]

LoadAppendOnlyFile(base, tail) ==
  LET begin == [data |-> base, db |-> -1, open |-> 0, read |-> 0, valid |-> 0, ok |-> TRUE]
      load[i \in 0..Len(tail)] == IF i = 0 THEN begin ELSE LoadUnit(load[i - 1], tail[i])
  IN load[Len(tail)]

Ids(data) == {data[i].id : i \in DOMAIN data}

-----------------------------------------------------------------------------
(* The state x of the server and its files; where the file system or the   *)
(* time decide, the set of the outcomes, each with the faults it takes and  *)
(* whether the process exits.                                              *)

Outcome(x, took, exit) == [x |-> x, took |-> took, exit |-> exit, replied |-> FALSE]
Fine(x) == Outcome(x, 0, FALSE)

\* A process starts with the settings and the file of x, of which tail is left, up to synced
\* on disk: initServer, loadDataFromDisk with aof-load-truncated, and "appendonly yes" in the
\* configuration file.  It is down if the file is malformed.
Start(x, tail, synced, late) ==
  LET loaded == LoadAppendOnlyFile(x.base, tail)
      kept == SubSeq(tail, 1, loaded.valid)
  IN [policy |-> x.policy, skip |-> x.skip, state |-> IF loaded.ok THEN "on" ELSE "down",
      fd |-> "open", data |-> loaded.data, buf |-> <<>>,
      selected |-> -1, status |-> "ok", postponed |-> FALSE, bio |-> {},
      scheduled |-> FALSE, rdb |-> "none",
      child |-> "none", childBase |-> <<>>, childDiff |-> <<>>, pipe |-> <<>>,
      stop |-> FALSE, rewriteBuf |-> <<>>,
      base |-> x.base, tail |-> kept, late |-> late,
      synced |-> IF synced < Len(kept) THEN synced ELSE Len(kept)]

\* What is left after write(2): the n first units are in the file.
Written(x, n) ==
  [x EXCEPT !.tail = @ \o SubSeq(x.buf, 1, n), !.buf = SubSeq(@, n + 1, Len(@)),
            !.postponed = FALSE]

\* Under "always", `late` is what the next fsync has to make up for: nothing, the units
\* written since the last one, or the whole of a new file.
Late(x) == [x EXCEPT !.late = IF x.policy = "always" /\ @ = "no" THEN "tail" ELSE @]

\* aof_fsync; what it returns is ignored.
Fsync(x, left) ==
  {Fine([x EXCEPT !.synced = Len(x.tail), !.late = "no"])}
    \cup (IF left = 0 THEN {} ELSE {Outcome(Late(x), 1, FALSE)})

\* A successful write, and the fsync the policy asks for: at once, or by the background
\* thread if a second has passed and no fsync is pending; none while a child is active, with
\* no-appendfsync-on-rewrite.
WriteOk(x, left) ==
  LET y == [Written(x, Len(x.buf)) EXCEPT !.status = "ok"]
      skipped == x.skip /\ (x.child # "none" \/ x.rdb # "none")
  IN CASE skipped -> {Fine(Late(y))}
       [] ~ skipped /\ x.policy = "always" -> Fsync(y, left)
       [] ~ skipped /\ x.policy = "everysec" ->
            {Fine(y)} \cup (IF x.bio = {} THEN {Fine([y EXCEPT !.bio = {"current"}])} ELSE {})
       [] ~ skipped /\ x.policy = "no" -> {Fine(y)}

\* Mistake: a short write that ftruncate(2) could not undo is written again.
WriteErrorRewrites(x, n) == [Written(x, n) EXCEPT !.buf = x.buf, !.status = "err"]

\* A write error; n units of a short write stay in the file.
WriteError(x, n) == [Written(x, n) EXCEPT !.status = "err"]

\* Under "always" the error is fatal.
WriteFails(x, n, took) ==
  Outcome(WriteError(x, n), took, x.policy = "always")

\* flushAppendOnlyFile
FlushAppendOnlyFile(x, force, left) ==
  LET pending == x.policy = "everysec" /\ ~ force /\ x.bio # {}
      written == IF x.fd # "open" THEN {WriteFails(x, 0, 0)}
                 ELSE WriteOk(x, left) \cup (IF left = 0 THEN {}
                                       ELSE {WriteFails(x, n, 1) : n \in 0..(Len(x.buf) - 1)})
  IN CASE x.buf = <<>> -> {Fine(x)}
       [] x.buf # <<>> /\ pending /\ ~ x.postponed -> {Fine([x EXCEPT !.postponed = TRUE])}
       [] x.buf # <<>> /\ pending /\ x.postponed -> {Fine(x)} \cup written
       [] x.buf # <<>> /\ ~ pending -> written

\* rewriteAppendOnlyFileBackground, called with no child: fork, unless it fails.
RewriteAppendOnlyFileBackground(x, left) ==
  {Fine([x EXCEPT !.child = "run", !.childBase = x.data, !.childDiff = <<>>, !.stop = FALSE,
                  !.scheduled = FALSE, !.selected = -1])}
    \cup (IF left = 0 THEN {} ELSE {Outcome(x, 1, FALSE)})

\* Mistake: a failed rewrite is not tried again.
CleanupGivesUp(x) ==
  [x EXCEPT !.child = "none", !.childBase = <<>>, !.childDiff = <<>>, !.pipe = <<>>,
            !.rewriteBuf = <<>>]

\* backgroundRewriteDoneHandler, from `cleanup` on
Cleanup(x) ==
  [x EXCEPT !.child = "none", !.childBase = <<>>, !.childDiff = <<>>, !.pipe = <<>>,
            !.rewriteBuf = <<>>, !.scheduled = @ \/ x.state = "wait"]

\* Mistake: the new file is taken to be on disk as far as the old one was.
ReplacedAsSynced(x) == [x EXCEPT !.base = x.childBase, !.tail = x.childDiff \o x.rewriteBuf]

\* The rewritten file takes the place of the old one: all its units, those fsynced by the
\* child and those the parent appends.
Replaced(x) ==
  [x EXCEPT !.base = x.childBase, !.tail = x.childDiff \o x.rewriteBuf,
            !.synced = Len(x.childDiff), !.late = "no"]

\* The fsyncs pending in the background thread, once the file they are for is closed
OldJobs(x) == IF x.bio = {} THEN {} ELSE {"old"}

\* Mistake: the parent's part of the new file is not fsynced.
SwitchFileUnsynced(x, left) ==
  {Fine([x EXCEPT !.fd = "open", !.bio = OldJobs(x), !.selected = -1, !.buf = <<>>])}

\* The server goes on with the new file, fsyncs it as the policy asks and drops the buffer,
\* for the rewrite buffer held the same writes.
SwitchFile(x, left) ==
  LET y == [x EXCEPT !.fd = "open", !.bio = OldJobs(x), !.selected = -1, !.buf = <<>>]
  IN CASE x.policy = "always" -> Fsync([y EXCEPT !.late = "file"], left)
       [] x.policy = "everysec" -> {Fine([y EXCEPT !.bio = @ \cup {"current"}])}
       [] x.policy = "no" -> {Fine(y)}

\* backgroundRewriteDoneHandler
BackgroundRewriteDone(x, left) ==
  LET replaced == Replaced(x)
      switched == IF x.fd = "none" THEN {Fine(replaced)} ELSE SwitchFile(replaced, left)
      Done(y) == Cleanup([y EXCEPT !.state = IF @ = "wait" THEN "on" ELSE @])
  IN IF x.child = "ok"
     THEN {[o EXCEPT !.x = Done(@)] : o \in switched}
            \cup (IF left = 0 THEN {} ELSE {Outcome(Cleanup(x), 1, FALSE)})
     ELSE {Fine(Cleanup(x))}

-----------------------------------------------------------------------------
(* The actions                                                             *)

\* The process is up: it did not refuse its file.
Up == s.state # "down"

\* The writes a step acknowledges: their replies are sent, under "always" with the file on.
Sent(o) == IF o.replied /\ ~ o.exit /\ s.policy = "always" /\ s.state = "on" THEN waiting ELSE {}

\* What follows a handler: the process goes on, or it exits and is started again.
Become(o) ==
  /\ s' = IF o.exit THEN Start(o.x, o.x.tail, o.x.synced, o.x.late) ELSE o.x
  /\ faults' = faults - o.took
  /\ waiting' = IF o.exit \/ o.replied THEN {} ELSE waiting
  /\ acked' = acked \cup Sent(o)
  /\ risk' = CASE o.x.late = "no" -> {}
               [] o.x.late = "tail" -> risk \cup Sent(o)
               [] o.x.late = "file" -> acked'

\* A command that writes: call, propagate, feedAppendOnlyFile.
Write(db) ==
  LET units == Units(next, db, s.selected)
      fed == IF s.state = "off" THEN s
             ELSE [s EXCEPT !.selected = db,
                            !.buf = IF s.state = "on" THEN @ \o units ELSE @,
                            !.rewriteBuf = IF s.child # "none" THEN @ \o units ELSE @]
  IN /\ Up /\ s.status = "ok" /\ next <= MaxWrites
     /\ s' = [fed EXCEPT !.data = Append(@, [id |-> next, db |-> db])]
     /\ next' = next + 1 /\ waiting' = waiting \cup {next}
     /\ UNCHANGED <<acked, risk, faults>>

\* beforeSleep: flush, then send the replies.
BeforeSleep ==
  /\ Up
  /\ \E o \in FlushAppendOnlyFile(s, FALSE, faults) : Become([o EXCEPT !.replied = TRUE])
  /\ UNCHANGED next

\* serverCron: start a scheduled rewrite; else look after the children, or start a rewrite
\* if the file has grown; then flush what was postponed and retry after an error.
ServerCron(grown) ==
  LET idle == s.child = "none" /\ s.rdb = "none"
      exited == s.child \in {"ok", "err"}
      first == IF idle /\ (s.scheduled \/ grown)
               THEN RewriteAppendOnlyFileBackground(s, faults)
               ELSE IF exited THEN BackgroundRewriteDone(s, faults)
               ELSE {Fine([s EXCEPT !.rdb = IF @ = "exited" THEN "none" ELSE @])}
      Flush(o) == {[f EXCEPT !.took = @ + o.took] :
                     f \in FlushAppendOnlyFile(o.x, FALSE, faults - o.took)}
      Postponed(o) == IF o.x.postponed THEN Flush(o) ELSE {o}
      Retry(o) == {o} \cup (IF o.x.status = "err" /\ ~ o.exit THEN Flush(o) ELSE {})
  IN /\ Up /\ (grown => idle /\ ~ s.scheduled)
     /\ \E o \in UNION {Retry(q) : q \in UNION {Postponed(p) : p \in first}} : Become(o)
     /\ UNCHANGED next

\* BGREWRITEAOF
BgRewriteAof ==
  /\ Up /\ s.child = "none"
  /\ IF s.rdb # "none" THEN s' = [s EXCEPT !.scheduled = TRUE] /\ UNCHANGED <<waiting, acked, risk, faults>>
     ELSE \E o \in RewriteAppendOnlyFileBackground(s, faults) : Become(o)
  /\ UNCHANGED next

\* A BGSAVE child starts, and exits.
BgSave ==
  /\ Up /\ s.child = "none" /\ s.rdb = "none" /\ faults > 0
  /\ s' = [s EXCEPT !.rdb = "run"] /\ faults' = faults - 1
  /\ UNCHANGED <<waiting, acked, risk, next>>
BgSaveExit ==
  /\ s.rdb = "run"
  /\ s' = [s EXCEPT !.rdb = "exited"]
  /\ UNCHANGED <<waiting, acked, risk, next, faults>>

\* stopAppendOnly after the fsync: the file is closed and the child killed.
Stopped(x) ==
  LET closed == [x EXCEPT !.fd = "none", !.bio = OldJobs(x), !.selected = -1, !.state = "off"]
  IN IF x.child = "none" THEN closed
     ELSE [closed EXCEPT !.child = "none", !.childBase = <<>>, !.childDiff = <<>>,
                         !.pipe = <<>>, !.rewriteBuf = <<>>]

\* CONFIG SET appendonly no (stopAppendOnly)
StopAppendOnly ==
  /\ s.state \in {"wait", "on"}
  /\ \E o \in FlushAppendOnlyFile(s, TRUE, faults) :
       IF o.exit THEN Become(o)
       ELSE \E f \in Fsync(o.x, faults - o.took) :
              Become([f EXCEPT !.x = Stopped(@), !.took = @ + o.took])
  /\ UNCHANGED next

\* CONFIG SET appendonly yes (startAppendOnly); when the rewrite cannot be started the file
\* is closed again, but aof_fd keeps its number.
StartAppendOnly ==
  LET opened == [s EXCEPT !.fd = "open"]
      forked == IF s.child # "none" THEN {Fine(s)}
                ELSE RewriteAppendOnlyFileBackground(opened, faults)
  IN /\ s.state = "off"
     /\ IF s.rdb # "none"
        THEN s' = [opened EXCEPT !.scheduled = TRUE, !.state = "wait"] /\ UNCHANGED <<waiting, acked, risk, faults>>
        ELSE \E o \in forked :
               Become([o EXCEPT !.x = IF @.child = "run" /\ s.child = "none"
                                      THEN [@ EXCEPT !.state = "wait"]
                                      ELSE [@ EXCEPT !.fd = "stale"]])
     /\ UNCHANGED next

\* aofChildWriteDiffData: write until the pipe is full.
ChildWriteDiffData(x) ==
  LET room == PipeSize - Len(x.pipe)
      n == IF room < Len(x.rewriteBuf) THEN room ELSE Len(x.rewriteBuf)
  IN [x EXCEPT !.pipe = @ \o SubSeq(x.rewriteBuf, 1, n),
               !.rewriteBuf = SubSeq(@, n + 1, Len(@))]

SendDiff ==
  /\ s.child # "none" /\ ~ s.stop /\ s.rewriteBuf # <<>>
  /\ s' = ChildWriteDiffData(s)
  /\ UNCHANGED <<waiting, acked, risk, next, faults>>

\* aofReadDiffFromParent, in the child
ReadDiffFromParent(x) == [x EXCEPT !.childDiff = @ \o x.pipe, !.pipe = <<>>]

ChildReads ==
  /\ s.child = "run" /\ s.pipe # <<>>
  /\ s' = ReadDiffFromParent(s)
  /\ UNCHANGED <<waiting, acked, risk, next, faults>>

\* rewriteAppendOnlyFile: the child asks the parent to stop sending ...
ChildAsks ==
  /\ s.child = "run"
  /\ s' = [s EXCEPT !.child = "asked"]
  /\ UNCHANGED <<waiting, acked, risk, next, faults>>

\* ... the parent agrees (aofChildPipeReadable) ...
ChildPipeReadable ==
  /\ s.child = "asked" /\ ~ s.stop
  /\ s' = [s EXCEPT !.stop = TRUE]
  /\ UNCHANGED <<waiting, acked, risk, next, faults>>

\* ... and the child reads the last of the diff, writes and fsyncs its file and exits.
ChildFinishes ==
  /\ s.child = "asked" /\ s.stop
  /\ s' = [ReadDiffFromParent(s) EXCEPT !.child = "ok"]
  /\ UNCHANGED <<waiting, acked, risk, next, faults>>

\* The child fails, is killed, or does not hear from the parent in time.
ChildFails ==
  /\ s.child \in {"run", "asked"} /\ faults > 0
  /\ s' = [s EXCEPT !.child = "err"] /\ faults' = faults - 1
  /\ UNCHANGED <<waiting, acked, risk, next>>

\* The background thread fsyncs the file it was given first.
BioFsync ==
  LET job == IF "old" \in s.bio THEN "old" ELSE "current"
  IN /\ s.bio # {}
     /\ \E o \in IF job = "current" THEN Fsync(s, faults) ELSE {Fine(s)} :
          Become([o EXCEPT !.x.bio = @ \ {job}])
     /\ UNCHANGED next

\* The process is killed: what was written is in the file.
Kill == Up /\ faults > 0 /\ Become(Outcome(s, 1, TRUE)) /\ UNCHANGED next

\* The machine stops: what was not fsynced is lost, in part or as a whole.
PowerLoss ==
  /\ Up /\ faults > 0 /\ faults' = faults - 1
  /\ \E cut \in s.synced..Len(s.tail) : s' = Start(s, SubSeq(s.tail, 1, cut), cut, "no")
  /\ waiting' = {} /\ acked' = acked \ risk /\ risk' = {} /\ UNCHANGED next

\* SHUTDOWN (prepareForShutdown), and a new start: the file is fsynced, not flushed.
Shutdown ==
  /\ Up /\ faults > 0
  /\ ~ (s.state = "wait" /\ s.child # "none")
  /\ \E o \in IF s.state = "off" THEN {Fine(s)} ELSE Fsync(s, faults - 1) :
       Become([o EXCEPT !.took = @ + 1, !.exit = TRUE])
  /\ UNCHANGED next

Init ==
  /\ \E c \in Setting :
       s = Start([policy |-> c[1], skip |-> c[2], base |-> <<>>], <<>>, 0, "no")
  /\ waiting = {} /\ acked = {} /\ risk = {} /\ next = 1 /\ faults = MaxFaults

Next ==
  \/ \E db \in DB : Write(db)
  \/ \E grown \in BOOLEAN : ServerCron(grown)
  \/ BeforeSleep \/ BgRewriteAof \/ BgSave \/ BgSaveExit
  \/ StopAppendOnly \/ StartAppendOnly
  \/ SendDiff \/ ChildReads \/ ChildAsks \/ ChildPipeReadable \/ ChildFinishes \/ ChildFails
  \/ BioFsync \/ Kill \/ PowerLoss \/ Shutdown
  \/ ~ Up /\ UNCHANGED vars

Spec == Init /\ [][Next]_vars

\* The event loop and its timer run on, and the children come to an end; the file need not
\* grow.
FairSpec ==
  Spec /\ WF_vars(ServerCron(FALSE)) /\ WF_vars(BgSaveExit) /\ WF_vars(ChildAsks)
       /\ WF_vars(ChildPipeReadable) /\ WF_vars(ChildFinishes)

-----------------------------------------------------------------------------
(* Properties                                                              *)

\* The server's state has its type, and the pipe holds no more than it can.
TypeOK ==
  /\ s.state \in {"off", "wait", "on", "down"} /\ s.fd \in {"none", "open", "stale"}
  /\ s.child \in {"none", "run", "asked", "ok", "err"} /\ s.rdb \in {"none", "run", "exited"}
  /\ s.selected \in DB \cup {-1} /\ Len(s.pipe) <= PipeSize
  /\ s.synced \in 0..Len(s.tail) /\ s.late \in {"no", "tail", "file"}
  /\ risk \subseteq acked /\ acked \subseteq 1..MaxWrites /\ faults \in 0..MaxFaults

\* While the file is switched on, the file and the buffer rebuild the dataset: every write
\* once, in order, in its database - before, during and after a rewrite, a failed write or a
\* restart.
FileRebuildsDataset ==
  s.state = "on" =>
    LET loaded == LoadAppendOnlyFile(s.base, s.tail \o s.buf)
    IN loaded.ok /\ loaded.open = 0 /\ loaded.data = s.data

\* Under "always", "we have the contract with the user that on acknowledged write data is
\* synced on disk" (flushAppendOnlyFile): also when a rewritten file replaces the old one, and
\* whatever crashes.  The contract is off for a write acknowledged after an fsync that
\* no-appendfsync-on-rewrite has skipped or that has failed, and for all of a new file whose
\* fsync has failed, until an fsync succeeds.
AckedIsSynced ==
  acked \ risk \subseteq Ids(LoadAppendOnlyFile(s.base, SubSeq(s.tail, 1, s.synced)).data)

\* A file that is being switched on gets switched on (or off again): the first rewrite is
\* tried again until it succeeds.
WaitEnds == s.state = "wait" ~> s.state # "wait"

\* "AOF write errors: in this case we have a buffer to flush as well and clear the AOF error
\* in case of success to make the DB writable again" (serverCron): while writes are refused
\* because of an AOF error, there is something to flush.
ErrorHasBuffer == s.status = "err" => s.buf # <<>>
=============================================================================
