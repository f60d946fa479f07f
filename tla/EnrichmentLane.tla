---------------------------- MODULE EnrichmentLane ----------------------------
(***************************************************************************)
(* The enrichment of one repository's issues (issue-enrichment.ts) and the *)
(* daemon whose cycles begin it (daemon.ts).  A pass lists the issues that *)
(* were updated since the repository's watermark, analyses them, keeps one *)
(* comment on each, and advances the watermark.  A cycle of the daemon     *)
(* does not wait for the pass it begins; an operator may run passes over   *)
(* chosen issues in another process.  A lease with a time to live keeps    *)
(* passes apart.                                                           *)
(*                                                                         *)
(* Times are only ever compared with the watermark and with the start of a *)
(* pass, so the model has the outcomes of these comparisons: the issues    *)
(* updated since.  A step of a pass is what it does between two awaits.    *)
(***************************************************************************)
EXTENDS Naturals, Sequences, FiniteSets

CONSTANTS
  Issues, Nothing,   \* the issues of the repository
  Daemon,            \* the process that runs cycles
  Operators,         \* processes that run issue-enrichment-run
  Nobody, Orphan,    \* no holder of the lease; a dead one
  MaxEdits,          \* bound on the edits of an issue, and of any two
  Body,              \* of each version of an issue: the comment made for it
  MaxIssues,         \* maxIssuesPerCycle
  MaxFailures        \* bound on what goes wrong, on closings and operators' runs

Procs == {Daemon} \cup Operators
Versions == 0..MaxEdits
Bodies == {Body[v] : v \in Versions}

ASSUME LaneConstants ==
  /\ Daemon \notin Operators
  /\ {Nobody, Orphan} \cap Procs = {}
  /\ Nobody # Orphan
  /\ Nothing \notin Issues
  /\ IsFiniteSet(Issues)
  /\ {MaxEdits, MaxIssues, MaxFailures} \subseteq Nat
  /\ DOMAIN Body = Versions

VARIABLES
  version,     \* of each issue: what its text is (external)
  open,        \* the open issues (external)
  comments,    \* of each issue: the bodies of the bot's comments (external)
  activated,   \* the repository has a watermark
  unseen,      \* the issues updated since the watermark
  row,         \* issue_enrichment_records
  lease,       \* issue_enrichment_run_leases, for a limit of one
  pass,        \* of each process: the pass it runs
  cycle,       \* of the daemon: running a cycle, between two, or down
  heartbeat,   \* daemon_heartbeat: the row of the last cycle that began
  cleanup,     \* worktreeCleanupPending
  owed,        \* issues edited since the repository was activated (history)
  overlapped,  \* a running pass lost its lease (history)
  torn,        \* issues whose row tells of an older comment (history)
  failures

github == <<version, open, comments>>
watermark == <<activated, unseen>>
daemon == <<cycle, heartbeat, cleanup>>
history == <<owed, overlapped, torn>>
vars == <<github, watermark, row, lease, pass, daemon, history, failures>>

Rows == [status : {"none", "posted", "failed", "deferred"}, version : Versions, cooling : BOOLEAN]
NoRow == [status |-> "none", version |-> 0, cooling |-> FALSE]
FailedRow == [NoRow EXCEPT !.status = "failed"]
DeferredRow(cooling) == [NoRow EXCEPT !.status = "deferred", !.cooling = cooling]
PostedRow(v) == [NoRow EXCEPT !.status = "posted", !.version = v]

\* ours: the cycle that began the pass is the last one.  since: updated after
\* the watermark that the pass read; later: after its checkedAt; moved: after it
\* listed them.  probes, todo and held are the states of the admission ledger;
\* used counts its active entries.
NoPass ==
  [at |-> "idle", manual |-> FALSE, force |-> FALSE, ours |-> FALSE, since |-> {},
   later |-> {}, moved |-> {}, seen |-> [i \in Issues |-> 0], probes |-> {}, todo |-> {},
   held |-> {}, issue |-> Nothing, existing |-> NoRow, found |-> FALSE, used |-> 0,
   keep |-> FALSE]
Passes ==
  [at : {"idle", "list", "scan", "probe", "analyse", "find", "post", "record"},
   manual : BOOLEAN, force : BOOLEAN, ours : BOOLEAN, since : SUBSET Issues,
   later : SUBSET Issues, moved : SUBSET Issues, seen : [Issues -> Versions],
   probes : SUBSET Issues, todo : SUBSET Issues, held : SUBSET Issues,
   issue : Issues \cup {Nothing}, existing : Rows, found : BOOLEAN, used : Nat,
   keep : BOOLEAN]

NoLease == [holder |-> Nobody, expired |-> FALSE]
Running(p) == pass[p].at # "idle"
TypeOK ==
  /\ version \in [Issues -> Versions]
  /\ open \subseteq Issues
  /\ comments \in [Issues -> Seq(Bodies)]
  /\ activated \in BOOLEAN
  /\ unseen \subseteq Issues
  /\ row \in [Issues -> Rows]
  /\ lease \in [holder : Procs \cup {Nobody, Orphan}, expired : BOOLEAN]
  /\ lease.holder = Nobody => ~ lease.expired
  /\ pass \in [Procs -> Passes]
  /\ \A p \in Procs :
       /\ pass[p].at \in {"idle", "list", "scan"} <=> pass[p].issue = Nothing
       /\ pass[p].used <= MaxIssues
  /\ cycle \in {"running", "between", "down"}
  /\ heartbeat \in [event : {"none", "open", "complete", "failed"},
                    error : {"none", "own", "foreign"}]
  /\ cleanup \in BOOLEAN
  /\ owed \subseteq Issues
  /\ overlapped \in BOOLEAN
  /\ torn \subseteq Issues
  /\ failures \in 0..MaxFailures

Init ==
  /\ version = [i \in Issues |-> 0]
  /\ open = Issues
  /\ comments = [i \in Issues |-> <<>>]
  /\ activated = FALSE
  /\ unseen = Issues
  /\ row = [i \in Issues |-> NoRow]
  /\ lease = NoLease
  /\ pass = [p \in Procs |-> NoPass]
  /\ cycle = "down"
  /\ heartbeat = [event |-> "none", error |-> "none"]
  /\ cleanup = FALSE
  /\ owed = {}
  /\ overlapped = FALSE
  /\ torn = {}
  /\ failures = 0

-----------------------------------------------------------------------------
(* GitHub.  Whatever happens to an issue updates it, the bot's own comment  *)
(* too.                                                                     *)

Touched(table, i) == [table EXCEPT ![i].cooling = FALSE]

\* The passes when an issue has been updated.
Noticed(i) ==
  [p \in Procs |->
     [pass[p] EXCEPT
        !.since = @ \cup {j \in {i} : pass[p].at = "list" /\ ~ pass[p].manual},
        !.later = @ \cup {j \in {i} : Running(p) /\ ~ pass[p].manual},
        !.moved = @ \cup {j \in {i} : Running(p) /\ pass[p].at # "list"}]]

\* An update of an issue that no pass makes.
Touch(i) ==
  /\ unseen' = unseen \cup {i}
  /\ row' = [row EXCEPT ![i].cooling = FALSE]
  /\ pass' = Noticed(i)
  /\ UNCHANGED <<comments, activated, lease, daemon, overlapped, torn>>

Edit(i) ==
  /\ \A j \in Issues \ {i} : version[i] + version[j] < MaxEdits
  /\ version[i] < MaxEdits
  /\ version' = [version EXCEPT ![i] = @ + 1]
  /\ owed' = IF activated THEN owed \cup {i} ELSE owed
  /\ Touch(i)
  /\ UNCHANGED <<open, failures>>

CloseOrReopen(i) ==
  /\ failures < MaxFailures
  /\ failures' = failures + 1
  /\ open' = IF i \in open THEN open \ {i} ELSE open \cup {i}
  /\ Touch(i)
  /\ UNCHANGED <<version, owed>>

-----------------------------------------------------------------------------
(* The lease.                                                               *)

MayAcquire == lease.holder = Nobody \/ lease.expired

\* A pass that is still running when its row is swept has lost its lease.
Swept ==
  overlapped' = (overlapped \/ \E p \in Procs : lease.holder = p /\ Running(p))

Acquire(p) ==
  /\ MayAcquire
  /\ lease' = [holder |-> p, expired |-> FALSE]
  /\ Swept

\* Bug: a lease that has expired is not cleared.
ReleasedInName(p) == IF lease.holder = p THEN [lease EXCEPT !.holder = Nobody] ELSE lease

Released(p) == IF lease.holder = p THEN NoLease ELSE lease

ExpireLease ==
  /\ lease.holder # Nobody
  /\ ~ lease.expired
  /\ lease' = [lease EXCEPT !.expired = TRUE]
  /\ \/ lease.holder = Orphan /\ UNCHANGED failures
     \/ lease.holder # Orphan /\ failures < MaxFailures /\ failures' = failures + 1
  /\ UNCHANGED <<github, watermark, row, pass, daemon, history>>

\* clear-issue-enrichment-leases.
OperatorClears ==
  /\ lease.holder # Nobody
  /\ failures < MaxFailures
  /\ failures' = failures + 1
  /\ lease' = NoLease
  /\ Swept
  /\ UNCHANGED <<github, watermark, row, pass, daemon, owed, torn>>

-----------------------------------------------------------------------------
(* The daemon's cycle.                                                      *)

NewPass(since) == [NoPass EXCEPT !.at = "list", !.ours = TRUE, !.since = since]

\* A repository without a watermark gets one and is not scanned, or all its
\* issues are (processExistingOpenIssuesOnActivation).
BeginPass ==
  \/ /\ ~ Running(Daemon)
     /\ \/ /\ ~ activated
           /\ MayAcquire
           /\ Swept
           /\ lease' = NoLease
           /\ activated' = TRUE
           /\ unseen' = {}
           /\ UNCHANGED pass
        \/ /\ Acquire(Daemon)
           /\ pass' = [pass EXCEPT ![Daemon] = NewPass(IF activated THEN unseen ELSE Issues)]
           /\ UNCHANGED watermark
        \/ /\ ~ MayAcquire
           /\ UNCHANGED <<pass, watermark, lease, overlapped>>
  \/ /\ Running(Daemon)
     /\ pass' = [pass EXCEPT ![Daemon].ours = FALSE]
     /\ UNCHANGED <<watermark, lease, overlapped>>

\* Bug: the cycle begins its pass before it looks for a due cleanup.
StartCyclePassFirst ==
  /\ cycle # "running"
  /\ cycle' = "running"
  /\ heartbeat' = [event |-> "open", error |-> "none"]
  /\ BeginPass
  /\ \E due \in BOOLEAN :
       cleanup' = ((cleanup \/ due) /\ pass'[Daemon].at # "idle")
  /\ UNCHANGED <<github, row, owed, torn, failures>>

\* A due cleanup waits for a cycle that finds no pass of this process; it is
\* synchronous, and done even if it fails.
StartCycle ==
  /\ cycle # "running"
  /\ cycle' = "running"
  /\ heartbeat' = [event |-> "open", error |-> "none"]
  /\ \E due \in BOOLEAN : cleanup' = ((cleanup \/ due) /\ Running(Daemon))
  /\ BeginPass
  /\ UNCHANGED <<github, row, owed, torn, failures>>

EndCycle ==
  /\ cycle = "running"
  /\ cycle' = "between"
  /\ heartbeat' \in {[heartbeat EXCEPT !.event = "complete"],
                     [event |-> "failed", error |-> "own"]}
  /\ UNCHANGED <<github, watermark, row, lease, pass, cleanup, history, failures>>

\* What the end of a pass reports in the heartbeat; of a pass that went well
\* only the time of the progress.  Bug: to whichever cycle is open.
ReportToAnyRun(p) ==
  heartbeat' = IF heartbeat.event = "open"
               THEN [heartbeat EXCEPT !.error = IF pass[p].ours THEN "own" ELSE "foreign"]
               ELSE heartbeat

Report(p) ==
  heartbeat' = IF pass[p].ours /\ heartbeat.event = "open"
               THEN [heartbeat EXCEPT !.error = "own"]
               ELSE heartbeat

-----------------------------------------------------------------------------
(* A pass.                                                                  *)

\* issue-enrichment-run of no more issues than a pass may take, with or without
\* --force.
BeginManual(p) ==
  /\ p # Daemon
  /\ ~ Running(p)
  /\ failures < MaxFailures
  /\ failures' = failures + 1
  /\ Acquire(p)
  /\ \E chosen \in SUBSET Issues \ {{}}, force \in BOOLEAN :
       /\ Cardinality(chosen) <= MaxIssues
       /\ pass' = [pass EXCEPT ![p] = [NoPass EXCEPT !.at = "list", !.manual = TRUE,
                                                     !.force = force, !.since = chosen]]
  /\ UNCHANGED <<github, watermark, row, daemon, owed, torn>>

\* The issues are listed and classified by their rows.  What is listed is
\* incomplete when the request fails or the page limit is reached; an operator's
\* issues are read one by one, open or not, and all of them (or see Throw).
List(p) ==
  LET asked == IF pass[p].manual THEN pass[p].since ELSE pass[p].since \cap open IN
  /\ pass[p].at = "list"
  /\ \E listed \in SUBSET asked :
       LET known == {i \in listed : ~ pass[p].force}
           probes == {i \in known : row[i].status = "posted"}
           held == {i \in known : row[i].status = "deferred" /\ row[i].cooling} IN
       /\ \/ listed = asked /\ UNCHANGED failures
          \/ /\ listed # asked
             /\ ~ pass[p].manual
             /\ failures < MaxFailures
             /\ failures' = failures + 1
       /\ pass' = [pass EXCEPT ![p] =
                      [pass[p] EXCEPT !.at = "scan", !.since = {}, !.seen = version,
                                      !.probes = probes, !.held = held,
                                      !.todo = listed \ (probes \cup held),
                                      !.keep = (listed # asked)]]
  /\ UNCHANGED <<github, watermark, row, lease, daemon, history>>

\* A posted row is compared with the issue as it is, for which evidence is
\* collected; so is the row of an issue that is admitted.
Probe(p) ==
  /\ pass[p].at = "scan"
  /\ \E i \in pass[p].probes :
       pass' = [pass EXCEPT ![p] =
                   [pass[p] EXCEPT !.at = "probe", !.issue = i, !.existing = row[i],
                                   !.probes = @ \ {i}]]
  /\ UNCHANGED <<github, watermark, row, lease, daemon, history, failures>>

Admit(p) ==
  /\ pass[p].at = "scan"
  /\ pass[p].probes = {}
  /\ pass[p].used < MaxIssues
  /\ \E i \in pass[p].todo :
       pass' = [pass EXCEPT ![p] =
                   [pass[p] EXCEPT !.at = "analyse", !.issue = i, !.existing = row[i],
                                   !.todo = @ \ {i}]]
  /\ UNCHANGED <<github, watermark, row, lease, daemon, history, failures>>

\* The pass goes on with the next issue.
Onward(q) == [q EXCEPT !.at = "scan", !.issue = Nothing, !.existing = NoRow, !.found = FALSE]

\* Bug: a failure does not keep the watermark.
SettleWithoutKeeping(p, record) ==
  /\ row' = [row EXCEPT ![pass[p].issue] = record]
  /\ pass' = [pass EXCEPT ![p] = Onward(@)]

\* The row of the issue at hand is written; a failure keeps the watermark.
Settle(p, record) ==
  /\ row' = [row EXCEPT ![pass[p].issue] = record]
  /\ pass' = [pass EXCEPT ![p] = [Onward(pass[p]) EXCEPT !.keep = @ \/ record = FailedRow]]

\* The existing row answers the issue as it was listed.
Unchanged(q) ==
  /\ ~ q.force
  /\ q.existing.status = "posted"
  /\ q.existing.version = q.seen[q.issue]

EndProbe(p) ==
  /\ pass[p].at = "probe"
  /\ IF Unchanged(pass[p])
     THEN Settle(p, pass[p].existing)
     ELSE /\ pass' = [pass EXCEPT ![p] = [Onward(pass[p]) EXCEPT !.todo = @ \cup {pass[p].issue}]]
          /\ UNCHANGED row
  /\ UNCHANGED <<github, watermark, lease, daemon, history, failures>>

\* After the analysis the issue is read again: it must not have moved.
Stale(q) == q.issue \in q.moved \/ q.issue \notin open

Analyse(p) ==
  LET q == pass[p]
      same == /\ ~ q.force
              /\ q.existing.status = "posted"
              /\ Body[q.existing.version] = Body[q.seen[q.issue]] IN
  /\ q.at = "analyse"
  /\ \/ Unchanged(q) /\ Settle(p, q.existing)
     \/ ~ Unchanged(q) /\ Stale(q) /\ Settle(p, FailedRow)
     \/ ~ Unchanged(q) /\ ~ Stale(q) /\ same /\ Settle(p, PostedRow(q.seen[q.issue]))
     \/ /\ ~ Unchanged(q) /\ ~ Stale(q) /\ ~ same
        /\ pass' = [pass EXCEPT ![p].at = "find"]
        /\ UNCHANGED row
  /\ UNCHANGED <<github, watermark, lease, daemon, history, failures>>

\* The bot's comment on the issue is looked for by its marker.
Find(p) ==
  /\ pass[p].at = "find"
  /\ pass' = [pass EXCEPT ![p] =
                 [pass[p] EXCEPT !.at = "post", !.found = (comments[pass[p].issue] # <<>>)]]
  /\ UNCHANGED <<github, watermark, row, lease, daemon, history, failures>>

\* Bug: a comment is always created.
WrittenAnew(p) == Append(comments[pass[p].issue], Body[pass[p].seen[pass[p].issue]])

Written(p) ==
  LET i == pass[p].issue
      body == Body[pass[p].seen[i]] IN
  IF pass[p].found THEN [comments[i] EXCEPT ![1] = body] ELSE Append(comments[i], body)

\* The comment is written, which updates the issue; the answer may be lost.
Post(p) ==
  LET i == pass[p].issue IN
  /\ pass[p].at = "post"
  /\ comments' = [comments EXCEPT ![i] = Written(p)]
  /\ unseen' = unseen \cup {i}
  /\ \/ /\ pass' = [Noticed(i) EXCEPT ![p].at = "record"]
        /\ row' = [row EXCEPT ![i].cooling = FALSE]
        /\ UNCHANGED failures
     \/ /\ failures < MaxFailures
        /\ failures' = failures + 1
        /\ pass' = [Noticed(i) EXCEPT ![p] = [Onward(Noticed(i)[p]) EXCEPT !.keep = TRUE]]
        /\ row' = [row EXCEPT ![i] = FailedRow]
  /\ UNCHANGED <<version, open, activated, lease, daemon, history>>

Record(p) ==
  LET q == pass[p] IN
  /\ q.at = "record"
  /\ row' = [row EXCEPT ![q.issue] = PostedRow(q.seen[q.issue])]
  /\ pass' = [pass EXCEPT ![p] = [Onward(pass[p]) EXCEPT !.used = @ + 1]]
  /\ torn' = torn \ {q.issue}
  /\ UNCHANGED <<github, watermark, lease, daemon, owed, overlapped, failures>>

\* Evidence, analysis or a request fails.
FailIssue(p) ==
  /\ pass[p].at \in {"probe", "analyse", "find", "post", "record"}
  /\ failures < MaxFailures
  /\ failures' = failures + 1
  /\ Settle(p, FailedRow)
  /\ UNCHANGED <<github, watermark, lease, daemon, history>>

\* There is no checkout of the repository: everything in hand fails.
RepoUnavailable(p) ==
  LET failed == pass[p].probes \cup pass[p].todo \cup {pass[p].issue} IN
  /\ pass[p].at \in {"probe", "analyse"}
  /\ failures < MaxFailures
  /\ failures' = failures + 1
  /\ row' = [i \in Issues |-> IF i \in failed THEN FailedRow ELSE row[i]]
  /\ pass' = [pass EXCEPT ![p] = [Onward(pass[p]) EXCEPT !.probes = {}, !.todo = {}, !.keep = TRUE]]
  /\ UNCHANGED <<github, watermark, lease, daemon, history>>

\* What was not admitted is deferred.  The watermark becomes the pass's
\* checkedAt if nothing has to come again.
Finish(p) ==
  LET q == pass[p]
      left == q.todo \cup q.held IN
  /\ q.at = "scan"
  /\ q.probes = {}
  /\ q.todo = {} \/ q.used >= MaxIssues
  /\ row' = [i \in Issues |-> IF i \in q.todo THEN DeferredRow(i \notin q.moved)
                              ELSE IF i \in q.held THEN DeferredRow(row[i].cooling)
                              ELSE row[i]]
  /\ IF ~ q.manual /\ ~ q.keep /\ left = {}
     THEN activated' = TRUE /\ unseen' = q.later
     ELSE UNCHANGED watermark
  /\ pass' = [pass EXCEPT ![p] = NoPass]
  /\ lease' = Released(p)
  /\ UNCHANGED <<github, daemon, history, failures>>

\* The pass ends between a comment and its row.
Torn(p) == IF pass[p].at = "record" THEN torn \cup {pass[p].issue} ELSE torn

\* An error ends the pass; its lease is released and its cycle is told.
Throw(p) ==
  /\ Running(p)
  /\ failures < MaxFailures
  /\ failures' = failures + 1
  /\ pass' = [pass EXCEPT ![p] = NoPass]
  /\ lease' = Released(p)
  /\ IF p = Daemon THEN Report(p) ELSE UNCHANGED heartbeat
  /\ torn' = Torn(p)
  /\ UNCHANGED <<github, watermark, row, cycle, cleanup, owed, overlapped>>

Crash(p) ==
  /\ failures < MaxFailures
  /\ failures' = failures + 1
  /\ pass' = [pass EXCEPT ![p] = NoPass]
  /\ lease' = IF lease.holder = p THEN [lease EXCEPT !.holder = Orphan] ELSE lease
  /\ \/ p = Daemon /\ cycle' = "down" /\ cleanup' = FALSE
     \/ p # Daemon /\ Running(p) /\ UNCHANGED <<cycle, cleanup>>
  /\ torn' = Torn(p)
  /\ UNCHANGED <<github, watermark, row, heartbeat, owed, overlapped>>

\* The cooldown of a deferred issue ends.
BecomeDue(i) ==
  /\ row[i].cooling
  /\ row' = [row EXCEPT ![i].cooling = FALSE]
  /\ UNCHANGED <<github, watermark, lease, pass, daemon, history, failures>>

Step(p) ==
  \/ List(p) \/ Probe(p) \/ EndProbe(p) \/ Admit(p) \/ Analyse(p)
  \/ Find(p) \/ Post(p) \/ Record(p) \/ Finish(p)

Next ==
  \/ StartCycle \/ EndCycle
  \/ \E p \in Procs :
       \/ Step(p) \/ FailIssue(p) \/ RepoUnavailable(p) \/ Throw(p) \/ Crash(p)
       \/ BeginManual(p)
  \/ ExpireLease \/ OperatorClears
  \/ \E i \in Issues : Edit(i) \/ CloseOrReopen(i) \/ BecomeDue(i)

Spec == Init /\ [][Next]_vars

\* The daemon runs cycle after cycle, every await of a pass has a timeout, a
\* dead owner's lease expires and cooldowns end.
Fairness ==
  /\ WF_vars(StartCycle) /\ WF_vars(EndCycle)
  /\ \A p \in Procs : WF_vars(Step(p))
  /\ WF_vars(ExpireLease /\ lease.holder = Orphan)
  /\ \A i \in Issues : WF_vars(BecomeDue(i))

FairSpec == Spec /\ Fairness

-----------------------------------------------------------------------------
(* Properties.                                                              *)

Answered(i) == comments[i] # <<>> /\ comments[i][1] = Body[version[i]]

\* Unless a pass outlived its lease, an issue never has two comments, whatever
\* crashes, lost answers and repetitions there were (upsertIssueComment finds
\* and writes in two requests).
OneComment == ~ overlapped => \A i \in Issues : Len(comments[i]) <= 1

\* The watermark never passes an edit that has no answer: an issue that is
\* not listed again shows the comment of its last version.  The exception is an
\* issue whose row is older than its comment: if an edit takes the text back to
\* what the row tells of, the row is believed (shouldSkipIssueEnrichmentRecord).
NothingForgotten ==
  ~ overlapped => \A i \in (owed \cap open) \ (unseen \cup torn) : Answered(i)

\* The heartbeat is open exactly while its cycle runs, and blames the cycle
\* for no pass but its own, although passes outlive cycles.
HeartbeatTellsTheCycle ==
  /\ cycle = "running" => heartbeat.event = "open"
  /\ cycle = "between" => heartbeat.event \in {"complete", "failed"}
  /\ heartbeat.error # "foreign"

\* A cleanup that had to wait for a pass is done, although every cycle begins
\* a pass.
CleanupComes == cleanup ~> ~ cleanup

\* An edited issue is answered in the end, or closed, whatever failures, busy
\* leases and edits under a pass there were, with the exceptions above.
EveryEditIsAnswered ==
  \A i \in Issues : i \in owed ~> Answered(i) \/ i \notin open \/ i \in torn \/ overlapped

==============================================================================
