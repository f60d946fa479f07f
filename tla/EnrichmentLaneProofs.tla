------------------------- MODULE EnrichmentLaneProofs -------------------------
(***************************************************************************)
(* EnrichmentLane's safety for every number of issues, operators and       *)
(* edits, and whatever comment belongs to each version of an issue.        *)
(***************************************************************************)
EXTENDS EnrichmentLane, SequenceTheorems, TLAPS

\* An issue is analysed while there is room for it.
Room ==
  \A p \in Procs :
    pass[p].at \in {"analyse", "find", "post", "record"} => pass[p].used < MaxIssues

\* A comment that was found is still there.
FoundIsThere ==
  \A p \in Procs :
    pass[p].found => pass[p].at \in {"post", "record"} /\ comments[pass[p].issue] # <<>>

Typed == TypeOK /\ Room /\ FoundIsThere

\* What the parts of a pass are.
LEMMA PassTypes ==
  ASSUME NEW q \in Passes
  PROVE  /\ q.at \in {"idle", "list", "scan", "probe", "analyse", "find", "post", "record"}
         /\ q.manual \in BOOLEAN /\ q.force \in BOOLEAN /\ q.ours \in BOOLEAN
         /\ q.since \subseteq Issues /\ q.later \subseteq Issues /\ q.moved \subseteq Issues
         /\ q.seen \in [Issues -> Versions]
         /\ q.probes \subseteq Issues /\ q.todo \subseteq Issues /\ q.held \subseteq Issues
         /\ q.issue \in Issues \cup {Nothing} /\ q.existing \in Rows
         /\ q.found \in BOOLEAN /\ q.used \in Nat /\ q.keep \in BOOLEAN
BY DEF Passes

\* A pass that is at rest, or begins, is one.
LEMMA NewPasses ==
  /\ NoPass \in Passes /\ NoRow \in Rows /\ FailedRow \in Rows
  /\ \A b \in BOOLEAN : DeferredRow(b) \in Rows
  /\ \A v \in Versions : PostedRow(v) \in Rows
  /\ \A i \in SUBSET Issues :
       /\ NewPass(i) \in Passes /\ NewPass(i).at = "list" /\ NewPass(i).issue = Nothing
       /\ NewPass(i).used = 0 /\ ~ NewPass(i).found
<1>1. 0 \in Versions
  BY LaneConstants DEF Versions
<1>2. /\ NoRow \in Rows /\ FailedRow \in Rows
      /\ \A b \in BOOLEAN : DeferredRow(b) \in Rows
      /\ \A v \in Versions : PostedRow(v) \in Rows
  BY <1>1 DEF NoRow, FailedRow, DeferredRow, PostedRow, Rows
<1>3. NoPass \in Passes
  BY <1>1, <1>2 DEF NoPass, Passes
<1>4. ASSUME NEW i \in SUBSET Issues
      PROVE  /\ NewPass(i) \in Passes /\ NewPass(i).at = "list" /\ NewPass(i).issue = Nothing
             /\ NewPass(i).used = 0 /\ ~ NewPass(i).found
  <2>1. NewPass(i) \in Passes
    BY <1>3 DEF NewPass, Passes
  <2>2. NewPass(i).at = "list" /\ NewPass(i).issue = Nothing /\ NewPass(i).used = 0
        /\ ~ NewPass(i).found
    BY DEF NewPass, NoPass
  <2> QED
    BY <2>1, <2>2
<1> QED
  BY <1>2, <1>3, <1>4

\* What an update of an issue adds to a pass, and that it leaves the rest.
LEMMA NoticedPass ==
  ASSUME TypeOK, NEW i \in Issues, NEW p \in Procs
  PROVE  /\ Noticed(i) \in [Procs -> Passes]
         /\ Noticed(i)[p].at = pass[p].at
         /\ Noticed(i)[p].manual = pass[p].manual
         /\ Noticed(i)[p].force = pass[p].force
         /\ Noticed(i)[p].seen = pass[p].seen
         /\ Noticed(i)[p].probes = pass[p].probes
         /\ Noticed(i)[p].todo = pass[p].todo
         /\ Noticed(i)[p].held = pass[p].held
         /\ Noticed(i)[p].issue = pass[p].issue
         /\ Noticed(i)[p].existing = pass[p].existing
         /\ Noticed(i)[p].found = pass[p].found
         /\ Noticed(i)[p].used = pass[p].used
         /\ Noticed(i)[p].keep = pass[p].keep
         /\ pass[p].since \subseteq Noticed(i)[p].since
         /\ pass[p].at = "list" /\ ~ pass[p].manual => i \in Noticed(i)[p].since
         /\ pass[p].later \subseteq Noticed(i)[p].later
         /\ Running(p) /\ ~ pass[p].manual => i \in Noticed(i)[p].later
         /\ Noticed(i)[p].later \subseteq pass[p].later \cup {i}
         /\ pass[p].moved \subseteq Noticed(i)[p].moved
         /\ Running(p) /\ pass[p].at # "list" => i \in Noticed(i)[p].moved
         /\ Noticed(i)[p].moved \subseteq pass[p].moved \cup {i}
<1>1. \A q \in Procs : pass[q] \in Passes
  BY DEF TypeOK
<1>2. ASSUME NEW q \in Procs
      PROVE  Noticed(i)[q] \in Passes
  <2> DEFINE s1 == pass[q].since \cup {j \in {i} : pass[q].at = "list" /\ ~ pass[q].manual}
             s2 == pass[q].later \cup {j \in {i} : Running(q) /\ ~ pass[q].manual}
             s3 == pass[q].moved \cup {j \in {i} : Running(q) /\ pass[q].at # "list"}
  <2>1. s1 \in SUBSET Issues /\ s2 \in SUBSET Issues /\ s3 \in SUBSET Issues
    BY <1>1, PassTypes
  <2>2. Noticed(i)[q] = [pass[q] EXCEPT !.since = s1, !.later = s2, !.moved = s3]
    BY DEF Noticed
  <2> HIDE DEF s1, s2, s3
  <2> QED
    BY <1>1, <2>1, <2>2 DEF Passes
<1>3. Noticed(i) \in [Procs -> Passes]
  BY <1>2 DEF Noticed
<1>4. Noticed(i)[p] =
        [pass[p] EXCEPT
           !.since = pass[p].since \cup {j \in {i} : pass[p].at = "list" /\ ~ pass[p].manual},
           !.later = pass[p].later \cup {j \in {i} : Running(p) /\ ~ pass[p].manual},
           !.moved = pass[p].moved \cup {j \in {i} : Running(p) /\ pass[p].at # "list"}]
  BY <1>1 DEF Noticed, Passes
<1> QED
  BY <1>1, <1>3, <1>4 DEF Passes

\* Init is within the types.
LEMMA TypedInit == Init => Typed
<1> SUFFICES ASSUME Init PROVE Typed
  OBVIOUS
<1>1. 0 \in Versions
  BY LaneConstants DEF Versions
<1>2. pass \in [Procs -> Passes] /\ \A p \in Procs : pass[p] = NoPass
  BY NewPasses DEF Init
<1>3. comments \in [Issues -> Seq(Bodies)]
  BY DEF Init
<1>4. /\ NoPass.at = "idle" /\ NoPass.issue = Nothing /\ NoPass.used = 0 /\ ~ NoPass.found
      /\ 0 <= MaxIssues /\ 0 \in 0..MaxFailures
  BY LaneConstants DEF NoPass
<1>5. row \in [Issues -> Rows]
  BY NewPasses DEF Init
<1> QED
  BY <1>1, <1>2, <1>3, <1>4, <1>5 DEF Init, Typed, TypeOK, Room, FoundIsThere, NoLease

\* A step of a pass may change its own record only.
LEMMA OwnPass ==
  ASSUME Typed, NEW p \in Procs, NEW q \in Passes, pass' = [pass EXCEPT ![p] = q],
         q.at \in {"idle", "list", "scan"} <=> q.issue = Nothing,
         q.used <= MaxIssues,
         q.at \in {"analyse", "find", "post", "record"} => q.used < MaxIssues,
         q.found => q.at \in {"post", "record"} /\ comments'[q.issue] # <<>>,
         \A i \in Issues : comments[i] # <<>> => comments'[i] # <<>>
  PROVE  /\ pass' \in [Procs -> Passes]
         /\ \A r \in Procs :
              /\ pass'[r].at \in {"idle", "list", "scan"} <=> pass'[r].issue = Nothing
              /\ pass'[r].used <= MaxIssues
         /\ Room' /\ FoundIsThere'
<1>1. \A r \in Procs : pass'[r] = IF r = p THEN q ELSE pass[r]
  BY DEF Typed, TypeOK
<1>2. pass' \in [Procs -> Passes]
  BY DEF Typed, TypeOK
<1> QED
  <2>1. ASSUME NEW r \in Procs, r # p, pass'[r].found
        PROVE  pass'[r].at \in {"post", "record"} /\ comments'[pass'[r].issue] # <<>>
    <3>1. pass'[r] = pass[r]
      BY <1>1, <2>1
    <3>2. pass[r].at \in {"post", "record"} /\ comments[pass[r].issue] # <<>>
      BY <2>1, <3>1 DEF Typed, FoundIsThere
    <3>3. pass[r] \in Passes
      BY DEF Typed, TypeOK
    <3>4. pass[r].issue \in Issues
      BY <3>2, <3>3, PassTypes DEF Typed, TypeOK
    <3> QED
      BY <3>1, <3>2, <3>4
  <2>2. FoundIsThere'
    BY <1>1, <2>1 DEF FoundIsThere
  <2> QED
    BY <1>1, <1>2, <2>2 DEF Typed, TypeOK, Room

LEMMA OnwardTypes ==
  ASSUME NEW q \in Passes, q.used <= MaxIssues
  PROVE  /\ Onward(q) \in Passes
         /\ Onward(q) = [q EXCEPT !.at = "scan", !.issue = Nothing, !.existing = NoRow,
                                  !.found = FALSE]
         /\ Onward(q).at = "scan" /\ Onward(q).issue = Nothing /\ Onward(q).used = q.used
         /\ Onward(q).keep = q.keep /\ Onward(q).todo = q.todo /\ Onward(q).probes = q.probes
         /\ Onward(q).held = q.held /\ Onward(q).later = q.later /\ Onward(q).moved = q.moved
         /\ Onward(q).seen = q.seen /\ Onward(q).manual = q.manual /\ Onward(q).force = q.force
         /\ Onward(q).since = q.since /\ ~ Onward(q).found
<1>1. Onward(q) = [q EXCEPT !.at = "scan", !.issue = Nothing, !.existing = NoRow, !.found = FALSE]
  BY DEF Onward
<1>2. NoRow \in Rows
  BY NewPasses
<1> QED
  BY <1>1, <1>2 DEF Passes

LEMMA KeepsItsType ==
  ASSUME NEW o \in Passes, NEW k \in BOOLEAN
  PROVE  [o EXCEPT !.keep = k] \in Passes
BY DEF Passes

\* What a pass is once it has settled an issue.
LEMMA SettledPass ==
  ASSUME NEW q \in Passes, q.used <= MaxIssues, NEW record \in Rows
  PROVE  LET r == [Onward(q) EXCEPT !.keep = Onward(q).keep \/ record = FailedRow]
         IN /\ r \in Passes /\ r.at = "scan" /\ r.issue = Nothing /\ r.used = q.used
            /\ ~ r.found /\ r.keep = (q.keep \/ record = FailedRow) /\ r.manual = q.manual
            /\ r.moved = q.moved /\ r.later = q.later /\ r.seen = q.seen
            /\ r.probes = q.probes /\ r.todo = q.todo /\ r.held = q.held
<1> DEFINE o == Onward(q)
           k == o.keep \/ record = FailedRow
<1>1. /\ o \in Passes /\ o.at = "scan" /\ o.issue = Nothing /\ o.used = q.used
      /\ ~ o.found /\ o.keep = q.keep /\ o.manual = q.manual
      /\ o.moved = q.moved /\ o.later = q.later /\ o.seen = q.seen
      /\ o.probes = q.probes /\ o.todo = q.todo /\ o.held = q.held
  BY OnwardTypes
<1>2. k \in BOOLEAN /\ k = (q.keep \/ record = FailedRow)
  BY <1>1
<1> HIDE DEF o, k
<1>3. /\ [o EXCEPT !.keep = k] \in Passes /\ [o EXCEPT !.keep = k].keep = k
      /\ [o EXCEPT !.keep = k].at = o.at /\ [o EXCEPT !.keep = k].issue = o.issue
      /\ [o EXCEPT !.keep = k].used = o.used /\ [o EXCEPT !.keep = k].found = o.found
      /\ [o EXCEPT !.keep = k].manual = o.manual /\ [o EXCEPT !.keep = k].moved = o.moved
      /\ [o EXCEPT !.keep = k].later = o.later /\ [o EXCEPT !.keep = k].seen = o.seen
      /\ [o EXCEPT !.keep = k].probes = o.probes /\ [o EXCEPT !.keep = k].todo = o.todo
      /\ [o EXCEPT !.keep = k].held = o.held
  <2>1. [o EXCEPT !.keep = k] \in Passes
    BY <1>1, <1>2, KeepsItsType
  <2>2. DOMAIN o = {"at", "manual", "force", "ours", "since", "later", "moved", "seen", "probes",
                    "todo", "held", "issue", "existing", "found", "used", "keep"}
    BY <1>1 DEF Passes
  <2> QED
    BY <2>1, <2>2
<1> QED
  BY <1>1, <1>2, <1>3 DEF o, k

\* A row that stops cooling is a row.
LEMMA CooledRows ==
  ASSUME row \in [Issues -> Rows], NEW i \in Issues
  PROVE  [row EXCEPT ![i].cooling = FALSE] \in [Issues -> Rows]
<1>1. [row[i] EXCEPT !.cooling = FALSE] \in Rows
  BY DEF Rows
<1> QED
  BY <1>1

\* The types of a step that leaves GitHub, the lease and the daemon alone.
LEMMA TypedOfPass ==
  ASSUME Typed, pass' \in [Procs -> Passes],
         \A r \in Procs :
           /\ pass'[r].at \in {"idle", "list", "scan"} <=> pass'[r].issue = Nothing
           /\ pass'[r].used <= MaxIssues,
         Room', FoundIsThere', row' \in [Issues -> Rows], failures' \in 0..MaxFailures,
         torn' \subseteq Issues, UNCHANGED <<github, watermark, lease, daemon, owed, overlapped>>
  PROVE  Typed'
<1>1. UNCHANGED <<version, open, comments, activated, unseen, lease, cycle, heartbeat, cleanup,
                  owed, overlapped>>
  BY DEF github, watermark, daemon
<1>2. TypeOK'
  BY <1>1 DEF Typed, TypeOK
<1> QED
  BY <1>2 DEF Typed

\* Every step keeps to the types: one lemma for the steps of GitHub, of leases
\* and of cycles, and one for those of passes.
LEMMA TypedAround ==
  ASSUME Typed,
         \/ StartCycle \/ EndCycle \/ ExpireLease \/ OperatorClears
         \/ \E i \in Issues : Edit(i) \/ CloseOrReopen(i) \/ BecomeDue(i)
  PROVE  Typed'
<1>0. /\ MaxEdits \in Nat /\ MaxIssues \in Nat /\ MaxFailures \in Nat
      /\ Daemon \in Procs /\ Nobody \notin Procs
  BY LaneConstants DEF Procs
<1>1. ASSUME NEW i \in Issues, Touch(i)
      PROVE  /\ pass' \in [Procs -> Passes]
             /\ \A r \in Procs :
                  /\ pass'[r].at \in {"idle", "list", "scan"} <=> pass'[r].issue = Nothing
                  /\ pass'[r].used <= MaxIssues
             /\ Room' /\ FoundIsThere'
             /\ unseen' \subseteq Issues
             /\ row' \in [Issues -> Rows]
  <2>1. \A r \in Procs : /\ pass'[r].at = pass[r].at /\ pass'[r].issue = pass[r].issue
                          /\ pass'[r].used = pass[r].used
                          /\ pass'[r].found = pass[r].found
    BY <1>1, NoticedPass DEF Typed, Touch
  <2>2. row' \in [Issues -> Rows]
    BY <1>1, CooledRows DEF Touch, Typed, TypeOK
  <2>3. pass' \in [Procs -> Passes]
    BY <1>0, <1>1, NoticedPass DEF Typed, Touch
  <2> QED
    <3>1. comments' = comments /\ unseen' \subseteq Issues
      BY <1>1 DEF Touch, Typed, TypeOK
    <3>2. Room' /\ FoundIsThere'
      BY <2>1, <3>1 DEF Typed, Room, FoundIsThere
    <3> QED
      BY <2>1, <2>2, <2>3, <3>1, <3>2 DEF Typed, TypeOK
<1>1a. ASSUME NEW i \in Issues, Touch(i), version' \in [Issues -> Versions],
             open' \subseteq Issues, owed' \subseteq Issues, failures' \in 0..MaxFailures
      PROVE  Typed'
  <2>1. UNCHANGED <<comments, activated, lease, cycle, heartbeat, cleanup, overlapped, torn>>
    BY <1>1a DEF Touch, daemon
  <2>2. TypeOK'
    BY <1>1, <1>1a, <2>1 DEF Typed, TypeOK
  <2> QED
    BY <1>1, <1>1a, <2>2 DEF Typed
<1>2. ASSUME NEW i \in Issues, Edit(i)
      PROVE  Typed'
  <2>1. version' \in [Issues -> Versions]
    BY <1>0, <1>2 DEF Edit, Typed, TypeOK, Versions
  <2>2. Touch(i) /\ UNCHANGED <<open, failures>> /\ owed' \subseteq Issues
    BY <1>2 DEF Edit, Typed, TypeOK
  <2> QED
    BY <1>1a, <2>1, <2>2 DEF Typed, TypeOK
<1>3. ASSUME NEW i \in Issues, CloseOrReopen(i)
      PROVE  Typed'
  <2>1. open' \subseteq Issues /\ failures' \in 0..MaxFailures
    BY <1>0, <1>3 DEF CloseOrReopen, Typed, TypeOK
  <2>2. Touch(i) /\ UNCHANGED <<version, owed>>
    BY <1>3 DEF CloseOrReopen
  <2> QED
    BY <1>1a, <2>1, <2>2 DEF Typed, TypeOK
<1>4. ASSUME NEW i \in Issues, BecomeDue(i)
      PROVE  Typed'
  <2>1. row' \in [Issues -> Rows]
    BY <1>4, CooledRows DEF BecomeDue, Typed, TypeOK
  <2> QED
    BY <1>4, <2>1
       DEF BecomeDue, Typed, TypeOK, Room, FoundIsThere, github, watermark, daemon, history
<1>5. CASE ExpireLease
  <2>1. /\ lease' \in [holder : Procs \cup {Nobody, Orphan}, expired : BOOLEAN]
        /\ lease'.holder = Nobody => ~ lease'.expired
    BY <1>5 DEF ExpireLease, Typed, TypeOK
  <2>2. failures' \in 0..MaxFailures
    BY <1>0, <1>5 DEF ExpireLease, Typed, TypeOK
  <2> QED
    BY <1>5, <2>1, <2>2
       DEF ExpireLease, Typed, TypeOK, Room, FoundIsThere, github, watermark, daemon, history
<1>6. CASE OperatorClears
  BY <1>0, <1>6
     DEF OperatorClears, NoLease, Swept, Typed, TypeOK, Room, FoundIsThere, github, watermark, daemon
<1>7. CASE EndCycle
  BY <1>7 DEF EndCycle, Typed, TypeOK, Room, FoundIsThere, github, watermark, history
<1>8. CASE StartCycle
  <2>1. /\ pass' \in [Procs -> Passes]
        /\ \A r \in Procs :
             /\ pass'[r].at \in {"idle", "list", "scan"} <=> pass'[r].issue = Nothing
             /\ pass'[r].used <= MaxIssues
        /\ Room' /\ FoundIsThere'
        /\ activated' \in BOOLEAN /\ unseen' \subseteq Issues
        /\ lease' \in [holder : Procs \cup {Nobody, Orphan}, expired : BOOLEAN]
        /\ lease'.holder = Nobody => ~ lease'.expired
        /\ overlapped' \in BOOLEAN
    <3> DEFINE since == IF activated THEN unseen ELSE Issues
    <3>1. Daemon \in Procs
      BY <1>0
    <3>2. CASE pass' = [pass EXCEPT ![Daemon] = NewPass(since)] /\ Acquire(Daemon) /\ UNCHANGED watermark
      <4>1. since \in SUBSET Issues
        BY DEF Typed, TypeOK
      <4>2. /\ NewPass(since) \in Passes /\ NewPass(since).at = "list"
            /\ NewPass(since).issue = Nothing /\ NewPass(since).used = 0
            /\ ~ NewPass(since).found
        BY <4>1, NewPasses
      <4> QED
        <5>1. /\ pass' \in [Procs -> Passes]
              /\ \A r \in Procs :
                   /\ pass'[r].at \in {"idle", "list", "scan"} <=> pass'[r].issue = Nothing
                   /\ pass'[r].used <= MaxIssues
              /\ Room' /\ FoundIsThere'
          <6> DEFINE q == NewPass(since)
          <6>1. /\ q \in Passes /\ q.at = "list" /\ q.issue = Nothing /\ q.used <= MaxIssues
                /\ ~ q.found /\ UNCHANGED comments /\ pass' = [pass EXCEPT ![Daemon] = q]
            BY <1>0, <1>8, <3>2, <4>2 DEF StartCycle, github
          <6> HIDE DEF q
          <6> QED
            BY <3>1, <6>1, OwnPass
        <5> QED
          BY <1>0, <3>2, <5>1 DEF Acquire, Swept, Typed, TypeOK, watermark
    <3>3. CASE UNCHANGED pass
      <4>1. /\ activated' \in BOOLEAN /\ unseen' \subseteq Issues /\ overlapped' \in BOOLEAN
        BY <1>8 DEF StartCycle, BeginPass, Acquire, Swept, Typed, TypeOK, watermark
      <4>2. \/ lease' = NoLease
            \/ lease' = [holder |-> Daemon, expired |-> FALSE]
            \/ lease' = lease
        BY <1>8 DEF StartCycle, BeginPass, Acquire
      <4>3. /\ lease' \in [holder : Procs \cup {Nobody, Orphan}, expired : BOOLEAN]
            /\ lease'.holder = Nobody => ~ lease'.expired
        <5>1. CASE lease' = NoLease
          BY <5>1 DEF NoLease
        <5>2. CASE lease' = [holder |-> Daemon, expired |-> FALSE]
          BY <1>0, <5>2
        <5>3. CASE lease' = lease
          BY <5>3 DEF Typed, TypeOK
        <5> QED
          BY <4>2, <5>1, <5>2, <5>3
      <4> QED
        BY <1>8, <3>3, <4>1, <4>3 DEF StartCycle, github, Typed, TypeOK, Room, FoundIsThere
    <3>4. CASE /\ Running(Daemon)
               /\ pass' = [pass EXCEPT ![Daemon].ours = FALSE]
               /\ UNCHANGED <<watermark, lease, overlapped>>
      <4>1. /\ [pass[Daemon] EXCEPT !.ours = FALSE] \in Passes
            /\ pass' = [pass EXCEPT ![Daemon] = [pass[Daemon] EXCEPT !.ours = FALSE]]
        <5>1. pass[Daemon] \in Passes
          BY <3>1 DEF Typed, TypeOK
        <5> QED
          BY <3>4, <5>1 DEF Passes
      <4> DEFINE q == [pass[Daemon] EXCEPT !.ours = FALSE]
      <4>2. /\ q.at = pass[Daemon].at /\ q.issue = pass[Daemon].issue
            /\ q.used = pass[Daemon].used /\ q.found = pass[Daemon].found
        BY <3>1 DEF Typed, TypeOK, Passes
      <4>3. /\ q.at \in {"idle", "list", "scan"} <=> q.issue = Nothing
            /\ q.used <= MaxIssues
            /\ q.at \in {"analyse", "find", "post", "record"} => q.used < MaxIssues
            /\ q.found => q.at \in {"post", "record"} /\ comments'[q.issue] # <<>>
            /\ UNCHANGED comments
        BY <1>8, <3>1, <4>2 DEF StartCycle, github, Typed, TypeOK, Room, FoundIsThere
      <4> HIDE DEF q
      <4>4. q \in Passes /\ pass' = [pass EXCEPT ![Daemon] = q]
        BY <4>1 DEF q
      <4> QED
        BY <3>1, <3>4, <4>3, <4>4, OwnPass DEF Typed, TypeOK, watermark
    <3> QED
      BY <1>8, <3>2, <3>3, <3>4 DEF StartCycle, BeginPass
  <2> QED
    BY <1>8, <2>1 DEF StartCycle, Typed, TypeOK, github
<1> QED
  BY <1>2, <1>3, <1>4, <1>5, <1>6, <1>7, <1>8

\* The sequence of comments stays one: the first is replaced, or one is added.
LEMMA WrittenTypes ==
  ASSUME Typed, NEW p \in Procs, pass[p].issue \in Issues
  PROVE  /\ Written(p) \in Seq(Bodies)
         /\ Written(p) # <<>>
         /\ Written(p)[1] = IF pass[p].found \/ comments[pass[p].issue] = <<>>
                                                 THEN Body[pass[p].seen[pass[p].issue]]
                                                 ELSE comments[pass[p].issue][1]
         /\ Len(Written(p)) = IF pass[p].found THEN Len(comments[pass[p].issue])
                              ELSE Len(comments[pass[p].issue]) + 1
<1> DEFINE old == comments[pass[p].issue]
           body == Body[pass[p].seen[pass[p].issue]]
<1>1. old \in Seq(Bodies) /\ body \in Bodies /\ pass[p].found \in BOOLEAN
  <2>1. pass[p] \in Passes
    BY DEF Typed, TypeOK
  <2> QED
    BY <2>1, PassTypes DEF Typed, TypeOK, Bodies
<1>0. pass[p].found => old # <<>>
  BY DEF Typed, FoundIsThere
<1>2. Written(p) = IF pass[p].found THEN [old EXCEPT ![1] = body] ELSE Append(old, body)
  BY DEF Written
<1> HIDE DEF old, body
<1>3. CASE pass[p].found
  <2>1. [old EXCEPT ![1] = body] \in Seq(Bodies) /\ Len([old EXCEPT ![1] = body]) = Len(old)
    BY <1>0, <1>1, <1>3, ExceptSeq
  <2>2. [old EXCEPT ![1] = body] # <<>> /\ [old EXCEPT ![1] = body][1] = body
    BY <1>0, <1>1, <1>3, <2>1, ExceptSeq
  <2> QED
    BY <1>2, <1>3, <2>1, <2>2 DEF old, body
<1>4. CASE ~ pass[p].found
  <2>1. Append(old, body) \in Seq(Bodies) /\ Len(Append(old, body)) = Len(old) + 1
    BY <1>1, AppendProperties
  <2>2. Append(old, body)[1] = IF old = <<>> THEN body ELSE old[1]
    BY <1>1, AppendProperties
  <2> QED
    BY <1>2, <1>4, <2>1, <2>2 DEF old, body
<1> QED
  BY <1>3, <1>4

\* Settling an issue writes its row and takes the pass on.
LEMMA SettleTypes ==
  ASSUME Typed, NEW p \in Procs, NEW record \in Rows, Settle(p, record),
         pass[p].issue \in Issues, UNCHANGED comments
  PROVE  /\ row' \in [Issues -> Rows]
         /\ pass' \in [Procs -> Passes]
         /\ \A r \in Procs :
              /\ pass'[r].at \in {"idle", "list", "scan"} <=> pass'[r].issue = Nothing
              /\ pass'[r].used <= MaxIssues
         /\ Room' /\ FoundIsThere'
<1>1. pass[p] \in Passes /\ pass[p].used <= MaxIssues
  BY DEF Typed, TypeOK
<1>2. /\ Onward(pass[p]) \in Passes /\ Onward(pass[p]).at = "scan"
      /\ Onward(pass[p]).issue = Nothing /\ Onward(pass[p]).used = pass[p].used
      /\ ~ Onward(pass[p]).found /\ Onward(pass[p]).keep \in BOOLEAN
  BY <1>1, OnwardTypes, PassTypes
<1> DEFINE q == [Onward(pass[p]) EXCEPT !.keep = Onward(pass[p]).keep \/ record = FailedRow]
<1>3. /\ q \in Passes /\ q.at = "scan" /\ q.issue = Nothing /\ q.used <= MaxIssues
      /\ ~ q.found
  BY <1>1, SettledPass
<1>4. pass' = [pass EXCEPT ![p] = q]
  BY DEF Settle
<1> HIDE DEF q
<1>5. row' \in [Issues -> Rows]
  BY DEF Settle, Typed, TypeOK
<1> QED
  BY <1>3, <1>4, <1>5, OwnPass

\* The steps that look for work.
LEMMA TypedLooking ==
  ASSUME Typed, NEW p \in Procs, List(p) \/ Probe(p) \/ Admit(p)
  PROVE  Typed'
<1>0. row \in [Issues -> Rows] /\ failures \in 0..MaxFailures /\ torn \subseteq Issues
  BY DEF Typed, TypeOK
<1>1. pass[p] \in Passes /\ pass[p].used <= MaxIssues
  BY DEF Typed, TypeOK
<1>2. CASE List(p)
  <2> DEFINE asked == IF pass[p].manual THEN pass[p].since ELSE pass[p].since \cap open
  <2>0. PICK listed \in SUBSET asked :
          LET known == {i \in listed : ~ pass[p].force}
              probes == {i \in known : row[i].status = "posted"}
              held == {i \in known : row[i].status = "deferred" /\ row[i].cooling} IN
          /\ \/ listed = asked /\ UNCHANGED failures
             \/ /\ listed # asked
                /\ ~ pass[p].manual
                /\ failures < MaxFailures
                /\ failures' = failures + 1
          /\ pass' = [pass EXCEPT ![p] =
                         [pass[p] EXCEPT !.at = "scan", !.since = {}, !.seen = version,
                                         !.probes = probes, !.held = held,
                                         !.todo = listed \ (probes \cup held),
                                         !.keep = (listed # asked)]]
    BY <1>2 DEF List
  <2> DEFINE known == {i \in listed : ~ pass[p].force}
             probes == {i \in known : row[i].status = "posted"}
             held == {i \in known : row[i].status = "deferred" /\ row[i].cooling}
  <2>1. /\ \/ UNCHANGED failures
           \/ failures < MaxFailures /\ failures' = failures + 1
        /\ pass' = [pass EXCEPT ![p] =
                       [pass[p] EXCEPT !.at = "scan", !.since = {}, !.seen = version,
                                       !.probes = probes, !.held = held,
                                       !.todo = listed \ (probes \cup held),
                                       !.keep = (listed # asked)]]
    BY <2>0
  <2> DEFINE q == [pass[p] EXCEPT !.at = "scan", !.since = {}, !.seen = version,
                                  !.probes = probes, !.held = held,
                                  !.todo = listed \ (probes \cup held),
                                  !.keep = (listed # asked)]
  <2>2. listed \in SUBSET Issues
    BY <1>1, PassTypes DEF Typed, TypeOK
  <2>3. ~ pass[p].found /\ pass[p].issue = Nothing
    BY <1>2 DEF List, Typed, TypeOK, FoundIsThere
  <2>4. /\ q \in Passes /\ q.at = "scan" /\ q.issue = Nothing /\ q.used <= MaxIssues
        /\ ~ q.found
    <3>1. version \in [Issues -> Versions]
      BY DEF Typed, TypeOK
    <3>3. /\ probes \in SUBSET Issues /\ held \in SUBSET Issues
          /\ listed \ (probes \cup held) \in SUBSET Issues /\ (listed # asked) \in BOOLEAN
      BY <2>2
    <3> HIDE DEF probes, held, asked
    <3> QED
      BY <1>1, <2>3, <3>1, <3>3 DEF Passes
  <2>5. pass' = [pass EXCEPT ![p] = q] /\ UNCHANGED comments
    BY <1>2, <2>1 DEF List, github, Typed, TypeOK
  <2> HIDE DEF q
  <2>6. /\ pass' \in [Procs -> Passes]
        /\ \A r \in Procs :
             /\ pass'[r].at \in {"idle", "list", "scan"} <=> pass'[r].issue = Nothing
             /\ pass'[r].used <= MaxIssues
        /\ Room' /\ FoundIsThere'
    BY <2>4, <2>5, OwnPass
  <2>7. failures' \in 0..MaxFailures
    BY <2>1, LaneConstants DEF Typed, TypeOK
  <2>8. UNCHANGED <<github, watermark, row, lease, daemon, history>>
    BY <1>2 DEF List
  <2> QED
    BY <1>0, <2>6, <2>7, <2>8, TypedOfPass DEF history
<1>3. CASE Probe(p)
  <2>1. PICK i \in pass[p].probes :
          pass' = [pass EXCEPT ![p] = [pass[p] EXCEPT !.at = "probe", !.issue = i, !.existing = row[i],
                                                !.probes = @ \ {i}]]
    BY <1>3 DEF Probe
  <2> DEFINE q == [pass[p] EXCEPT !.at = "probe", !.issue = i, !.existing = row[i],
                                  !.probes = pass[p].probes \ {i}]
  <2>2. i \in Issues /\ row[i] \in Rows /\ i # Nothing
    BY <1>1, PassTypes, LaneConstants DEF Typed, TypeOK
  <2>3. ~ pass[p].found
    BY <1>3 DEF Probe, Typed, FoundIsThere
  <2>4. /\ q \in Passes /\ q.at = "probe" /\ q.issue # Nothing /\ q.used <= MaxIssues
        /\ ~ q.found
    BY <1>1, <2>2, <2>3 DEF Passes
  <2>5. pass' = [pass EXCEPT ![p] = q] /\ UNCHANGED comments
    BY <1>3, <2>1 DEF Probe, github
  <2> HIDE DEF q
  <2>6. /\ pass' \in [Procs -> Passes]
        /\ \A r \in Procs :
             /\ pass'[r].at \in {"idle", "list", "scan"} <=> pass'[r].issue = Nothing
             /\ pass'[r].used <= MaxIssues
        /\ Room' /\ FoundIsThere'
    BY <2>4, <2>5, OwnPass
  <2>7. UNCHANGED <<github, watermark, row, lease, daemon, history, failures>>
    BY <1>3 DEF Probe
  <2> QED
    BY <1>0, <2>6, <2>7, TypedOfPass DEF history
<1>4. CASE Admit(p)
  <2>1. PICK i \in pass[p].todo :
          pass' = [pass EXCEPT ![p] = [pass[p] EXCEPT !.at = "analyse", !.issue = i, !.existing = row[i],
                                                !.todo = @ \ {i}]]
    BY <1>4 DEF Admit
  <2> DEFINE q == [pass[p] EXCEPT !.at = "analyse", !.issue = i, !.existing = row[i],
                                  !.todo = pass[p].todo \ {i}]
  <2>2. i \in Issues /\ row[i] \in Rows /\ i # Nothing
    BY <1>1, PassTypes, LaneConstants DEF Typed, TypeOK
  <2>3. ~ pass[p].found /\ pass[p].used < MaxIssues
    BY <1>4 DEF Admit, Typed, FoundIsThere
  <2>4. /\ q \in Passes /\ q.at = "analyse" /\ q.issue # Nothing /\ q.used <= MaxIssues
        /\ q.used < MaxIssues /\ ~ q.found
    BY <1>1, <2>2, <2>3 DEF Passes
  <2>5. pass' = [pass EXCEPT ![p] = q] /\ UNCHANGED comments
    BY <1>4, <2>1 DEF Admit, github
  <2> HIDE DEF q
  <2>6. /\ pass' \in [Procs -> Passes]
        /\ \A r \in Procs :
             /\ pass'[r].at \in {"idle", "list", "scan"} <=> pass'[r].issue = Nothing
             /\ pass'[r].used <= MaxIssues
        /\ Room' /\ FoundIsThere'
    BY <2>4, <2>5, OwnPass
  <2>7. UNCHANGED <<github, watermark, row, lease, daemon, history, failures>>
    BY <1>4 DEF Admit
  <2> QED
    BY <1>0, <2>6, <2>7, TypedOfPass DEF history
<1> QED
  BY <1>2, <1>3, <1>4

\* The steps that handle an issue.
LEMMA TypedHandling ==
  ASSUME Typed, NEW p \in Procs,
         \/ EndProbe(p) \/ Analyse(p) \/ Find(p) \/ Post(p) \/ Record(p)
         \/ FailIssue(p) \/ RepoUnavailable(p)
  PROVE  Typed'
<1>1. pass[p] \in Passes /\ pass[p].used <= MaxIssues
  BY DEF Typed, TypeOK
<1>2. /\ pass[p].issue \in Issues /\ pass[p].issue # Nothing
      /\ pass[p].at \in {"probe", "analyse", "find", "post", "record"}
  <2>1. pass[p].at \in {"probe", "analyse", "find", "post", "record"}
    BY DEF EndProbe, Analyse, Find, Post, Record, FailIssue, RepoUnavailable
  <2>2. pass[p].issue # Nothing
    BY <2>1 DEF Typed, TypeOK
  <2> QED
    BY <1>1, <2>1, <2>2, PassTypes
<1>3. /\ Onward(pass[p]) \in Passes /\ Onward(pass[p]).at = "scan"
      /\ Onward(pass[p]).issue = Nothing /\ Onward(pass[p]).used = pass[p].used
      /\ ~ Onward(pass[p]).found /\ Onward(pass[p]).keep \in BOOLEAN
      /\ Onward(pass[p]).todo \subseteq Issues
  BY <1>1, OnwardTypes, PassTypes
<1>4. /\ pass[p].existing \in Rows /\ FailedRow \in Rows
      /\ PostedRow(pass[p].seen[pass[p].issue]) \in Rows
  BY <1>1, <1>2, PassTypes, NewPasses
<1>5. ASSUME NEW record \in Rows, Settle(p, record), failures' \in 0..MaxFailures,
             UNCHANGED <<github, watermark, lease, daemon, history>>
      PROVE  Typed'
  <2>1. UNCHANGED comments
    BY <1>5 DEF github
  <2>2. /\ row' \in [Issues -> Rows]
        /\ pass' \in [Procs -> Passes]
        /\ \A r \in Procs :
             /\ pass'[r].at \in {"idle", "list", "scan"} <=> pass'[r].issue = Nothing
             /\ pass'[r].used <= MaxIssues
        /\ Room' /\ FoundIsThere'
    BY <1>2, <1>5, <2>1, SettleTypes
  <2>3. torn' \subseteq Issues
    BY <1>5 DEF Typed, TypeOK, history
  <2> QED
    BY <1>5, <2>2, <2>3, TypedOfPass DEF history
<1>6. ASSUME NEW q \in Passes, pass' = [pass EXCEPT ![p] = q],
             q.at \in {"idle", "list", "scan"} <=> q.issue = Nothing,
             q.used <= MaxIssues,
             q.at \in {"analyse", "find", "post", "record"} => q.used < MaxIssues,
             q.found => q.at \in {"post", "record"} /\ comments[q.issue] # <<>>,
             row' \in [Issues -> Rows], failures' \in 0..MaxFailures, torn' \subseteq Issues,
             UNCHANGED <<github, watermark, lease, daemon, owed, overlapped>>
      PROVE  Typed'
  <2>1. comments' = comments
    BY <1>6 DEF github
  <2>2. /\ pass' \in [Procs -> Passes]
        /\ \A r \in Procs :
             /\ pass'[r].at \in {"idle", "list", "scan"} <=> pass'[r].issue = Nothing
             /\ pass'[r].used <= MaxIssues
        /\ Room' /\ FoundIsThere'
    BY <1>6, <2>1, OwnPass
  <2> QED
    BY <1>6, <2>2, TypedOfPass
<1>7. failures \in 0..MaxFailures /\ failures + 1 \in 0..(MaxFailures + 1) /\ MaxFailures \in Nat
  BY LaneConstants DEF Typed, TypeOK
<1>8. row \in [Issues -> Rows] /\ torn \subseteq Issues
  BY DEF Typed, TypeOK
<1>9. CASE EndProbe(p)
  <2>1. CASE Settle(p, pass[p].existing)
    BY <1>4, <1>5, <1>7, <1>9, <2>1 DEF EndProbe
  <2>2. CASE /\ pass' = [pass EXCEPT ![p] =
                           [Onward(pass[p]) EXCEPT !.todo = @ \cup {pass[p].issue}]]
             /\ UNCHANGED row
    <3> DEFINE q == [Onward(pass[p]) EXCEPT !.todo = @ \cup {pass[p].issue}]
    <3>1. /\ q \in Passes /\ q.at = "scan" /\ q.issue = Nothing /\ q.used <= MaxIssues
          /\ ~ q.found
      BY <1>1, <1>2, <1>3 DEF Passes
    <3>2. pass' = [pass EXCEPT ![p] = q]
      BY <2>2
    <3> HIDE DEF q
    <3> QED
      BY <1>6, <1>7, <1>8, <1>9, <2>2, <3>1, <3>2 DEF EndProbe, history
  <2> QED
    BY <1>9, <2>1, <2>2 DEF EndProbe
<1>10. CASE Analyse(p)
  <2>1. ASSUME NEW record \in Rows, Settle(p, record)
        PROVE  Typed'
    BY <1>5, <1>7, <1>10, <2>1 DEF Analyse
  <2>2. CASE pass' = [pass EXCEPT ![p].at = "find"] /\ UNCHANGED row
    <3> DEFINE q == [pass[p] EXCEPT !.at = "find"]
    <3>1. pass[p].used < MaxIssues /\ ~ pass[p].found
      BY <1>10 DEF Analyse, Typed, Room, FoundIsThere
    <3>2. /\ q \in Passes /\ q.at = "find" /\ q.issue # Nothing /\ q.used < MaxIssues
          /\ q.used <= MaxIssues /\ ~ q.found
      BY <1>1, <1>2, <3>1 DEF Passes
    <3>3. pass' = [pass EXCEPT ![p] = q]
      BY <2>2
    <3> HIDE DEF q
    <3> QED
      BY <1>6, <1>7, <1>8, <1>10, <2>2, <3>2, <3>3 DEF Analyse, history
  <2> QED
    BY <1>4, <1>10, <2>1, <2>2 DEF Analyse
<1>11. CASE Find(p)
  <2> DEFINE q == [pass[p] EXCEPT !.at = "post", !.found = (comments[pass[p].issue] # <<>>)]
  <2>1. pass[p].used < MaxIssues
    BY <1>11 DEF Find, Typed, Room
  <2>2. /\ q \in Passes /\ q.at = "post" /\ q.issue = pass[p].issue /\ q.used < MaxIssues
        /\ q.used <= MaxIssues /\ q.found = (comments[pass[p].issue] # <<>>)
    BY <1>1, <1>2, <2>1 DEF Passes
  <2>3. pass' = [pass EXCEPT ![p] = q]
    BY <1>11 DEF Find
  <2> HIDE DEF q
  <2> QED
    BY <1>2, <1>6, <1>7, <1>8, <1>11, <2>2, <2>3 DEF Find, history
<1>12. CASE Record(p)
  <2> DEFINE q == [Onward(pass[p]) EXCEPT !.used = @ + 1]
  <2>1. pass[p].used < MaxIssues /\ pass[p].used \in Nat /\ MaxIssues \in Nat
    BY <1>1, <1>12, PassTypes, LaneConstants DEF Record, Typed, Room
  <2>2. /\ q \in Passes /\ q.at = "scan" /\ q.issue = Nothing /\ q.used <= MaxIssues
        /\ ~ q.found
    BY <1>3, <2>1 DEF Passes
  <2>3. pass' = [pass EXCEPT ![p] = q]
    BY <1>12 DEF Record
  <2>4. row' \in [Issues -> Rows] /\ torn' \subseteq Issues
    BY <1>2, <1>4, <1>8, <1>12 DEF Record
  <2> HIDE DEF q
  <2> QED
    BY <1>6, <1>7, <1>12, <2>2, <2>3, <2>4 DEF Record
<1>13. CASE FailIssue(p)
  BY <1>4, <1>5, <1>7, <1>13 DEF FailIssue
<1>14. CASE RepoUnavailable(p)
  <2> DEFINE q == [Onward(pass[p]) EXCEPT !.probes = {}, !.todo = {}, !.keep = TRUE]
  <2>1. /\ q \in Passes /\ q.at = "scan" /\ q.issue = Nothing /\ q.used <= MaxIssues
        /\ ~ q.found
    BY <1>1, <1>3 DEF Passes
  <2>2. pass' = [pass EXCEPT ![p] = q]
    BY <1>14 DEF RepoUnavailable
  <2>3. row' \in [Issues -> Rows]
    BY <1>4, <1>8, <1>14 DEF RepoUnavailable
  <2> HIDE DEF q
  <2> QED
    <3>1. failures' \in 0..MaxFailures /\ torn' \subseteq Issues
      BY <1>7, <1>8, <1>14 DEF RepoUnavailable, history
    <3>2. UNCHANGED <<github, watermark, lease, daemon, owed, overlapped>>
      BY <1>14 DEF RepoUnavailable, history
    <3> QED
      BY <1>6, <2>1, <2>2, <2>3, <3>1, <3>2
<1>15. CASE Post(p)
  <2> DEFINE i == pass[p].issue
  <2>1. /\ Written(p) \in Seq(Bodies) /\ Written(p) # <<>>
        /\ comments' = [comments EXCEPT ![i] = Written(p)]
    BY <1>2, <1>15, WrittenTypes DEF Post
  <2>2. /\ comments' \in [Issues -> Seq(Bodies)]
        /\ \A j \in Issues : comments[j] # <<>> => comments'[j] # <<>>
        /\ comments'[i] # <<>>
    BY <1>2, <2>1 DEF Typed, TypeOK
  <2>3. /\ Noticed(i) \in [Procs -> Passes]
        /\ \A r \in Procs : /\ Noticed(i)[r].at = pass[r].at
                            /\ Noticed(i)[r].issue = pass[r].issue
                            /\ Noticed(i)[r].used = pass[r].used
                            /\ Noticed(i)[r].found = pass[r].found
    BY <1>2, NoticedPass DEF Typed
  <2> HIDE DEF i
  <2>4. PICK q \in Passes :
          /\ pass' = [Noticed(i) EXCEPT ![p] = q]
          /\ q.at \in {"idle", "list", "scan"} <=> q.issue = Nothing
          /\ q.used <= MaxIssues
          /\ q.at \in {"analyse", "find", "post", "record"} => q.used < MaxIssues
          /\ q.found => q.at \in {"post", "record"} /\ comments'[q.issue] # <<>>
    <3>1. Noticed(i)[p] \in Passes /\ Noticed(i)[p].used <= MaxIssues
      BY <1>1, <2>3
    <3>2. CASE pass' = [Noticed(i) EXCEPT ![p].at = "record"]
      <4> DEFINE q == [Noticed(i)[p] EXCEPT !.at = "record"]
      <4>1. pass[p].used < MaxIssues
        BY <1>15 DEF Post, Typed, Room
      <4>2. /\ q \in Passes /\ q.at = "record" /\ q.issue = i /\ q.used < MaxIssues
            /\ q.used <= MaxIssues /\ q.issue # Nothing
        BY <1>1, <1>2, <2>3, <3>1, <4>1 DEF Passes, i
      <4>3. pass' = [Noticed(i) EXCEPT ![p] = q]
        BY <3>2
      <4> HIDE DEF q
      <4> QED
        BY <2>2, <4>2, <4>3
    <3>3. CASE pass' = [Noticed(i) EXCEPT ![p] = [Onward(Noticed(i)[p]) EXCEPT !.keep = TRUE]]
      <4> DEFINE q == [Onward(Noticed(i)[p]) EXCEPT !.keep = TRUE]
      <4>1. /\ Onward(Noticed(i)[p]) \in Passes /\ Onward(Noticed(i)[p]).at = "scan"
            /\ Onward(Noticed(i)[p]).issue = Nothing
            /\ Onward(Noticed(i)[p]).used = Noticed(i)[p].used
            /\ ~ Onward(Noticed(i)[p]).found
        BY <3>1, OnwardTypes
      <4>2. /\ q \in Passes /\ q.at = "scan" /\ q.issue = Nothing /\ q.used <= MaxIssues
            /\ ~ q.found
        BY <3>1, <4>1 DEF Passes
      <4>3. pass' = [Noticed(i) EXCEPT ![p] = q]
        BY <3>3
      <4> HIDE DEF q
      <4> QED
        BY <4>2, <4>3
    <3> QED
      BY <1>15, <3>2, <3>3 DEF Post, i
  <2>5. \A r \in Procs : pass'[r] = IF r = p THEN q ELSE Noticed(i)[r]
    BY <2>3, <2>4
  <2>6. /\ pass' \in [Procs -> Passes]
        /\ \A r \in Procs :
             /\ pass'[r].at \in {"idle", "list", "scan"} <=> pass'[r].issue = Nothing
             /\ pass'[r].used <= MaxIssues
    BY <2>3, <2>4, <2>5 DEF Typed, TypeOK
  <2>7. Room'
    BY <2>3, <2>4, <2>5 DEF Typed, Room
  <2>8. FoundIsThere'
    <3> SUFFICES ASSUME NEW r \in Procs, r # p, pass[r].found
                 PROVE  pass[r].at \in {"post", "record"} /\ comments'[pass[r].issue] # <<>>
      BY <2>3, <2>4, <2>5 DEF FoundIsThere
    <3>1. pass[r].at \in {"post", "record"} /\ comments[pass[r].issue] # <<>>
      BY DEF Typed, FoundIsThere
    <3>2. pass[r] \in Passes /\ pass[r].issue # Nothing
      BY <3>1 DEF Typed, TypeOK
    <3> QED
      BY <2>2, <3>1, <3>2, PassTypes
  <2>9. row' \in [Issues -> Rows]
    <3>1. [row EXCEPT ![i].cooling = FALSE] \in [Issues -> Rows]
      BY <1>2, <1>8, CooledRows DEF i
    <3> QED
      BY <1>2, <1>4, <1>8, <1>15, <3>1 DEF Post, i
  <2>10. failures' \in 0..MaxFailures /\ unseen' \subseteq Issues
    BY <1>2, <1>7, <1>15 DEF Post, Typed, TypeOK
  <2> QED
    BY <1>15, <2>2, <2>6, <2>7, <2>8, <2>9, <2>10
       DEF Post, Typed, TypeOK, daemon, history
<1> QED
  BY <1>9, <1>10, <1>11, <1>12, <1>13, <1>14, <1>15

\* The steps that begin or end a pass.
LEMMA TypedEnds ==
  ASSUME Typed, NEW p \in Procs, BeginManual(p) \/ Finish(p) \/ Throw(p) \/ Crash(p)
  PROVE  Typed'
<1>1. pass[p] \in Passes /\ pass[p].used <= MaxIssues
  BY DEF Typed, TypeOK
<1>2. /\ failures \in 0..MaxFailures /\ failures + 1 \in 0..(MaxFailures + 1)
      /\ MaxFailures \in Nat /\ 0 <= MaxIssues
  BY LaneConstants DEF Typed, TypeOK
<1>3. /\ NoPass \in Passes /\ NoPass.at = "idle" /\ NoPass.issue = Nothing /\ NoPass.used = 0
      /\ ~ NoPass.found
  BY NewPasses DEF NoPass
<1>4. ASSUME NEW q \in Passes, q.at \in {"idle", "list"}, q.issue = Nothing, q.used = 0, ~ q.found,
             pass' = [pass EXCEPT ![p] = q], UNCHANGED github
      PROVE  /\ pass' \in [Procs -> Passes]
             /\ \A r \in Procs :
                  /\ pass'[r].at \in {"idle", "list", "scan"} <=> pass'[r].issue = Nothing
                  /\ pass'[r].used <= MaxIssues
             /\ Room' /\ FoundIsThere'
  <2>1. UNCHANGED comments
    BY <1>4 DEF github
  <2> QED
    BY <1>2, <1>4, <2>1, OwnPass
<1>5. /\ Released(p) \in [holder : Procs \cup {Nobody, Orphan}, expired : BOOLEAN]
      /\ Released(p).holder = Nobody => ~ Released(p).expired
  BY DEF Released, NoLease, Typed, TypeOK
<1>6. Torn(p) \subseteq Issues
  <2>1. pass[p].at = "record" => pass[p].issue \in Issues
    BY <1>1, PassTypes DEF Typed, TypeOK
  <2> QED
    BY <2>1 DEF Torn, Typed, TypeOK
<1>7. CASE BeginManual(p)
  <2>1. PICK chosen \in SUBSET Issues, force \in BOOLEAN :
          pass' = [pass EXCEPT ![p] = [NoPass EXCEPT !.at = "list", !.manual = TRUE,
                                                     !.force = force, !.since = chosen]]
    BY <1>7 DEF BeginManual
  <2> DEFINE q == [NoPass EXCEPT !.at = "list", !.manual = TRUE, !.force = force,
                                 !.since = chosen]
  <2>2. q \in Passes /\ q.at = "list" /\ q.issue = Nothing /\ q.used = 0 /\ ~ q.found
    BY <1>3 DEF Passes
  <2>3. pass' = [pass EXCEPT ![p] = q] /\ UNCHANGED github
    BY <1>7, <2>1 DEF BeginManual
  <2> HIDE DEF q
  <2>4. /\ lease' \in [holder : Procs \cup {Nobody, Orphan}, expired : BOOLEAN]
        /\ lease'.holder = Nobody => ~ lease'.expired
        /\ overlapped' \in BOOLEAN
    BY <1>7, LaneConstants DEF BeginManual, Acquire, Swept
  <2>5. failures' \in 0..MaxFailures
    <3>1. failures < MaxFailures /\ failures' = failures + 1
      BY <1>7 DEF BeginManual
    <3> QED
      BY <1>2, <3>1
  <2> QED
    BY <1>4, <1>7, <2>2, <2>3, <2>4, <2>5
       DEF BeginManual, Typed, TypeOK, github, watermark, daemon
<1>8. CASE Finish(p)
  <2>1. row' \in [Issues -> Rows]
    <3>1. \A i \in Issues : row[i] \in Rows /\ row[i].cooling \in BOOLEAN
      BY DEF Typed, TypeOK, Rows
    <3>2. \A i \in Issues : /\ DeferredRow(row[i].cooling) \in Rows
                            /\ DeferredRow(i \notin pass[p].moved) \in Rows
      BY <3>1, NewPasses
    <3> QED
      BY <1>8, <3>1, <3>2 DEF Finish
  <2>2. activated' \in BOOLEAN /\ unseen' \subseteq Issues
    <3>1. pass[p].later \subseteq Issues
      BY <1>1, PassTypes
    <3>2. \/ activated' = TRUE /\ unseen' = pass[p].later
          \/ activated' = activated /\ unseen' = unseen
      BY <1>8 DEF Finish, watermark
    <3> QED
      BY <3>1, <3>2 DEF Typed, TypeOK
  <2>3. pass' = [pass EXCEPT ![p] = NoPass] /\ lease' = Released(p) /\ UNCHANGED github
    BY <1>8 DEF Finish
  <2> QED
    BY <1>3, <1>4, <1>5, <1>8, <2>1, <2>2, <2>3
       DEF Finish, Typed, TypeOK, github, daemon, history
<1>9. CASE Throw(p)
  <2>1. pass' = [pass EXCEPT ![p] = NoPass] /\ lease' = Released(p) /\ UNCHANGED github
    BY <1>9 DEF Throw
  <2>2. heartbeat' \in [event : {"none", "open", "complete", "failed"},
                        error : {"none", "own", "foreign"}]
    BY <1>9 DEF Throw, Report, Typed, TypeOK
  <2>3. failures' \in 0..MaxFailures
    BY <1>2, <1>9 DEF Throw
  <2> QED
    BY <1>3, <1>4, <1>5, <1>6, <1>9, <2>1, <2>2, <2>3
       DEF Throw, Typed, TypeOK, github, watermark
<1>10. CASE Crash(p)
  <2>1. pass' = [pass EXCEPT ![p] = NoPass] /\ UNCHANGED github
    BY <1>10 DEF Crash
  <2>2. /\ lease' \in [holder : Procs \cup {Nobody, Orphan}, expired : BOOLEAN]
        /\ lease'.holder = Nobody => ~ lease'.expired
    BY <1>10, LaneConstants DEF Crash, Typed, TypeOK
  <2>3. cycle' \in {"running", "between", "down"} /\ cleanup' \in BOOLEAN
    BY <1>10 DEF Crash, Typed, TypeOK
  <2>4. failures' \in 0..MaxFailures
    BY <1>2, <1>10 DEF Crash
  <2> QED
    BY <1>3, <1>4, <1>6, <1>10, <2>1, <2>2, <2>3, <2>4
       DEF Crash, Typed, TypeOK, github, watermark
<1> QED
  BY <1>7, <1>8, <1>9, <1>10

\* Every step keeps to the types.
LEMMA TypedStep == Typed /\ [Next]_vars => Typed'
<1> SUFFICES ASSUME Typed, [Next]_vars PROVE Typed'
  OBVIOUS
<1>1. CASE UNCHANGED vars
  BY <1>1 DEF Typed, TypeOK, Room, FoundIsThere, Running, vars, github, watermark, daemon, history
<1>2. ASSUME NEW p \in Procs, Step(p)
      PROVE  Typed'
  BY <1>2, TypedLooking, TypedHandling, TypedEnds DEF Step
<1> QED
  BY <1>1, <1>2, TypedAround, TypedHandling, TypedEnds DEF Next

\* The invariant TypeOK: every variable keeps its type, an issue is at hand
\* exactly while a pass handles one, and a pass takes no more than MaxIssues.
THEOREM TypeCorrect == Spec => []TypeOK
<1>1. Typed => TypeOK
  BY DEF Typed
<1> QED
  BY <1>1, TypedInit, TypedStep, PTL DEF Spec

-----------------------------------------------------------------------------
\* The heartbeat is open exactly while its cycle runs and blames the cycle for
\* no pass but its own: a pass reports only to the cycle that began it
\* (recordDaemonHeartbeat updates the row of its own run id).
THEOREM HeartbeatIsTheCycles == Spec => []HeartbeatTellsTheCycle
<1>1. Init => HeartbeatTellsTheCycle
  BY DEF Init, HeartbeatTellsTheCycle
<1>2. ASSUME Typed, HeartbeatTellsTheCycle, [Next]_vars
      PROVE  HeartbeatTellsTheCycle'
  <2>0. heartbeat \in [event : {"none", "open", "complete", "failed"},
                       error : {"none", "own", "foreign"}]
    BY <1>2 DEF Typed, TypeOK
  <2>1. CASE StartCycle
    BY <2>1 DEF StartCycle, HeartbeatTellsTheCycle
  <2>2. CASE EndCycle
    <3>1. \/ heartbeat' = [heartbeat EXCEPT !.event = "complete"]
          \/ heartbeat' = [event |-> "failed", error |-> "own"]
      BY <2>2 DEF EndCycle
    <3>2. heartbeat'.event \in {"complete", "failed"} /\ heartbeat'.error # "foreign"
      BY <1>2, <2>0, <3>1 DEF HeartbeatTellsTheCycle
    <3> QED
      BY <1>2, <2>2, <3>1, <3>2 DEF EndCycle, HeartbeatTellsTheCycle
  <2>3. ASSUME NEW p \in Procs, Throw(p)
        PROVE  HeartbeatTellsTheCycle'
    BY <1>2, <2>0, <2>3 DEF Throw, Report, HeartbeatTellsTheCycle
  <2>4. ASSUME NEW p \in Procs, Crash(p)
        PROVE  HeartbeatTellsTheCycle'
    BY <1>2, <2>4 DEF Crash, HeartbeatTellsTheCycle
  <2>5. CASE UNCHANGED <<cycle, heartbeat>>
    BY <1>2, <2>5 DEF HeartbeatTellsTheCycle
  <2>6. ASSUME NEW p \in Procs,
               \/ Step(p) \/ FailIssue(p) \/ RepoUnavailable(p) \/ BeginManual(p)
        PROVE  UNCHANGED daemon
    <3>1. Step(p) => UNCHANGED daemon
      BY DEF Step, List, Probe, Admit, EndProbe, Analyse, Find, Post, Record, Finish
    <3>2. FailIssue(p) \/ RepoUnavailable(p) \/ BeginManual(p) => UNCHANGED daemon
      BY DEF FailIssue, RepoUnavailable, BeginManual
    <3> QED
      BY <2>6, <3>1, <3>2
  <2>7. ASSUME NEW i \in Issues, Edit(i) \/ CloseOrReopen(i) \/ BecomeDue(i)
        PROVE  UNCHANGED daemon
    BY <2>7 DEF Edit, CloseOrReopen, Touch, BecomeDue
  <2>8. ExpireLease \/ OperatorClears \/ UNCHANGED vars => UNCHANGED daemon
    BY DEF ExpireLease, OperatorClears, vars
  <2>9. UNCHANGED daemon => UNCHANGED <<cycle, heartbeat>>
    BY DEF daemon
  <2> QED
    BY <1>2, <2>1, <2>2, <2>3, <2>4, <2>5, <2>6, <2>7, <2>8, <2>9 DEF Next
<1> QED
  BY <1>1, <1>2, TypedInit, TypedStep, PTL DEF Spec

-----------------------------------------------------------------------------
(* One comment on an issue, and no edit behind the watermark.               *)

\* Whatever a pass does not know to have moved is as it listed it, and an issue
\* that moved is listed again; nothing is owed before there is a watermark.
Tracks ==
  /\ \A p \in Procs :
       /\ Running(p) /\ ~ pass[p].manual => pass[p].moved \subseteq pass[p].later
       /\ Running(p) /\ pass[p].at # "list" =>
            \A i \in Issues \ pass[p].moved : version[i] = pass[p].seen[i]
       /\ pass[p].at = "list" => ~ pass[p].keep
  /\ ~ activated => owed = {}

\* The bot's comment is the one for this version.
Shows(i, v) == comments[i] # <<>> /\ comments[i][1] = Body[v]

\* What a pass has still to look at.
ToCome(p) ==
  IF pass[p].at = "list" THEN pass[p].since
  ELSE pass[p].probes \cup pass[p].todo \cup pass[p].held \cup {pass[p].issue}

\* What a pass has found and written is so, and every issue that it need not
\* look at any more is answered, unless it is going to keep the watermark.
Good(p) ==
  /\ pass[p].at = "post" /\ comments[pass[p].issue] # <<>> => pass[p].found
  /\ pass[p].at = "record" =>
       /\ Shows(pass[p].issue, pass[p].seen[pass[p].issue])
       /\ pass[p].issue \in unseen
       /\ ~ pass[p].manual => pass[p].issue \in pass[p].later
  /\ pass[p].at \in {"probe", "analyse"} /\ pass[p].existing.status = "posted" =>
       /\ row[pass[p].issue].status = "posted"
       /\ row[pass[p].issue].version = pass[p].existing.version
  /\ Running(p) /\ ~ pass[p].manual /\ ~ pass[p].keep =>
       \A i \in (owed \cap open) \ (pass[p].later \cup torn \cup ToCome(p)) : Answered(i)

Alone == \A p \in Procs : Running(p) => lease.holder = p
Single == \A i \in Issues : Len(comments[i]) <= 1

\* A row that says "posted" tells of the comment, or its comment is just being
\* replaced.
RowTells ==
  \A i \in Issues \ torn : row[i].status = "posted" =>
    \/ Shows(i, row[i].version)
    \/ \E p \in Procs : pass[p].at = "record" /\ pass[p].issue = i

Kept == \A i \in (owed \cap open) \ (unseen \cup torn) : Answered(i)

Sound == Alone /\ Single /\ RowTells /\ Kept /\ \A p \in Procs : Good(p)

LaneInv == Typed /\ Tracks /\ (~ overlapped => Sound)

LEMMA LaneInit == Init => LaneInv
<1> SUFFICES ASSUME Init PROVE Tracks /\ Sound
  BY TypedInit DEF LaneInv
<1>1. \A p \in Procs : pass[p].at = "idle"
  BY DEF Init, NoPass
<1>2. \A i \in Issues : row[i].status = "none" /\ Len(comments[i]) = 0
  BY DEF Init, NoRow
<1> QED
  BY <1>1, <1>2
     DEF Init, Tracks, Sound, Alone, Single, RowTells, Kept, Good, Running

\* While passes are kept apart, a step of one leaves all others at rest.
LEMMA OneMoves ==
  ASSUME LaneInv, ~ overlapped, NEW p \in Procs, Running(p), NEW q \in Passes,
         pass' = [pass EXCEPT ![p] = q]
  PROVE  /\ pass'[p] = q
         /\ \A r \in Procs \ {p} : pass[r].at = "idle" /\ pass'[r].at = "idle"
         /\ \A r \in Procs \ {p} : Good(r)'
<1>1. pass'[p] = q /\ \A r \in Procs \ {p} : pass'[r] = pass[r]
  BY DEF LaneInv, Typed, TypeOK
<1>2. \A r \in Procs \ {p} : pass[r].at = "idle"
  BY DEF LaneInv, Sound, Alone, Running
<1> QED
  BY <1>1, <1>2 DEF Good, Running

\* Whoever takes the lease finds nobody at work, or an overlap is noted.
LEMMA NobodyRuns ==
  ASSUME LaneInv, Swept, ~ overlapped'
  PROVE  ~ overlapped /\ \A p \in Procs : ~ Running(p)
BY DEF LaneInv, Sound, Alone, Swept

\* An update of an issue from outside.
LEMMA TouchKeeps ==
  ASSUME LaneInv, NEW i \in Issues, Touch(i),
         \A j \in Issues \ {i} : version'[j] = version[j],
         open' \ {i} = open \ {i}, owed' \ {i} = owed \ {i},
         ~ activated => owed' = {}
  PROVE  Tracks' /\ (~ overlapped' => Sound')
<1>1. \A p \in Procs :
        /\ pass'[p].at = pass[p].at /\ pass'[p].manual = pass[p].manual
        /\ pass'[p].seen = pass[p].seen /\ pass'[p].issue = pass[p].issue
        /\ pass'[p].probes = pass[p].probes /\ pass'[p].todo = pass[p].todo
        /\ pass'[p].held = pass[p].held /\ pass'[p].existing = pass[p].existing
        /\ pass'[p].found = pass[p].found /\ pass'[p].keep = pass[p].keep
        /\ pass[p].since \subseteq pass'[p].since
        /\ pass[p].later \subseteq pass'[p].later
        /\ Running(p) /\ ~ pass[p].manual => i \in pass'[p].later
        /\ pass[p].moved \subseteq pass'[p].moved
        /\ pass'[p].moved \subseteq pass[p].moved \cup {i}
        /\ Running(p) /\ pass[p].at # "list" => i \in pass'[p].moved
  BY NoticedPass DEF LaneInv, Typed, Touch
<1>2. /\ comments' = comments /\ unseen' = unseen \cup {i} /\ activated' = activated
      /\ torn' = torn /\ overlapped' = overlapped /\ lease' = lease
  BY DEF Touch
<1>3. \A j \in Issues : row'[j].status = row[j].status /\ row'[j].version = row[j].version
  <2>1. row \in [Issues -> Rows]
    BY DEF LaneInv, Typed, TypeOK
  <2> QED
    BY <2>1 DEF Touch, Rows
<1>4. \A p \in Procs : pass[p] \in Passes /\ (pass[p].at \in {"probe", "analyse", "record", "post"} => pass[p].issue \in Issues)
  BY PassTypes DEF LaneInv, Typed, TypeOK
<1>5. Tracks'
  BY <1>1, <1>2 DEF LaneInv, Tracks, Running
<1>6. ASSUME ~ overlapped'
      PROVE  Sound'
  <2>1. Alone' /\ Single'
    BY <1>1, <1>2, <1>6 DEF LaneInv, Sound, Alone, Single, Running
  <2>2. RowTells'
    BY <1>1, <1>2, <1>3, <1>6 DEF LaneInv, Sound, RowTells, Shows
  <2>3. Kept'
    BY <1>2, <1>6 DEF LaneInv, Sound, Kept, Answered, Typed, TypeOK
  <2>4. ASSUME NEW p \in Procs
        PROVE  Good(p)'
    <3>1. Good(p)
      BY <1>2, <1>6 DEF LaneInv, Sound
    <3>2. /\ pass'[p].at = "post" /\ comments'[pass'[p].issue] # <<>> => pass'[p].found
          /\ (pass[p].at = "record" =>
                /\ Shows(pass[p].issue, pass[p].seen[pass[p].issue])
                /\ pass[p].issue \in unseen
                /\ ~ pass[p].manual => pass[p].issue \in pass[p].later)'
      BY <1>1, <1>2, <3>1 DEF Good, Shows
    <3>3. (pass[p].at \in {"probe", "analyse"} /\ pass[p].existing.status = "posted" =>
             /\ row[pass[p].issue].status = "posted"
             /\ row[pass[p].issue].version = pass[p].existing.version)'
      BY <1>1, <1>3, <1>4, <3>1 DEF Good
    <3>4. ToCome(p) \subseteq ToCome(p)'
      BY <1>1 DEF ToCome
    <3>5. ASSUME Running(p), ~ pass[p].manual, ~ pass[p].keep,
                 NEW j \in (owed' \cap open') \ (pass'[p].later \cup torn' \cup ToCome(p)')
          PROVE  Answered(j)'
      <4>1. j # i /\ j \in (owed \cap open) \ (pass[p].later \cup torn \cup ToCome(p))
        BY <1>1, <1>2, <3>4, <3>5
      <4>2. j \in Issues /\ Answered(j)
        BY <3>1, <3>5, <4>1 DEF Good, LaneInv, Typed, TypeOK
      <4> QED
        BY <1>2, <4>1, <4>2 DEF Answered
    <3> QED
      BY <1>1, <3>2, <3>3, <3>5 DEF Good, Running
  <2> QED
    BY <2>1, <2>2, <2>3, <2>4 DEF Sound
<1> QED
  BY <1>5, <1>6

\* Nothing of what the invariant speaks of changes, except that a lease changes
\* hands when nobody runs, or is not that of the pass.
LEMMA SameKeeps ==
  ASSUME LaneInv, UNCHANGED <<github, watermark, owed, torn>>,
         \A i \in Issues : row'[i].status = row[i].status /\ row'[i].version = row[i].version,
         \A p \in Procs :
           /\ pass'[p].at = pass[p].at /\ pass'[p].manual = pass[p].manual
           /\ pass'[p].seen = pass[p].seen /\ pass'[p].issue = pass[p].issue
           /\ pass'[p].probes = pass[p].probes /\ pass'[p].todo = pass[p].todo
           /\ pass'[p].held = pass[p].held /\ pass'[p].existing = pass[p].existing
           /\ pass'[p].found = pass[p].found /\ pass'[p].keep = pass[p].keep
           /\ pass'[p].since = pass[p].since /\ pass'[p].later = pass[p].later
           /\ pass'[p].moved = pass[p].moved,
         ~ overlapped' => ~ overlapped /\ Alone'
  PROVE  Tracks' /\ (~ overlapped' => Sound')
<1>1. \A p \in Procs : pass[p] \in Passes
  BY DEF LaneInv, Typed, TypeOK
<1>2. \A p \in Procs : pass[p].at \in {"probe", "analyse"} => pass[p].issue \in Issues
  BY <1>1, PassTypes DEF LaneInv, Typed, TypeOK
<1>3. Tracks'
  BY DEF LaneInv, Tracks, Running, github, watermark
<1>4. ASSUME ~ overlapped'
      PROVE  Sound'
  <2>1. Single' /\ Kept'
    BY <1>4 DEF LaneInv, Sound, Single, Kept, Answered, github, watermark
  <2>2. RowTells'
    BY <1>4 DEF LaneInv, Sound, RowTells, Shows, github
  <2>3. ASSUME NEW p \in Procs
        PROVE  Good(p)'
    <3>1. Good(p)
      BY <1>4 DEF LaneInv, Sound
    <3>2. (pass[p].at \in {"probe", "analyse"} /\ pass[p].existing.status = "posted" =>
             /\ row[pass[p].issue].status = "posted"
             /\ row[pass[p].issue].version = pass[p].existing.version)'
      BY <1>2, <3>1 DEF Good
    <3>3. (pass[p].at = "record" =>
             /\ Shows(pass[p].issue, pass[p].seen[pass[p].issue])
             /\ pass[p].issue \in unseen
             /\ ~ pass[p].manual => pass[p].issue \in pass[p].later)'
      BY <3>1 DEF Good, Shows, github, watermark
    <3>4. ToCome(p)' = ToCome(p)
      BY DEF ToCome
    <3> QED
      BY <3>1, <3>2, <3>3, <3>4 DEF Good, Running, Answered, github
  <2> QED
    BY <1>4, <2>1, <2>2, <2>3 DEF Sound
<1> QED
  BY <1>3, <1>4

\* Steps of GitHub, of leases and of cycles.
LEMMA KeptAround ==
  ASSUME LaneInv,
         \/ StartCycle \/ EndCycle \/ ExpireLease \/ OperatorClears
         \/ \E i \in Issues : Edit(i) \/ CloseOrReopen(i) \/ BecomeDue(i)
  PROVE  Tracks' /\ (~ overlapped' => Sound')
<1>1. ASSUME NEW i \in Issues, Edit(i)
      PROVE  Tracks' /\ (~ overlapped' => Sound')
  <2>1. /\ \A j \in Issues \ {i} : version'[j] = version[j]
        /\ open' \ {i} = open \ {i} /\ owed' \ {i} = owed \ {i}
        /\ ~ activated => owed' = {}
    BY <1>1 DEF Edit, LaneInv, Typed, TypeOK, Tracks
  <2> QED
    BY <1>1, <2>1, TouchKeeps DEF Edit
<1>2. ASSUME NEW i \in Issues, CloseOrReopen(i)
      PROVE  Tracks' /\ (~ overlapped' => Sound')
  <2>1. /\ \A j \in Issues \ {i} : version'[j] = version[j]
        /\ open' \ {i} = open \ {i} /\ owed' \ {i} = owed \ {i}
        /\ ~ activated => owed' = {}
    BY <1>2 DEF CloseOrReopen, LaneInv, Typed, TypeOK, Tracks
  <2> QED
    BY <1>2, <2>1, TouchKeeps DEF CloseOrReopen
<1>3. ASSUME NEW i \in Issues, BecomeDue(i)
      PROVE  Tracks' /\ (~ overlapped' => Sound')
  <2>1. \A j \in Issues : row'[j].status = row[j].status /\ row'[j].version = row[j].version
    <3>1. row \in [Issues -> Rows]
      BY DEF LaneInv, Typed, TypeOK
    <3> QED
      BY <1>3, <3>1 DEF BecomeDue, Rows
  <2>2. UNCHANGED <<github, watermark, lease, pass, history>>
    BY <1>3 DEF BecomeDue
  <2>3. ~ overlapped' => ~ overlapped /\ Alone'
    BY <2>2 DEF history, LaneInv, Sound, Alone, Running
  <2> QED
    BY <2>1, <2>2, <2>3, SameKeeps DEF history
<1>4. CASE ExpireLease
  <2>1. UNCHANGED <<github, watermark, row, pass, history>> /\ lease'.holder = lease.holder
    BY <1>4 DEF ExpireLease, LaneInv, Typed, TypeOK
  <2>2. ~ overlapped' => ~ overlapped /\ Alone'
    BY <2>1 DEF history, LaneInv, Sound, Alone, Running
  <2> QED
    BY <2>1, <2>2, SameKeeps DEF history
<1>5. CASE OperatorClears
  <2>1. UNCHANGED <<github, watermark, row, pass, owed, torn>> /\ Swept
    BY <1>5 DEF OperatorClears
  <2>2. ~ overlapped' => ~ overlapped /\ Alone'
    BY <2>1, NobodyRuns DEF Alone, Running
  <2> QED
    BY <2>1, <2>2, SameKeeps
<1>6. CASE EndCycle
  <2>1. UNCHANGED <<github, watermark, row, lease, pass, history>>
    BY <1>6 DEF EndCycle
  <2>2. ~ overlapped' => ~ overlapped /\ Alone'
    BY <2>1 DEF history, LaneInv, Sound, Alone, Running
  <2> QED
    BY <2>1, <2>2, SameKeeps DEF history
<1>7. CASE StartCycle
  <2>1. UNCHANGED <<github, row, owed, torn>> /\ BeginPass /\ Daemon \in Procs
    BY <1>7 DEF StartCycle, Procs
  <2>2. CASE /\ ~ activated /\ Swept /\ activated' = TRUE /\ unseen' = {} /\ UNCHANGED pass
    <3>1. owed' = {}
      BY <2>1, <2>2 DEF LaneInv, Tracks
    <3>2. Tracks'
      BY <2>1, <2>2, <3>1 DEF LaneInv, Tracks, Running, github
    <3>3. ASSUME ~ overlapped'
          PROVE  Sound'
      <4>1. ~ overlapped /\ \A p \in Procs : pass'[p].at = "idle" /\ pass[p].at = "idle"
        BY <2>2, <3>3, NobodyRuns DEF Running
      <4>2. Alone' /\ Single' /\ Kept' /\ \A p \in Procs : Good(p)'
        BY <2>1, <3>1, <4>1
           DEF LaneInv, Sound, Alone, Single, Kept, Good, Running, github
      <4>3. RowTells'
        BY <2>1, <4>1 DEF LaneInv, Sound, RowTells, Shows, github
      <4> QED
        BY <4>2, <4>3 DEF Sound
    <3> QED
      BY <3>2, <3>3
  <2>3. CASE /\ Acquire(Daemon) /\ UNCHANGED watermark
             /\ pass' = [pass EXCEPT ![Daemon] = NewPass(IF activated THEN unseen ELSE Issues)]
    <3> DEFINE since == IF activated THEN unseen ELSE Issues
               q == NewPass(since)
    <3>1. /\ q.at = "list" /\ ~ q.manual /\ ~ q.keep /\ q.since = since /\ q.moved = {}
          /\ q.later = {}
      BY DEF NewPass, NoPass
    <3>2. pass'[Daemon] = q /\ \A r \in Procs \ {Daemon} : pass'[r] = pass[r]
      BY <2>1, <2>3 DEF LaneInv, Typed, TypeOK
    <3>3. lease'.holder = Daemon /\ Swept
      BY <2>3 DEF Acquire
    <3> HIDE DEF q
    <3>4. Tracks'
      BY <2>1, <2>3, <3>1, <3>2 DEF LaneInv, Tracks, Running, github, watermark
    <3>5. ASSUME ~ overlapped'
          PROVE  Sound'
      <4>1. ~ overlapped /\ \A p \in Procs : pass[p].at = "idle"
        BY <3>3, <3>5, NobodyRuns DEF Running
      <4>2. Alone' /\ Single' /\ Kept'
        BY <2>1, <2>3, <3>2, <3>3, <4>1
           DEF LaneInv, Sound, Alone, Single, Kept, Answered, Running, github, watermark
      <4>3. RowTells'
        BY <2>1, <4>1, <3>1, <3>2 DEF LaneInv, Sound, RowTells, Shows, github
      <4>4. Good(Daemon)'
        <5>1. \A i \in (owed \cap open) \ (torn \cup since) : Answered(i)
          BY <4>1 DEF LaneInv, Sound, Kept, Tracks, Typed, TypeOK
        <5>2. ToCome(Daemon)' = since
          BY <3>1, <3>2 DEF ToCome
        <5>3. \A i \in (owed' \cap open') \ (torn' \cup ToCome(Daemon)') : Answered(i)'
          BY <2>1, <5>1, <5>2 DEF Answered, github
        <5> QED
          BY <3>1, <3>2, <5>3 DEF Good
      <4>5. \A r \in Procs \ {Daemon} : Good(r)'
        BY <3>2, <4>1 DEF Good, Running
      <4> QED
        BY <4>2, <4>3, <4>4, <4>5 DEF Sound
    <3> QED
      BY <3>4, <3>5
  <2>4. CASE UNCHANGED <<pass, watermark, lease, overlapped>>
    <3>1. ~ overlapped' => ~ overlapped /\ Alone'
      BY <2>4 DEF LaneInv, Sound, Alone, Running
    <3> QED
      BY <2>1, <2>4, <3>1, SameKeeps
  <2>5. CASE /\ pass' = [pass EXCEPT ![Daemon].ours = FALSE]
             /\ UNCHANGED <<watermark, lease, overlapped>>
    <3>1. \A p \in Procs :
            /\ pass'[p].at = pass[p].at /\ pass'[p].manual = pass[p].manual
            /\ pass'[p].seen = pass[p].seen /\ pass'[p].issue = pass[p].issue
            /\ pass'[p].probes = pass[p].probes /\ pass'[p].todo = pass[p].todo
            /\ pass'[p].held = pass[p].held /\ pass'[p].existing = pass[p].existing
            /\ pass'[p].found = pass[p].found /\ pass'[p].keep = pass[p].keep
            /\ pass'[p].since = pass[p].since /\ pass'[p].later = pass[p].later
            /\ pass'[p].moved = pass[p].moved
      BY <2>5 DEF LaneInv, Typed, TypeOK, Passes
    <3>2. ~ overlapped' => ~ overlapped /\ Alone'
      BY <2>5, <3>1 DEF LaneInv, Sound, Alone, Running
    <3> QED
      BY <2>1, <2>5, <3>1, <3>2, SameKeeps
  <2> QED
    BY <2>1, <2>2, <2>3, <2>4, <2>5 DEF BeginPass
<1> QED
  BY <1>1, <1>2, <1>3, <1>4, <1>5, <1>6, <1>7

\* A pass that ends early leaves what it has done; what it has not recorded is
\* torn.
LEMMA PassEnds ==
  ASSUME LaneInv, NEW p \in Procs, pass' = [pass EXCEPT ![p] = NoPass], torn' = Torn(p),
         UNCHANGED <<github, watermark, row, owed, overlapped>>,
         \A r \in Procs \ {p} : lease.holder = r => lease'.holder = r
  PROVE  Tracks' /\ (~ overlapped' => Sound')
<1>1. pass'[p].at = "idle" /\ \A r \in Procs \ {p} : pass'[r] = pass[r]
  BY DEF NoPass, LaneInv, Typed, TypeOK
<1>2. Tracks'
  BY <1>1 DEF LaneInv, Tracks, Running, github, watermark
<1>3. ASSUME ~ overlapped'
      PROVE  Sound'
  <2>1. Alone' /\ Single'
    BY <1>1, <1>3 DEF LaneInv, Sound, Alone, Single, Running, github
  <2>2. Kept'
    BY <1>3 DEF LaneInv, Sound, Kept, Answered, Torn, github, watermark
  <2>3. RowTells'
    <3> SUFFICES ASSUME NEW i \in Issues \ torn', row[i].status = "posted",
                        ~ Shows(i, row[i].version)
                 PROVE  \E r \in Procs : pass'[r].at = "record" /\ pass'[r].issue = i
      BY DEF RowTells, Shows, github
    <3>1. i \notin torn
      BY DEF Torn
    <3>2. PICK r \in Procs : pass[r].at = "record" /\ pass[r].issue = i
      BY <1>3, <3>1 DEF LaneInv, Sound, RowTells
    <3>3. r # p
      BY <3>2 DEF Torn
    <3> QED
      BY <1>1, <3>2, <3>3
  <2>4. Good(p)'
    BY <1>1 DEF Good, Running
  <2>5. ASSUME NEW r \in Procs \ {p}
        PROVE  Good(r)'
    <3>1. Good(r) /\ pass'[r] = pass[r]
      BY <1>1, <1>3 DEF LaneInv, Sound
    <3>2. ToCome(r)' = ToCome(r) /\ torn \subseteq torn'
      BY <3>1 DEF ToCome, Torn
    <3>3. ASSUME Running(r), ~ pass[r].manual, ~ pass[r].keep,
                 NEW j \in (owed' \cap open') \ (pass'[r].later \cup torn' \cup ToCome(r)')
          PROVE  Answered(j)'
      BY <3>1, <3>2, <3>3 DEF Good, Answered, github
    <3> QED
      BY <3>1, <3>3 DEF Good, Shows, Running, github, watermark
  <2> QED
    BY <2>1, <2>2, <2>3, <2>4, <2>5 DEF Sound
<1> QED
  BY <1>2, <1>3

\* Steps that begin or end a pass.
LEMMA KeptEnds ==
  ASSUME LaneInv, NEW p \in Procs, BeginManual(p) \/ Finish(p) \/ Throw(p) \/ Crash(p)
  PROVE  Tracks' /\ (~ overlapped' => Sound')
<1>1. CASE Throw(p)
  BY <1>1, PassEnds DEF Throw, Released, NoLease
<1>2. CASE Crash(p)
  BY <1>2, PassEnds DEF Crash, LaneInv, Typed, TypeOK
<1>3. CASE BeginManual(p)
  <2>1. PICK chosen \in SUBSET Issues, force \in BOOLEAN :
          pass' = [pass EXCEPT ![p] = [NoPass EXCEPT !.at = "list", !.manual = TRUE,
                                                     !.force = force, !.since = chosen]]
    BY <1>3 DEF BeginManual
  <2> DEFINE q == [NoPass EXCEPT !.at = "list", !.manual = TRUE, !.force = force,
                                 !.since = chosen]
  <2>2. q.at = "list" /\ q.manual /\ ~ q.keep
    BY DEF NoPass
  <2>3. pass'[p] = q /\ \A r \in Procs \ {p} : pass'[r] = pass[r]
    BY <2>1 DEF LaneInv, Typed, TypeOK
  <2>4. lease'.holder = p /\ Swept /\ UNCHANGED <<github, watermark, row, owed, torn>>
    BY <1>3 DEF BeginManual, Acquire
  <2> HIDE DEF q
  <2>5. Tracks'
    BY <2>2, <2>3, <2>4 DEF LaneInv, Tracks, Running, github, watermark
  <2>6. ASSUME ~ overlapped'
        PROVE  Sound'
    <3>1. ~ overlapped /\ \A r \in Procs : pass[r].at = "idle"
      BY <2>4, <2>6, NobodyRuns DEF Running
    <3>2. Alone' /\ Single' /\ Kept'
      BY <2>2, <2>3, <2>4, <3>1
         DEF LaneInv, Sound, Alone, Single, Kept, Answered, Running, github, watermark
    <3>3. RowTells'
      BY <2>4, <3>1 DEF LaneInv, Sound, RowTells, Shows, github
    <3>4. \A r \in Procs : Good(r)'
      BY <2>2, <2>3, <3>1 DEF Good, Running
    <3> QED
      BY <3>2, <3>3, <3>4 DEF Sound
  <2> QED
    BY <2>5, <2>6
<1>4. CASE Finish(p)
  <2>1. /\ pass[p].at = "scan" /\ Running(p) /\ pass[p].issue = Nothing /\ pass[p].probes = {}
        /\ UNCHANGED <<github, owed, torn, overlapped>>
    BY <1>4 DEF Finish, Running, history, LaneInv, Typed, TypeOK
  <2>2. \A i \in Issues : row'[i] = row[i] \/ row'[i].status = "deferred"
    <3>1. row \in [Issues -> Rows]
      BY DEF LaneInv, Typed, TypeOK
    <3> QED
      BY <1>4, <3>1 DEF Finish, DeferredRow, NoRow
  <2>3. pass' = [pass EXCEPT ![p] = NoPass] /\ lease' = Released(p)
    BY <1>4 DEF Finish
  <2>4. /\ pass'[p].at = "idle"
        /\ \A r \in Procs \ {p} : pass'[r] = pass[r] /\ (lease.holder = r => lease'.holder = r)
    BY <2>3 DEF NoPass, Released, NoLease, LaneInv, Typed, TypeOK
  <2>5. \/ UNCHANGED watermark
        \/ /\ activated' = TRUE /\ unseen' = pass[p].later
           /\ ~ pass[p].manual /\ ~ pass[p].keep /\ pass[p].todo = {} /\ pass[p].held = {}
    BY <1>4 DEF Finish
  <2>6. Tracks'
    BY <2>1, <2>4, <2>5 DEF LaneInv, Tracks, Running, github, watermark
  <2>7. ASSUME ~ overlapped'
        PROVE  Sound'
    <3>1. ~ overlapped /\ Good(p)
      BY <2>1, <2>7 DEF LaneInv, Sound
    <3>2. \A r \in Procs \ {p} : pass[r].at = "idle" /\ Good(r)'
      BY <2>1, <2>3, <3>1, NewPasses, OneMoves
    <3>3. Alone' /\ Single'
      BY <2>1, <2>4, <2>7 DEF LaneInv, Sound, Alone, Single, Running, github
    <3>4. Kept'
      <4>1. CASE UNCHANGED watermark
        BY <2>1, <3>1, <4>1 DEF LaneInv, Sound, Kept, Answered, github, watermark
      <4>2. CASE /\ activated' = TRUE /\ unseen' = pass[p].later
                 /\ ~ pass[p].manual /\ ~ pass[p].keep /\ pass[p].todo = {} /\ pass[p].held = {}
        <5>1. ToCome(p) = {Nothing}
          BY <2>1, <4>2 DEF ToCome
        <5>2. \A i \in (owed \cap open) \ (pass[p].later \cup torn) : i # Nothing
          BY LaneConstants DEF LaneInv, Typed, TypeOK
        <5>3. \A i \in (owed \cap open) \ (pass[p].later \cup torn) : Answered(i)
          BY <2>1, <3>1, <4>2, <5>1, <5>2 DEF Good
        <5> QED
          BY <2>1, <4>2, <5>3 DEF Kept, Answered, github
      <4> QED
        BY <2>5, <4>1, <4>2
    <3>5. RowTells'
      <4>1. \A r \in Procs : pass[r].at # "record"
        BY <2>1, <3>2
      <4> QED
        BY <2>1, <2>2, <3>1, <4>1 DEF LaneInv, Sound, RowTells, Shows, github
    <3>6. Good(p)'
      BY <2>4 DEF Good, Running
    <3> QED
      BY <3>2, <3>3, <3>4, <3>5, <3>6 DEF Sound
  <2> QED
    BY <2>6, <2>7
<1> QED
  BY <1>1, <1>2, <1>3, <1>4

\* A running pass goes on: what is left to show is about itself, the rows and
\* what is owed.
LEMMA PassMoves ==
  ASSUME LaneInv, NEW p \in Procs, NEW q \in Passes, Running(p), q.at \notin {"idle", "list"},
         pass' = [pass EXCEPT ![p] = q],
         UNCHANGED <<github, watermark, lease, owed, overlapped>>,
         q.manual = pass[p].manual, q.moved = pass[p].moved, q.later = pass[p].later,
         pass[p].at = "list" \/ q.seen = pass[p].seen,
         pass[p].at = "list" => q.seen = version,
         ~ overlapped => RowTells' /\ Kept' /\ Good(p)'
  PROVE  Tracks' /\ (~ overlapped' => Sound')
<1>1. pass'[p] = q /\ \A r \in Procs \ {p} : pass'[r] = pass[r]
  BY DEF LaneInv, Typed, TypeOK
<1>2. Tracks'
  BY <1>1 DEF LaneInv, Tracks, Running, github, watermark
<1>3. ASSUME ~ overlapped'
      PROVE  Sound'
  <2>1. ~ overlapped
    BY <1>3
  <2>2. \A r \in Procs \ {p} : Good(r)'
    BY <2>1, OneMoves
  <2>3. Alone' /\ Single'
    BY <1>1, <2>1 DEF LaneInv, Sound, Alone, Single, Running, github
  <2> QED
    BY <2>1, <2>2, <2>3 DEF Sound
<1> QED
  BY <1>2, <1>3

\* The steps that look for work.
LEMMA KeptLooking ==
  ASSUME LaneInv, NEW p \in Procs, List(p) \/ Probe(p) \/ Admit(p)
  PROVE  Tracks' /\ (~ overlapped' => Sound')
<1>1. pass[p] \in Passes /\ Running(p)
  BY DEF LaneInv, Typed, TypeOK, Running, List, Probe, Admit
<1>2. UNCHANGED <<github, watermark, row, lease, owed, overlapped, torn>>
  BY DEF List, Probe, Admit, history
<1>3. ASSUME NEW q \in Passes, pass' = [pass EXCEPT ![p] = q], pass[p].at # "record"
      PROVE  ~ overlapped => RowTells' /\ Kept'
  <2>1. pass'[p] = q /\ \A r \in Procs \ {p} : pass'[r] = pass[r]
    BY <1>3 DEF LaneInv, Typed, TypeOK
  <2>2. ~ overlapped => Kept'
    BY <1>2 DEF LaneInv, Sound, Kept, Answered, github, watermark
  <2>3. ~ overlapped => RowTells'
    BY <1>2, <1>3, <2>1 DEF LaneInv, Sound, RowTells, Shows, github
  <2> QED
    BY <2>2, <2>3
<1>4. CASE List(p)
  <2> DEFINE asked == IF pass[p].manual THEN pass[p].since ELSE pass[p].since \cap open
  <2>0. PICK listed \in SUBSET asked :
          LET known == {i \in listed : ~ pass[p].force}
              probes == {i \in known : row[i].status = "posted"}
              held == {i \in known : row[i].status = "deferred" /\ row[i].cooling} IN
          /\ \/ listed = asked /\ UNCHANGED failures
             \/ /\ listed # asked
                /\ ~ pass[p].manual
                /\ failures < MaxFailures
                /\ failures' = failures + 1
          /\ pass' = [pass EXCEPT ![p] =
                         [pass[p] EXCEPT !.at = "scan", !.since = {}, !.seen = version,
                                         !.probes = probes, !.held = held,
                                         !.todo = listed \ (probes \cup held),
                                         !.keep = (listed # asked)]]
    BY <1>4 DEF List
  <2> DEFINE known == {i \in listed : ~ pass[p].force}
             probes == {i \in known : row[i].status = "posted"}
             held == {i \in known : row[i].status = "deferred" /\ row[i].cooling}
             q == [pass[p] EXCEPT !.at = "scan", !.since = {}, !.seen = version,
                                  !.probes = probes, !.held = held,
                                  !.todo = listed \ (probes \cup held),
                                  !.keep = (listed # asked)]
  <2>1. pass' = [pass EXCEPT ![p] = q]
    BY <2>0
  <2>2. listed \in SUBSET Issues
    BY <1>1, PassTypes DEF LaneInv, Typed, TypeOK
  <2>3. /\ q \in Passes /\ q.at = "scan" /\ q.manual = pass[p].manual
        /\ q.moved = pass[p].moved /\ q.later = pass[p].later /\ q.seen = version
        /\ q.keep = (listed # asked) /\ q.probes \cup q.todo \cup q.held = listed
        /\ q.issue = pass[p].issue
    <3>1. version \in [Issues -> Versions]
      BY DEF LaneInv, Typed, TypeOK
    <3>3. /\ probes \in SUBSET Issues /\ held \in SUBSET Issues
          /\ listed \ (probes \cup held) \in SUBSET Issues /\ (listed # asked) \in BOOLEAN
      BY <2>2
    <3>2. probes \cup (listed \ (probes \cup held)) \cup held = listed
      OBVIOUS
    <3> HIDE DEF probes, held, asked
    <3> QED
      BY <1>1, <3>1, <3>2, <3>3 DEF Passes
  <2>4. pass[p].at = "list"
    BY <1>4 DEF List
  <2>5. pass'[p] = q
    BY <2>1 DEF LaneInv, Typed, TypeOK
  <2> HIDE DEF q
  <2>6. ASSUME ~ overlapped
        PROVE  Good(p)'
    <3>1. ASSUME ~ q.manual, ~ q.keep,
                 NEW i \in (owed \cap open) \ (q.later \cup torn \cup listed)
          PROVE  Answered(i)
      <4>0. i \notin pass[p].since
        BY <2>3, <3>1
      <4>1. Good(p) /\ ToCome(p) = pass[p].since /\ ~ pass[p].manual
        BY <2>3, <2>4, <2>6, <3>1 DEF LaneInv, Sound, ToCome
      <4>2. ~ pass[p].keep => Answered(i)
        BY <1>1, <2>3, <3>1, <4>0, <4>1 DEF Good
      <4>3. ~ pass[p].keep
        BY <2>4 DEF LaneInv, Tracks
      <4> QED
        BY <4>2, <4>3
    <3>2. ToCome(p)' = listed \cup {q.issue}
      BY <2>3, <2>5 DEF ToCome
    <3>3. \A i \in (owed' \cap open') \ (q.later \cup torn' \cup ToCome(p)') :
            ~ q.manual /\ ~ q.keep => Answered(i)'
      BY <1>2, <3>1, <3>2 DEF Answered, github
    <3> QED
      BY <2>3, <2>5, <3>3 DEF Good
  <2> QED
    BY <1>1, <1>2, <1>3, <2>1, <2>3, <2>4, <2>6, PassMoves
<1>5. ASSUME NEW i \in Issues, NEW q \in Passes, pass' = [pass EXCEPT ![p] = q],
             pass[p].at = "scan", q.at \in {"probe", "analyse"}, q.issue = i, q.existing = row[i],
             q.manual = pass[p].manual, q.moved = pass[p].moved, q.later = pass[p].later,
             q.seen = pass[p].seen, q.keep = pass[p].keep,
             ToCome(p) \ {Nothing} \subseteq q.probes \cup q.todo \cup q.held \cup {i}
      PROVE  Tracks' /\ (~ overlapped' => Sound')
  <2>1. pass'[p] = q
    BY <1>5 DEF LaneInv, Typed, TypeOK
  <2>2. ASSUME ~ overlapped
        PROVE  Good(p)'
    <3>1. ToCome(p) \ {Nothing} \subseteq ToCome(p)'
      BY <1>5, <2>1 DEF ToCome
    <3>2. ASSUME ~ q.manual, ~ q.keep,
                 NEW j \in (owed' \cap open') \ (q.later \cup torn' \cup ToCome(p)')
          PROVE  Answered(j)'
      <4>1. j \in (owed \cap open) \ (pass[p].later \cup torn \cup ToCome(p))
        BY <1>2, <1>5, <3>1, <3>2, LaneConstants DEF github, LaneInv, Typed, TypeOK
      <4>2. Answered(j)
        BY <1>1, <1>5, <2>2, <3>2, <4>1 DEF LaneInv, Sound, Good
      <4> QED
        BY <1>2, <4>2 DEF Answered, github
    <3> QED
      BY <1>2, <1>5, <2>1, <3>2 DEF Good
  <2> QED
    BY <1>1, <1>2, <1>3, <1>5, <2>2, PassMoves
<1>6. CASE Probe(p)
  <2>1. PICK i \in pass[p].probes :
          pass' = [pass EXCEPT ![p] = [pass[p] EXCEPT !.at = "probe", !.issue = i,
                                                !.existing = row[i], !.probes = @ \ {i}]]
    BY <1>6 DEF Probe
  <2> DEFINE q == [pass[p] EXCEPT !.at = "probe", !.issue = i, !.existing = row[i],
                                  !.probes = pass[p].probes \ {i}]
  <2>2. i \in Issues /\ row[i] \in Rows
    BY <1>1, PassTypes DEF LaneInv, Typed, TypeOK
  <2>3. /\ q \in Passes /\ q.at = "probe" /\ q.issue = i /\ q.existing = row[i]
        /\ q.manual = pass[p].manual /\ q.moved = pass[p].moved /\ q.later = pass[p].later
        /\ q.seen = pass[p].seen /\ q.keep = pass[p].keep
        /\ q.probes = pass[p].probes \ {i} /\ q.todo = pass[p].todo /\ q.held = pass[p].held
    BY <1>1, <2>2 DEF Passes
  <2>4. pass' = [pass EXCEPT ![p] = q]
    BY <2>1
  <2>5. pass[p].at = "scan" /\ pass[p].issue = Nothing
    BY <1>6 DEF Probe, LaneInv, Typed, TypeOK
  <2> HIDE DEF q
  <2>6. ToCome(p) \ {Nothing} \subseteq q.probes \cup q.todo \cup q.held \cup {i}
    BY <2>3, <2>5 DEF ToCome
  <2> QED
    BY <1>5, <2>2, <2>3, <2>4, <2>5, <2>6
<1>7. CASE Admit(p)
  <2>1. PICK i \in pass[p].todo :
          pass' = [pass EXCEPT ![p] = [pass[p] EXCEPT !.at = "analyse", !.issue = i,
                                                !.existing = row[i], !.todo = @ \ {i}]]
    BY <1>7 DEF Admit
  <2> DEFINE q == [pass[p] EXCEPT !.at = "analyse", !.issue = i, !.existing = row[i],
                                  !.todo = pass[p].todo \ {i}]
  <2>2. i \in Issues /\ row[i] \in Rows
    BY <1>1, PassTypes DEF LaneInv, Typed, TypeOK
  <2>3. /\ q \in Passes /\ q.at = "analyse" /\ q.issue = i /\ q.existing = row[i]
        /\ q.manual = pass[p].manual /\ q.moved = pass[p].moved /\ q.later = pass[p].later
        /\ q.seen = pass[p].seen /\ q.keep = pass[p].keep
        /\ q.probes = pass[p].probes /\ q.todo = pass[p].todo \ {i} /\ q.held = pass[p].held
    BY <1>1, <2>2 DEF Passes
  <2>4. pass' = [pass EXCEPT ![p] = q]
    BY <2>1
  <2>5. pass[p].at = "scan" /\ pass[p].issue = Nothing
    BY <1>7 DEF Admit, LaneInv, Typed, TypeOK
  <2> HIDE DEF q
  <2>6. ToCome(p) \ {Nothing} \subseteq q.probes \cup q.todo \cup q.held \cup {i}
    BY <2>3, <2>5 DEF ToCome
  <2> QED
    BY <1>5, <2>2, <2>3, <2>4, <2>5, <2>6
<1> QED
  BY <1>4, <1>6, <1>7

\* What the row that a pass read says of the comment is so.
LEMMA ExistingShows ==
  ASSUME LaneInv, ~ overlapped, NEW p \in Procs, pass[p].at \in {"probe", "analyse"},
         pass[p].existing.status = "posted", pass[p].issue \in Issues \ torn
  PROVE  Shows(pass[p].issue, pass[p].existing.version)
<1>1. Good(p) /\ RowTells /\ Running(p)
  BY DEF LaneInv, Sound, Running
<1>2. \A r \in Procs : pass[r].at # "record"
  BY <1>1 DEF LaneInv, Sound, Alone, Running
<1> QED
  BY <1>1, <1>2 DEF Good, RowTells

\* An issue that did not move, and whose comment is that of the listed version,
\* is answered.
LEMMA ListedIsAnswered ==
  ASSUME LaneInv, NEW p \in Procs, pass[p].at \notin {"idle", "list"}, ~ pass[p].manual,
         NEW i \in Issues, i \notin pass[p].later, Shows(i, pass[p].seen[i])
  PROVE  Answered(i)
BY DEF LaneInv, Tracks, Running, Shows, Answered

\* A pass settles an issue with a failed row, or one that tells of the comment.
LEMMA SettleKeeps ==
  ASSUME LaneInv, NEW p \in Procs, NEW record \in Rows, Settle(p, record),
         pass[p].at \in {"probe", "analyse", "find", "post", "record"},
         UNCHANGED <<github, watermark, lease, owed, overlapped, torn>>,
         \/ record = FailedRow
         \/ /\ record.status = "posted"
            /\ ~ overlapped /\ pass[p].issue \notin torn =>
                 /\ Shows(pass[p].issue, record.version)
                 /\ Shows(pass[p].issue, pass[p].seen[pass[p].issue])
  PROVE  Tracks' /\ (~ overlapped' => Sound')
<1>1. pass[p] \in Passes /\ pass[p].issue \in Issues /\ Running(p) /\ pass[p].used <= MaxIssues
  BY PassTypes DEF LaneInv, Typed, TypeOK, Running
<1> DEFINE i == pass[p].issue
           q == [Onward(pass[p]) EXCEPT !.keep = Onward(pass[p]).keep \/ record = FailedRow]
<1>2. /\ q \in Passes /\ q.at = "scan" /\ q.issue = Nothing
      /\ q.manual = pass[p].manual /\ q.moved = pass[p].moved /\ q.later = pass[p].later
      /\ q.seen = pass[p].seen /\ q.keep = (pass[p].keep \/ record = FailedRow)
      /\ q.probes = pass[p].probes /\ q.todo = pass[p].todo /\ q.held = pass[p].held
  BY <1>1, SettledPass
<1>3. pass' = [pass EXCEPT ![p] = q]
  BY DEF Settle
<1> HIDE DEF q
<1>4. pass'[p] = q /\ \A r \in Procs \ {p} : pass'[r] = pass[r]
  BY <1>3 DEF LaneInv, Typed, TypeOK
<1>5. \A j \in Issues : row'[j] = IF j = i THEN record ELSE row[j]
  BY <1>1 DEF Settle, LaneInv, Typed, TypeOK
<1>6. FailedRow.status = "failed"
  BY DEF FailedRow, NoRow
<1>7. ASSUME ~ overlapped
      PROVE  RowTells' /\ Kept' /\ Good(p)'
  <2>1. Kept'
    BY <1>7 DEF LaneInv, Sound, Kept, Answered, github, watermark
  <2>2. RowTells'
    <3> SUFFICES ASSUME NEW j \in Issues \ torn, row'[j].status = "posted"
                 PROVE  \/ Shows(j, row'[j].version)
                        \/ \E r \in Procs : pass'[r].at = "record" /\ pass'[r].issue = j
      BY DEF RowTells, Shows, github
    <3>1. CASE j = i
      BY <1>1, <1>5, <1>6, <1>7, <3>1
    <3>2. CASE j # i
      BY <1>4, <1>5, <1>7, <3>2 DEF LaneInv, Sound, RowTells
    <3> QED
      BY <3>1, <3>2
  <2>3. ASSUME ~ q.manual, ~ q.keep,
               NEW j \in (owed' \cap open') \ (q.later \cup torn' \cup ToCome(p)')
        PROVE  Answered(j)'
    <3>1. j \in Issues /\ j \in (owed \cap open) \ (pass[p].later \cup torn)
      BY <1>2, <2>3 DEF github, LaneInv, Typed, TypeOK
    <3>2. CASE j = i
      <4>1. Shows(i, pass[p].seen[i])
        BY <1>2, <1>7, <2>3, <3>1, <3>2
      <4>2. Answered(i)
        BY <1>2, <2>3, <3>1, <3>2, <4>1, ListedIsAnswered
      <4> QED
        BY <3>2, <4>2 DEF Answered, github
    <3>3. CASE j # i
      <4>1. j \notin ToCome(p)
        BY <1>2, <1>4, <2>3, <3>3 DEF ToCome
      <4>2. Answered(j)
        BY <1>1, <1>2, <1>7, <2>3, <3>1, <4>1 DEF LaneInv, Sound, Good
      <4> QED
        BY <4>2 DEF Answered, github
    <3> QED
      BY <3>2, <3>3
  <2>4. Good(p)'
    BY <1>2, <1>4, <2>3 DEF Good
  <2> QED
    BY <2>1, <2>2, <2>4
<1> QED
  BY <1>1, <1>2, <1>3, <1>7, PassMoves

\* The steps that handle an issue and write nothing to GitHub.
LEMMA KeptHandling ==
  ASSUME LaneInv, NEW p \in Procs,
         \/ EndProbe(p) \/ Analyse(p) \/ Find(p) \/ Record(p)
         \/ FailIssue(p) \/ RepoUnavailable(p)
  PROVE  Tracks' /\ (~ overlapped' => Sound')
<1>1. /\ pass[p] \in Passes /\ Running(p) /\ pass[p].used <= MaxIssues
      /\ pass[p].at \in {"probe", "analyse", "find", "post", "record"}
      /\ pass[p].issue \in Issues
  <2>1. pass[p].at \in {"probe", "analyse", "find", "post", "record"}
    BY DEF EndProbe, Analyse, Find, Record, FailIssue, RepoUnavailable
  <2> QED
    BY <2>1, PassTypes DEF LaneInv, Typed, TypeOK, Running
<1> DEFINE i == pass[p].issue
<1>2. UNCHANGED <<github, watermark, lease, owed, overlapped>>
  BY DEF EndProbe, Analyse, Find, Record, FailIssue, RepoUnavailable, history
<1>3. /\ FailedRow \in Rows /\ pass[p].existing \in Rows
      /\ PostedRow(pass[p].seen[i]) \in Rows
      /\ PostedRow(pass[p].seen[i]).status = "posted"
      /\ PostedRow(pass[p].seen[i]).version = pass[p].seen[i]
  <2>1. pass[p].seen[i] \in Versions /\ pass[p].existing \in Rows
    BY <1>1, PassTypes
  <2> QED
    BY <2>1, NewPasses DEF PostedRow, NoRow
<1>4. /\ Onward(pass[p]) \in Passes /\ Onward(pass[p]).at = "scan"
      /\ Onward(pass[p]).issue = Nothing
      /\ Onward(pass[p]).keep = pass[p].keep /\ Onward(pass[p]).todo = pass[p].todo
      /\ Onward(pass[p]).probes = pass[p].probes /\ Onward(pass[p]).held = pass[p].held
      /\ Onward(pass[p]).later = pass[p].later /\ Onward(pass[p]).moved = pass[p].moved
      /\ Onward(pass[p]).seen = pass[p].seen /\ Onward(pass[p]).manual = pass[p].manual
  BY <1>1, OnwardTypes
<1>5. ASSUME Unchanged(pass[p]), pass[p].at \in {"probe", "analyse"}, UNCHANGED torn,
             Settle(p, pass[p].existing)
      PROVE  Tracks' /\ (~ overlapped' => Sound')
  <2>1. ~ overlapped /\ i \notin torn => Shows(i, pass[p].existing.version)
    BY <1>1, <1>5, ExistingShows DEF Unchanged
  <2> QED
    BY <1>1, <1>2, <1>3, <1>5, <2>1, SettleKeeps DEF Unchanged
<1>6. ASSUME NEW q \in Passes, pass' = [pass EXCEPT ![p] = q],
             UNCHANGED <<row, torn>>, pass[p].at # "record",
             q.at \in {"scan", "find", "post"},
             q.manual = pass[p].manual, q.moved = pass[p].moved, q.later = pass[p].later,
             q.seen = pass[p].seen, q.keep = pass[p].keep,
             ToCome(p) \ {Nothing} \subseteq q.probes \cup q.todo \cup q.held \cup {q.issue},
             q.at = "post" => q.found = (comments[q.issue] # <<>>)
      PROVE  Tracks' /\ (~ overlapped' => Sound')
  <2>1. pass'[p] = q /\ \A r \in Procs \ {p} : pass'[r] = pass[r]
    BY <1>6 DEF LaneInv, Typed, TypeOK
  <2>2. ASSUME ~ overlapped
        PROVE  RowTells' /\ Kept' /\ Good(p)'
    <3>1. Kept'
      BY <1>2, <1>6, <2>2 DEF LaneInv, Sound, Kept, Answered, github, watermark
    <3>2. RowTells'
      BY <1>2, <1>6, <2>1, <2>2 DEF LaneInv, Sound, RowTells, Shows, github
    <3>3. ToCome(p) \ {Nothing} \subseteq ToCome(p)'
      BY <1>6, <2>1 DEF ToCome
    <3>4. ASSUME ~ q.manual, ~ q.keep,
                 NEW j \in (owed' \cap open') \ (q.later \cup torn' \cup ToCome(p)')
          PROVE  Answered(j)'
      <4>1. j \in (owed \cap open) \ (pass[p].later \cup torn \cup ToCome(p))
        BY <1>2, <1>6, <3>3, <3>4, LaneConstants DEF github, LaneInv, Typed, TypeOK
      <4>2. Answered(j)
        BY <1>1, <1>6, <2>2, <3>4, <4>1 DEF LaneInv, Sound, Good
      <4> QED
        BY <1>2, <4>2 DEF Answered, github
    <3>5. Good(p)'
      BY <1>2, <1>6, <2>1, <3>4 DEF Good, github
    <3> QED
      BY <3>1, <3>2, <3>5
  <2> QED
    BY <1>1, <1>2, <1>6, <2>2, PassMoves
<1>7. CASE EndProbe(p)
  <2>1. UNCHANGED torn /\ pass[p].at = "probe"
    BY <1>7 DEF EndProbe, history
  <2>2. CASE Unchanged(pass[p])
    BY <1>5, <1>7, <2>1, <2>2 DEF EndProbe
  <2>3. CASE ~ Unchanged(pass[p])
    <3> DEFINE q == [Onward(pass[p]) EXCEPT !.todo = @ \cup {pass[p].issue}]
    <3>1. /\ q \in Passes /\ q.at = "scan"
          /\ q.manual = pass[p].manual /\ q.moved = pass[p].moved /\ q.later = pass[p].later
          /\ q.seen = pass[p].seen /\ q.keep = pass[p].keep
          /\ q.probes = pass[p].probes /\ q.todo = pass[p].todo \cup {i}
          /\ q.held = pass[p].held
      <4>1. pass[p].todo \subseteq Issues
        BY <1>1, PassTypes
      <4> QED
        BY <1>1, <1>4, <4>1 DEF Passes
    <3>2. pass' = [pass EXCEPT ![p] = q] /\ UNCHANGED row
      BY <1>7, <2>3 DEF EndProbe
    <3> HIDE DEF q
    <3>3. ToCome(p) \ {Nothing} \subseteq q.probes \cup q.todo \cup q.held \cup {q.issue}
      BY <2>1, <3>1 DEF ToCome
    <3> QED
      BY <1>6, <2>1, <3>1, <3>2, <3>3
  <2> QED
    BY <2>2, <2>3
<1>8. CASE Analyse(p)
  <2>1. UNCHANGED torn /\ pass[p].at = "analyse"
    BY <1>8 DEF Analyse, history
  <2>2. CASE Unchanged(pass[p]) /\ Settle(p, pass[p].existing)
    BY <1>5, <2>1, <2>2
  <2>3. CASE Settle(p, FailedRow)
    BY <1>1, <1>2, <1>3, <2>1, <2>3, SettleKeeps
  <2>4. CASE /\ pass[p].existing.status = "posted"
             /\ Body[pass[p].existing.version] = Body[pass[p].seen[i]]
             /\ Settle(p, PostedRow(pass[p].seen[i]))
    <3>1. ~ overlapped /\ i \notin torn => Shows(i, pass[p].existing.version)
      BY <1>1, <2>1, <2>4, ExistingShows
    <3>2. ~ overlapped /\ i \notin torn => Shows(i, pass[p].seen[i])
      BY <2>4, <3>1 DEF Shows
    <3> DEFINE record == PostedRow(pass[p].seen[i])
    <3>3. /\ record \in Rows /\ record.status = "posted" /\ record.version = pass[p].seen[i]
          /\ Settle(p, record)
      BY <1>3, <2>4
    <3> HIDE DEF record
    <3> QED
      BY <1>1, <1>2, <2>1, <3>2, <3>3, SettleKeeps
  <2>5. CASE pass' = [pass EXCEPT ![p].at = "find"] /\ UNCHANGED row
    <3> DEFINE q == [pass[p] EXCEPT !.at = "find"]
    <3>1. /\ q \in Passes /\ q.at = "find" /\ q.issue = i
          /\ q.manual = pass[p].manual /\ q.moved = pass[p].moved /\ q.later = pass[p].later
          /\ q.seen = pass[p].seen /\ q.keep = pass[p].keep
          /\ q.probes = pass[p].probes /\ q.todo = pass[p].todo /\ q.held = pass[p].held
      BY <1>1 DEF Passes
    <3>2. pass' = [pass EXCEPT ![p] = q]
      BY <2>5
    <3> HIDE DEF q
    <3>3. ToCome(p) \ {Nothing} \subseteq q.probes \cup q.todo \cup q.held \cup {q.issue}
      BY <2>1, <3>1 DEF ToCome
    <3> QED
      BY <1>6, <2>1, <2>5, <3>1, <3>2, <3>3
  <2> QED
    BY <1>8, <2>2, <2>3, <2>4, <2>5 DEF Analyse
<1>9. CASE Find(p)
  <2> DEFINE q == [pass[p] EXCEPT !.at = "post", !.found = (comments[pass[p].issue] # <<>>)]
  <2>1. UNCHANGED <<row, torn>> /\ pass[p].at = "find"
    BY <1>9 DEF Find, history
  <2>2. /\ q \in Passes /\ q.at = "post" /\ q.issue = i
        /\ q.manual = pass[p].manual /\ q.moved = pass[p].moved /\ q.later = pass[p].later
        /\ q.seen = pass[p].seen /\ q.keep = pass[p].keep
        /\ q.probes = pass[p].probes /\ q.todo = pass[p].todo /\ q.held = pass[p].held
        /\ q.found = (comments[i] # <<>>)
    BY <1>1 DEF Passes
  <2>3. pass' = [pass EXCEPT ![p] = q]
    BY <1>9 DEF Find
  <2> HIDE DEF q
  <2>4. ToCome(p) \ {Nothing} \subseteq q.probes \cup q.todo \cup q.held \cup {q.issue}
    BY <2>1, <2>2 DEF ToCome
  <2> QED
    BY <1>6, <2>1, <2>2, <2>3, <2>4
<1>10. CASE FailIssue(p)
  <2>1. Settle(p, FailedRow) /\ UNCHANGED torn
    BY <1>10 DEF FailIssue, history
  <2> QED
    BY <1>1, <1>2, <1>3, <2>1, SettleKeeps
<1>11. CASE RepoUnavailable(p)
  <2> DEFINE q == [Onward(pass[p]) EXCEPT !.probes = {}, !.todo = {}, !.keep = TRUE]
  <2>1. UNCHANGED torn /\ pass[p].at # "record"
    BY <1>11 DEF RepoUnavailable, history
  <2>2. /\ q \in Passes /\ q.at = "scan" /\ q.keep
        /\ q.manual = pass[p].manual /\ q.moved = pass[p].moved /\ q.later = pass[p].later
        /\ q.seen = pass[p].seen
    BY <1>4 DEF Passes
  <2>3. pass' = [pass EXCEPT ![p] = q]
    BY <1>11 DEF RepoUnavailable
  <2> HIDE DEF q
  <2>4. pass'[p] = q /\ \A r \in Procs \ {p} : pass'[r] = pass[r]
    BY <2>3 DEF LaneInv, Typed, TypeOK
  <2>5. \A j \in Issues : row'[j] = row[j] \/ row'[j].status = "failed"
    BY <1>11 DEF RepoUnavailable, FailedRow, NoRow
  <2>6. ASSUME ~ overlapped
        PROVE  RowTells' /\ Kept' /\ Good(p)'
    <3>1. Kept'
      BY <1>2, <2>1, <2>6 DEF LaneInv, Sound, Kept, Answered, github, watermark
    <3>2. RowTells'
      BY <1>2, <2>1, <2>4, <2>5, <2>6 DEF LaneInv, Sound, RowTells, Shows, github
    <3>3. Good(p)'
      BY <2>2, <2>4 DEF Good
    <3> QED
      BY <3>1, <3>2, <3>3
  <2> QED
    BY <1>1, <1>2, <2>2, <2>3, <2>6, PassMoves
<1>12. CASE Record(p)
  <2> DEFINE q == [Onward(pass[p]) EXCEPT !.used = @ + 1]
  <2>1. /\ pass[p].at = "record" /\ torn' = torn \ {i}
        /\ row' = [row EXCEPT ![i] = PostedRow(pass[p].seen[i])]
        /\ pass' = [pass EXCEPT ![p] = q]
    BY <1>12 DEF Record
  <2>2. /\ q \in Passes /\ q.at = "scan" /\ q.issue = Nothing
        /\ q.manual = pass[p].manual /\ q.moved = pass[p].moved /\ q.later = pass[p].later
        /\ q.seen = pass[p].seen /\ q.keep = pass[p].keep
        /\ q.probes = pass[p].probes /\ q.todo = pass[p].todo /\ q.held = pass[p].held
    <3>1. Onward(pass[p]).used \in Nat
      BY <1>4, PassTypes
    <3> QED
      BY <1>4, <3>1 DEF Passes
  <2> HIDE DEF q
  <2>3. pass'[p] = q /\ \A r \in Procs \ {p} : pass'[r] = pass[r]
    BY <2>1 DEF LaneInv, Typed, TypeOK
  <2>4. ASSUME ~ overlapped
        PROVE  RowTells' /\ Kept' /\ Good(p)'
    <3>1. /\ Shows(i, pass[p].seen[i]) /\ i \in unseen
          /\ ~ pass[p].manual => i \in pass[p].later
      BY <2>1, <2>4 DEF LaneInv, Sound, Good
    <3>2. Kept'
      BY <1>2, <2>1, <2>4, <3>1 DEF LaneInv, Sound, Kept, Answered, github, watermark
    <3>3. RowTells'
      <4> SUFFICES ASSUME NEW j \in Issues \ torn', row'[j].status = "posted"
                   PROVE  \/ Shows(j, row'[j].version)
                          \/ \E r \in Procs : pass'[r].at = "record" /\ pass'[r].issue = j
        BY <1>2 DEF RowTells, Shows, github
      <4>1. CASE j = i
        BY <1>1, <1>3, <2>1, <3>1, <4>1 DEF LaneInv, Typed, TypeOK
      <4>2. CASE j # i
        <5>1. row'[j] = row[j] /\ j \notin torn
          BY <2>1, <4>2 DEF LaneInv, Typed, TypeOK
        <5> QED
          BY <2>3, <2>4, <4>2, <5>1 DEF LaneInv, Sound, RowTells
      <4> QED
        BY <4>1, <4>2
    <3>4. ASSUME ~ q.manual, ~ q.keep,
                 NEW j \in (owed' \cap open') \ (q.later \cup torn' \cup ToCome(p)')
          PROVE  Answered(j)'
      <4>1. j # i /\ j \in (owed \cap open) \ (pass[p].later \cup torn)
        BY <1>2, <2>1, <2>2, <3>1, <3>4 DEF github
      <4>2. j \notin ToCome(p)
        BY <2>1, <2>2, <2>3, <3>4, <4>1 DEF ToCome
      <4>3. Answered(j)
        BY <1>1, <2>2, <2>4, <3>4, <4>1, <4>2 DEF LaneInv, Sound, Good
      <4> QED
        BY <1>2, <4>3 DEF Answered, github
    <3>5. Good(p)'
      BY <2>2, <2>3, <3>4 DEF Good
    <3> QED
      BY <3>2, <3>3, <3>5
  <2> QED
    BY <1>1, <1>2, <2>1, <2>2, <2>4, PassMoves
<1> QED
  BY <1>7, <1>8, <1>9, <1>10, <1>11, <1>12


\* The comment is written: the pass knows, and so does the watermark.
LEMMA KeptPost ==
  ASSUME LaneInv, NEW p \in Procs, Post(p)
  PROVE  Tracks' /\ (~ overlapped' => Sound')
<1>1. /\ pass[p] \in Passes /\ Running(p) /\ pass[p].used <= MaxIssues
      /\ pass[p].at = "post" /\ pass[p].issue \in Issues
  <2>1. pass[p].at = "post"
    BY DEF Post
  <2> QED
    BY <2>1, PassTypes DEF LaneInv, Typed, TypeOK, Running
<1> DEFINE i == pass[p].issue
           n == Noticed(i)
           told == [n[p] EXCEPT !.at = "record"]
           failed == [Onward(n[p]) EXCEPT !.keep = TRUE]
<1>2. /\ UNCHANGED <<version, open, activated, lease, history>>
      /\ comments' = [comments EXCEPT ![i] = Written(p)]
      /\ unseen' = unseen \cup {i}
      /\ \/ pass' = [n EXCEPT ![p].at = "record"] /\ row' = [row EXCEPT ![i].cooling = FALSE]
         \/ pass' = [n EXCEPT ![p] = failed] /\ row' = [row EXCEPT ![i] = FailedRow]
  BY DEF Post
<1>3. /\ n \in [Procs -> Passes]
      /\ \A r \in Procs :
           /\ n[r].at = pass[r].at /\ n[r].manual = pass[r].manual
           /\ n[r].seen = pass[r].seen /\ n[r].keep = pass[r].keep
           /\ Running(r) /\ ~ pass[r].manual => i \in n[r].later
           /\ Running(r) /\ pass[r].at # "list" => i \in n[r].moved
           /\ pass[r].later \subseteq n[r].later
           /\ pass[r].moved \subseteq n[r].moved
           /\ n[r].moved \subseteq pass[r].moved \cup {i}
  BY <1>1, NoticedPass DEF LaneInv, Typed
<1>4. /\ n[p].issue = i /\ n[p].found = pass[p].found /\ n[p].used = pass[p].used
      /\ n[p].probes = pass[p].probes /\ n[p].todo = pass[p].todo /\ n[p].held = pass[p].held
  BY <1>1, NoticedPass DEF LaneInv, Typed
<1>5. /\ told.at = "record" /\ told.issue = i /\ told.seen = pass[p].seen
      /\ told.manual = pass[p].manual /\ told.keep = pass[p].keep
      /\ told.later = n[p].later /\ told.moved = n[p].moved
      /\ told.probes = pass[p].probes /\ told.todo = pass[p].todo /\ told.held = pass[p].held
  <2>1. n[p] \in Passes
    BY <1>3
  <2> HIDE DEF n
  <2> QED
    BY <1>3, <1>4, <2>1 DEF Passes
<1>6. /\ failed.at = "scan" /\ failed.manual = pass[p].manual /\ failed.keep
      /\ failed.seen = pass[p].seen /\ failed.later = n[p].later /\ failed.moved = n[p].moved
  <2>1. n[p] \in Passes /\ n[p].used <= MaxIssues
    BY <1>1, <1>3, <1>4
  <2> HIDE DEF n
  <2>2. /\ Onward(n[p]) \in Passes /\ Onward(n[p]).at = "scan"
        /\ Onward(n[p]).manual = n[p].manual /\ Onward(n[p]).seen = n[p].seen
        /\ Onward(n[p]).later = n[p].later /\ Onward(n[p]).moved = n[p].moved
    BY <2>1, OnwardTypes
  <2> QED
    BY <1>3, <2>2 DEF Passes
<1>7. /\ \A r \in Procs \ {p} : pass'[r] = n[r]
      /\ \/ pass'[p] = told
         \/ pass'[p] = failed /\ row'[i].status = "failed"
      /\ \A j \in Issues \ {i} : row'[j] = row[j] /\ comments'[j] = comments[j]
      /\ comments'[i] = Written(p)
  <2>1. FailedRow.status = "failed"
    BY DEF FailedRow, NoRow
  <2>2. row \in [Issues -> Rows] /\ DOMAIN comments = Issues
    BY DEF LaneInv, Typed, TypeOK
  <2>3. /\ \A j \in Issues \ {i} : row'[j] = row[j] /\ comments'[j] = comments[j]
        /\ comments'[i] = Written(p)
    <3> HIDE DEF n, told, failed
    <3>1. /\ \A j \in Issues \ {i} : comments'[j] = comments[j]
          /\ comments'[i] = Written(p)
      BY <1>1, <1>2, <2>2
    <3>2. CASE row' = [row EXCEPT ![i].cooling = FALSE]
      BY <2>2, <3>1, <3>2
    <3>3. CASE row' = [row EXCEPT ![i] = FailedRow]
      BY <2>2, <3>1, <3>3
    <3> QED
      BY <1>2, <3>2, <3>3
  <2> HIDE DEF n
  <2>4. /\ \A r \in Procs \ {p} : pass'[r] = n[r]
        /\ pass'[p] = told \/ (pass'[p] = failed /\ row'[i].status = "failed")
    <3>1. CASE pass' = [n EXCEPT ![p].at = "record"]
      BY <1>3, <3>1
    <3>2. CASE pass' = [n EXCEPT ![p] = failed] /\ row' = [row EXCEPT ![i] = FailedRow]
      <4>1. row'[i].status = "failed"
        BY <1>1, <2>1, <2>2, <3>2
      <4> HIDE DEF failed, i
      <4> QED
        BY <1>3, <3>2, <4>1
    <3> QED
      BY <1>2, <3>1, <3>2
  <2> QED
    BY <2>3, <2>4
<1> HIDE DEF n, told, failed
<1>8. /\ \A r \in Procs :
           /\ pass'[r].manual = pass[r].manual /\ pass'[r].seen = pass[r].seen
           /\ pass'[r].later = n[r].later /\ pass'[r].moved = n[r].moved
           /\ pass'[r].at = "list" => pass[r].at = "list" /\ pass'[r].keep = pass[r].keep
           /\ pass'[r].at # "idle" <=> pass[r].at # "idle"
           /\ pass'[r].at # "list" <=> pass[r].at # "list"
  BY <1>1, <1>3, <1>5, <1>6, <1>7 DEF Running
<1>9. Tracks'
  <2>1. ASSUME NEW r \in Procs, pass'[r].at # "idle", pass'[r].at # "list",
               NEW j \in Issues \ pass'[r].moved
        PROVE  version'[j] = pass'[r].seen[j]
    BY <1>2, <1>3, <1>8, <2>1 DEF LaneInv, Tracks, Running
  <2>2. ASSUME NEW r \in Procs, pass'[r].at # "idle", ~ pass'[r].manual
        PROVE  pass'[r].moved \subseteq pass'[r].later
    BY <1>3, <1>8, <2>2 DEF LaneInv, Tracks, Running
  <2> QED
    BY <1>2, <1>8, <2>1, <2>2 DEF LaneInv, Tracks, Running, history
<1>10. ASSUME ~ overlapped'
       PROVE  Sound'
  <2>1. /\ Sound /\ Good(p) /\ \A r \in Procs \ {p} : pass[r].at = "idle"
    BY <1>1, <1>2, <1>10 DEF history, LaneInv, Sound, Alone, Running
  <2>2. /\ Written(p)[1] = Body[pass[p].seen[i]] /\ Written(p) # <<>> /\ Len(Written(p)) <= 1
    <3>1. comments[i] \in Seq(Bodies)
      BY <1>1 DEF LaneInv, Typed, TypeOK
    <3>2. ~ pass[p].found => comments[i] = <<>> /\ Len(comments[i]) = 0
      BY <1>1, <2>1 DEF Good
    <3>3. Len(comments[i]) <= 1 /\ Len(comments[i]) \in Nat
      BY <1>1, <2>1, <3>1 DEF Sound, Single
    <3>4. Typed
      BY DEF LaneInv
    <3> QED
      BY <1>1, <3>2, <3>3, <3>4, WrittenTypes
  <2>3. Alone'
    BY <1>2, <1>8, <2>1 DEF Sound, Alone, Running
  <2>4. Single'
    BY <1>7, <2>1, <2>2 DEF Sound, Single
  <2>5. RowTells'
    <3>1. ASSUME NEW j \in Issues \ torn, j # i, row'[j].status = "posted"
          PROVE  Shows(j, row[j].version)'
      <4>1. Shows(j, row[j].version)
        BY <1>1, <1>7, <2>1, <3>1 DEF Sound, RowTells
      <4> QED
        BY <1>7, <3>1, <4>1 DEF Shows
    <3>2. row'[i].status = "posted" => pass'[p].at = "record" /\ pass'[p].issue = i
      BY <1>5, <1>7
    <3>3. torn' = torn
      BY <1>2 DEF history
    <3>4. ASSUME NEW j \in Issues \ torn', row'[j].status = "posted"
          PROVE  \/ Shows(j, row[j].version)'
                 \/ \E r \in Procs : pass'[r].at = "record" /\ pass'[r].issue = j
      BY <3>1, <3>2, <3>3, <3>4
    <3> QED
      BY <3>4 DEF RowTells
  <2>6. Kept'
    BY <1>2, <1>7, <2>1 DEF Sound, Kept, Answered, history, LaneInv, Typed, TypeOK
  <2>7. \A r \in Procs \ {p} : Good(r)'
    <3>1. \A r \in Procs \ {p} : pass'[r].at = "idle"
      BY <1>8, <2>1
    <3> QED
      BY <3>1 DEF Good, Running
  <2>8. Good(p)'
    <3>1. CASE pass'[p] = failed
      BY <1>6, <3>1 DEF Good
    <3>2. CASE pass'[p] = told
      <4>1. /\ Shows(i, pass[p].seen[i])' /\ i \in unseen'
            /\ ~ pass[p].manual => i \in n[p].later
        <5>1. Running(p) /\ pass'[p].seen = pass[p].seen /\ pass'[p].issue = i
          BY <1>1, <1>5, <3>2
        <5> QED
          BY <1>2, <1>3, <1>7, <2>2, <5>1 DEF Shows
      <4>2. ASSUME ~ told.manual, ~ told.keep,
                   NEW j \in (owed' \cap open') \ (told.later \cup torn' \cup ToCome(p)')
            PROVE  Answered(j)'
        <5>1. /\ ToCome(p) = pass[p].probes \cup pass[p].todo \cup pass[p].held \cup {i}
              /\ ToCome(p)' = ToCome(p)
          BY <1>1, <1>5, <3>2 DEF ToCome
        <5>2. j # i /\ j \in (owed \cap open) \ (pass[p].later \cup torn \cup ToCome(p))
          BY <1>2, <1>3, <1>5, <4>2, <5>1 DEF history
        <5>3. j \in Issues /\ Answered(j)
          BY <1>1, <1>5, <2>1, <4>2, <5>2 DEF Good, LaneInv, Typed, TypeOK
        <5> QED
          BY <1>2, <1>7, <5>2, <5>3 DEF Answered
      <4> QED
        BY <1>5, <3>2, <4>1, <4>2 DEF Good, Shows
    <3> QED
      BY <1>7, <3>1, <3>2
  <2> QED
    BY <2>3, <2>4, <2>5, <2>6, <2>7, <2>8 DEF Sound
<1> QED
  BY <1>9, <1>10

LEMMA LaneStep == LaneInv /\ [Next]_vars => LaneInv'
<1> SUFFICES ASSUME LaneInv, [Next]_vars PROVE Tracks' /\ (~ overlapped' => Sound')
  BY TypedStep DEF LaneInv
<1>1. CASE UNCHANGED vars
  <2>1. ~ overlapped' => ~ overlapped /\ Alone'
    BY <1>1 DEF vars, history, LaneInv, Sound, Alone, Running
  <2> QED
    BY <1>1, <2>1, SameKeeps DEF vars, history
<1>2. ASSUME NEW p \in Procs, Step(p)
      PROVE  Tracks' /\ (~ overlapped' => Sound')
  BY <1>2, KeptLooking, KeptHandling, KeptPost, KeptEnds DEF Step
<1> QED
  BY <1>1, <1>2, KeptAround, KeptHandling, KeptEnds DEF Next

\* upsertIssueComment looks for the marker and writes in another request; with
\* one pass at a time it never adds a second comment to an issue, whatever
\* crashes, lost answers and repetitions there are.
THEOREM OneCommentHolds == Spec => []OneComment
<1>1. LaneInv => OneComment
  BY DEF LaneInv, Sound, Single, OneComment
<1> QED
  BY <1>1, LaneInit, LaneStep, PTL DEF Spec

\* The watermark that runIssueEnrichmentCycle writes at its end never passes an
\* edited issue whose comment is not that of its text, but for torn ones.
THEOREM NothingForgottenHolds == Spec => []NothingForgotten
<1>1. LaneInv => NothingForgotten
  BY DEF LaneInv, Sound, Kept, NothingForgotten
<1> QED
  BY <1>1, LaneInit, LaneStep, PTL DEF Spec
===============================================================================
