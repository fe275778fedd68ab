----------------------------- MODULE CodexRollouts -----------------------------
(***************************************************************************)
(* What "burnban usage" counts of Codex's sessions (localusage.go).        *)
(*                                                                         *)
(* Codex is external: it writes one rollout file per session, appends a    *)
(* record of the session's running total after each use, starts the total  *)
(* again when it restarts, begins the file of a forked session with the    *)
(* parent's records or the last of them, and copies a file when it resumes *)
(* a session in a new one.  A crash can leave a torn line, a record of use *)
(* or another, with which the next line may merge, and a line can be       *)
(* longer than the scanner reads.  A scan lists the files and reads them   *)
(* one by one while Codex goes on; files are named by their index.         *)
(* Every use moves the clock.  A total is the set of the uses it adds up:  *)
(* totals that are equal by chance are left out; one that began again may  *)
(* be above the one before in every counter.                               *)
(* A scan keeps nothing for the next one, so behaviours end with a scan.   *)
(***************************************************************************)
EXTENDS Integers, Sequences, FiniteSets

CONSTANTS MaxFiles, MaxUses, MaxFaults,
          ScanFiles   \* ScanLimits.MaxFiles

\* Assumed by whoever instantiates the module.
RolloutsAssumption == {MaxFiles, MaxUses, MaxFaults, ScanFiles} \subseteq Nat

VARIABLES
  files,    \* sequence of [session, parent, started, records, total, lost, torn, unread, mod]
  uses,     \* the session of each use; the n-th was at time n
  faults,   \* restarts, lost and spoilt lines so far
  scan,     \* [at, since, queue, got, warned, before]
  report    \* [at, since, events, warned, before] of the scan that ended

vars == <<files, uses, faults, scan, report>>

NoSession == 0
NoReport == [at |-> "none"]
Idle == [at |-> "idle"]

Init ==
  /\ files = <<>> /\ uses = <<>> /\ faults = 0
  /\ scan = Idle /\ report = NoReport

-----------------------------------------------------------------------------
(* Codex writing its files.                                                *)

Now == Len(uses) + 1

Sessions == {files[f].session : f \in DOMAIN files}
NewSession == Cardinality(Sessions) + 1

Written(f, file) == files' = [files EXCEPT ![f] = [file EXCEPT !.mod = Now]]
Created(file) == Len(files) < MaxFiles /\ files' = Append(files, [file EXCEPT !.mod = Now])

Begin ==
  /\ Created([session |-> NewSession, parent |-> NoSession, started |-> Now, records |-> <<>>,
              total |-> {}, lost |-> {}, torn |-> FALSE, unread |-> -1, mod |-> 0])
  /\ UNCHANGED <<uses, faults, scan, report>>

\* The total that a file told last.
Told(f) == LET old == files[f].records IN IF old = <<>> THEN {} ELSE old[Len(old)].total

Used(f) == Len(uses) < MaxUses /\ uses' = Append(uses, files[f].session)

\* A total that began again is below the one before in some counter, or is not.
Use(f) ==
  /\ Used(f)
  /\ LET total == files[f].total \cup {Now}
     IN  \E above \in IF Told(f) \subseteq total THEN {FALSE} ELSE BOOLEAN :
           Written(f, [files[f] EXCEPT !.total = total,
                         !.records = Append(@, [time |-> Now, total |-> total, above |-> above])])
  /\ UNCHANGED <<faults, scan, report>>

\* What befalls a file during a scan befell it before, if the scan has yet to
\* read it, or is for the next one.
Restart(f) ==
  /\ scan.at = "idle" /\ faults < MaxFaults /\ files[f].total # {}
  /\ faults' = faults + 1
  /\ files' = [files EXCEPT ![f].total = {}]
  /\ UNCHANGED <<uses, scan, report>>

\* Who resumes a session goes on from the total it finds told.
Resumed(f) == IF files[f].total = {} THEN {} ELSE Told(f)

\* A use whose record is torn, or merged with a torn line: the process died
\* writing it, or lives and tells the use with the next.
Lose(f) ==
  /\ scan.at = "idle" /\ faults < MaxFaults
  /\ faults' = faults + 1
  /\ Used(f)
  /\ \E total \in {Resumed(f), files[f].total \cup {Now}} :
       Written(f, [files[f] EXCEPT !.total = total, !.lost = @ \cup {Now}, !.torn = TRUE])
  /\ UNCHANGED <<scan, report>>

\* The last k records, written again.
Replay(records, k) == [i \in 1..k |-> [records[Len(records) - k + i] EXCEPT !.time = Now]]

\* The child replays the last k records of its parent, written again as it
\* starts, which may be the very instant of the parent's next use, and goes
\* on from the last total it replayed.
Fork(f, k) ==
  LET old == files[f].records IN
  /\ k <= Len(old)
  /\ Created([files[f] EXCEPT !.session = NewSession, !.parent = files[f].session, !.started = Now,
                              !.records = Replay(old, k),
                              !.total = IF k = 0 THEN {} ELSE Told(f),
                              !.lost = {}, !.torn = FALSE, !.unread = -1])
  /\ UNCHANGED <<uses, faults, scan, report>>

Copy(f) ==
  /\ Created([files[f] EXCEPT !.total = Resumed(f), !.torn = FALSE, !.unread = -1])
  /\ UNCHANGED <<uses, faults, scan, report>>

\* The last record's line again, a torn line of something else than use, or a
\* line over the limit.
Spoilt(f) ==
  LET old == files[f].records IN
  \/ old # <<>> /\ Written(f, [files[f] EXCEPT !.records = Append(@, [old[Len(old)] EXCEPT !.time = Now])])
  \/ ~files[f].torn /\ Written(f, [files[f] EXCEPT !.torn = TRUE])
  \/ files[f].unread = -1 /\ Written(f, [files[f] EXCEPT !.unread = Len(old)])

Spoil(f) ==
  /\ scan.at = "idle" /\ faults < MaxFaults /\ faults' = faults + 1
  /\ Spoilt(f)
  /\ UNCHANGED <<uses, scan, report>>

-----------------------------------------------------------------------------
(* Reading: walkJSONL lists, newest first, and readCodexRollout projects.  *)

\* logFile: a path and its time as listed.
Listing(paths) == {[file |-> f, mod |-> files[f].mod] : f \in paths}

Newer(a, b) == a.mod > b.mod \/ (a.mod = b.mod /\ a.file > b.file)

ScanBegins(since) ==
  /\ scan.at = "idle"
  /\ scan' = [at |-> "reading", since |-> since, got |-> <<>>, warned |-> FALSE, before |-> Len(uses),
              queue |-> Listing({f \in DOMAIN files : files[f].mod >= since})]
  /\ UNCHANGED <<files, uses, faults, report>>

\* A total written again carries no use.
Distinct(records) ==
  LET distinct[n \in 0..Len(records)] ==
        IF n = 0 THEN <<>>
        ELSE IF n > 1 /\ records[n].total = records[n - 1].total THEN distinct[n - 1]
        ELSE Append(distinct[n - 1], records[n])
  IN distinct[Len(records)]

Projection(f) ==
  LET file == files[f]
      complete == file.unread = -1
  IN  [file |-> f, session |-> file.session, parent |-> file.parent, started |-> file.started,
       valid |-> ~(file.torn /\ complete), complete |-> complete,
       usage |-> Distinct(IF complete THEN file.records ELSE SubSeq(file.records, 1, file.unread))]

Reads ==
  /\ scan.at = "reading" /\ Len(scan.got) < ScanFiles
  /\ \E listed \in scan.queue :
       /\ \A other \in scan.queue \ {listed} : Newer(listed, other)
       /\ LET p == Projection(listed.file)
          IN  scan' = [scan EXCEPT !.queue = @ \ {listed}, !.got = Append(@, p), !.warned = @ \/ ~p.complete]
  /\ UNCHANGED <<files, uses, faults, report>>

ReachesLimit ==
  /\ scan.at = "reading" /\ scan.queue # {} /\ Len(scan.got) = ScanFiles
  /\ scan' = [scan EXCEPT !.queue = {}, !.warned = TRUE]
  /\ UNCHANGED <<files, uses, faults, report>>

-----------------------------------------------------------------------------
(* The rollouts read, a sequence.                                          *)

\* canonicalCodexRollouts: of a session's files the longest complete one.
Better(got, i, j) ==
  \/ got[i].complete /\ ~got[j].complete
  \/ /\ got[i].complete = got[j].complete
     /\ \/ Len(got[i].usage) > Len(got[j].usage)
        \/ Len(got[i].usage) = Len(got[j].usage) /\ i < j

Canonical(got, session) ==
  LET of == {i \in DOMAIN got : got[i].session = session /\ got[i].valid}
  IN  {i \in of : \A j \in of \ {i} : Better(got, i, j)}

Missing(got) ==
  {got[i].parent : i \in {j \in DOMAIN got : got[j].parent # NoSession /\ Canonical(got, got[j].parent) = {}}}

\* Files named by a missing parent's identity that were not read yet.
ParentFiles ==
  LET missing == Missing(scan.got)
  IN  {f \in DOMAIN files : files[f].session \in missing /\ \A i \in DOMAIN scan.got : scan.got[i].file # f}

ResolvesParents ==
  /\ scan.at = "reading" /\ scan.queue = {} /\ ParentFiles # {} /\ Len(scan.got) < ScanFiles
  /\ scan' = [scan EXCEPT !.queue = Listing(ParentFiles)]
  /\ UNCHANGED <<files, uses, faults, report>>

SameLineage(r, other) == r.parent = other.parent /\ r.started = other.started

\* codexUsageStartsWith.
StartsWith(usage, prefix) ==
  Len(prefix) <= Len(usage) /\ \A k \in DOMAIN prefix : usage[k] = prefix[k]

\* ambiguousCodexSessionIDs: a complete file that is no prefix of the chosen one.
Ambiguous(got, session) ==
  \E c \in Canonical(got, session), i \in DOMAIN got :
    /\ got[i].session = session /\ got[i].valid /\ got[i].complete /\ got[c].complete
    /\ ~SameLineage(got[i], got[c]) \/ ~StartsWith(got[c].usage, got[i].usage)

\* Records from before the first that is not before a time.
Before(usage, time) ==
  SubSeq(usage, 1, Cardinality({k \in DOMAIN usage : \A j \in 1..k : usage[j].time < time}))

\* codexUsagePrefixAtParentEnd: the longest prefix of the child's totals that
\* ends the parent's.
Matches(child, parent) ==
  {k \in 0..Len(child) : k <= Len(parent) /\ \A j \in 1..k : child[j].total = parent[Len(parent) - k + j].total}

Inherited(child, parent) == CHOOSE k \in Matches(child, parent) : \A j \in Matches(child, parent) : j <= k

ParentOf(got, r) == got[CHOOSE p \in Canonical(got, r.parent) : TRUE]
ParentUsage(got, r) == Before(ParentOf(got, r).usage, r.started)

ParentKnown(got, r) ==
  Canonical(got, r.parent) # {} /\ ~Ambiguous(got, r.parent) /\ ParentOf(got, r).complete

\* A history that is not its parent's.
Foreign(got, r) ==
  /\ r.usage # <<>>
  /\ \/ ParentOf(got, r).usage = <<>>
     \/ ParentUsage(got, r) # <<>> /\ Inherited(r.usage, ParentUsage(got, r)) = 0

\* Fault: a torn file that told something goes without a warning.
MalformedIfEmpty(r) == ~r.valid /\ r.usage = <<>>

Malformed(r) == ~r.valid /\ r.usage # <<>>

\* Files a scan leaves out with a warning; without one go those for which
\* another file of their session stands.
Refused(got, i) ==
  LET r == got[i] IN
  \/ Malformed(r)
  \/ r.valid /\ Ambiguous(got, r.session)
  \/ /\ i \in Canonical(got, r.session) /\ r.parent # NoSession
     /\ ~ParentKnown(got, r) \/ Foreign(got, r)

\* Fault: copies are not told from their originals.
AcceptedAll(got) == {i \in DOMAIN got : ~Refused(got, i)}

Accepted(got) ==
  {i \in DOMAIN got : i \in Canonical(got, got[i].session) /\ ~Refused(got, i)}

Skip(got, r) == IF r.parent = NoSession THEN 0 ELSE Inherited(r.usage, ParentUsage(got, r))

Previous(usage, k) == IF k = 1 THEN {} ELSE usage[k - 1].total

BeganAgain(usage, k) == ~(Previous(usage, k) \subseteq usage[k].total)

\* The uses that a record is the first to tell.
Delta(usage, k) == IF BeganAgain(usage, k) THEN usage[k].total ELSE usage[k].total \ Previous(usage, k)

\* That the counters of an event are those uses': a total that began again is
\* taken whole if some counter shrank, and for the growth over the one before
\* if none did.
Whole(usage, k) == ~(BeganAgain(usage, k) /\ usage[k].above)

\* The events of a rollout: what was used, and where it is read.
Events(got, i, since) ==
  LET r == got[i]
      live == {k \in DOMAIN r.usage : k > Skip(got, r) /\ Delta(r.usage, k) # {} /\ r.usage[k].time >= since}
  IN  {[rollout |-> i, record |-> k, uses |-> Delta(r.usage, k), whole |-> Whole(r.usage, k)] : k \in live}

ScanEnds ==
  /\ scan.at = "reading" /\ scan.queue = {}
  /\ ParentFiles = {} \/ Len(scan.got) = ScanFiles
  /\ LET got == scan.got
     IN  report' = [at |-> "done", since |-> scan.since, before |-> scan.before,
                    events |-> UNION {Events(got, i, scan.since) : i \in Accepted(got)},
                    warned |-> scan.warned \/ \E i \in DOMAIN got : Refused(got, i)]
  /\ scan' = Idle
  /\ UNCHANGED <<files, uses, faults>>

Step ==
  \/ Begin
  \/ \E f \in DOMAIN files : Use(f) \/ Lose(f) \/ Restart(f) \/ Copy(f) \/ Spoil(f)
  \/ \E f \in DOMAIN files : \E k \in 0..Len(files[f].records) : Fork(f, k)
  \/ \E since \in 1..Now : ScanBegins(since)
  \/ Reads \/ ReachesLimit \/ ResolvesParents \/ ScanEnds

Next == report = NoReport /\ Step

Spec == Init /\ [][Next]_vars

-----------------------------------------------------------------------------
(* Properties.                                                             *)

TypeOK ==
  /\ Len(files) <= MaxFiles /\ Len(uses) <= MaxUses /\ faults \in 0..MaxFaults
  /\ \A f \in DOMAIN files : files[f].total \subseteq 1..Len(uses) /\ files[f].mod \in 1..Now
  /\ scan.at \in {"idle", "reading"}

\* A fork of a fork, both at one instant.
InstantFork ==
  \E f, g \in DOMAIN files :
    /\ files[f].parent # NoSession /\ files[g].session = files[f].parent
    /\ files[g].parent # NoSession /\ files[g].started = files[f].started

\* One session in two files: a copy.
OneSession(f, g) == f # g /\ files[f].session = files[g].session
Copied == \E f, g \in DOMAIN files : OneSession(f, g)

\* A copy in the window scanned that has not what its session had before.
Outdated(since) ==
  \E f, g \in DOMAIN files :
    /\ OneSession(f, g) /\ files[f].mod >= since
    /\ ~StartsWith(Distinct(files[f].records), Before(Distinct(files[g].records), since))

Lost == UNION {files[f].lost : f \in DOMAIN files}

\* The doc's first promise (SOURCE_ADAPTERS.md:121, localusage.go:201): history
\* replayed by forks, forks of forks and copies is not counted again, whatever
\* is torn, unreadable or still being written: each use is in one event at
\* most, and none is from before the window, but one whose record was torn and
\* that the next told.  Excepted is a partial report that may have taken an old
\* copy of a parent for the parent, whose own file is torn or not read.
NothingCountedTwice ==
  report.at = "done" /\ ~InstantFork /\ ~Outdated(report.since) /\ (Copied => ~report.warned) =>
    /\ \A e \in report.events : e.uses \subseteq (report.since..Len(uses)) \cup Lost
    /\ \A d, e \in report.events : d # e => d.uses \cap e.uses = {}

\* The code's first silence (localusage.go:550): the line of a use was torn, and
\* its file had told nothing that a scan could find.
Untold(n) ==
  \E f \in DOMAIN files :
    LET told == Distinct(files[f].records)
    IN  /\ n \in files[f].lost /\ files[f].torn
        /\ \A k \in DOMAIN told : told[k].time > report.before

\* And its second (localusage.go:616-619): a use is in a total that began again
\* and is not below the one before, so that it is taken for growth.
Overtaken(n) ==
  \E f \in DOMAIN files :
    LET told == Distinct(files[f].records)
    IN  \E k \in DOMAIN told : n \in Delta(told, k) /\ ~Whole(told, k)

\* The doc's second promise (SOURCE_ADAPTERS.md:143): usage the scan cannot
\* place makes it warn.  A report without a warning has all that was used before
\* the scan began, each use with its own counters, but for the two silences.
NoWarningNoLoss ==
  report.at = "done" /\ ~report.warned =>
    \A n \in report.since..report.before :
      Untold(n) \/ \E e \in report.events : n \in e.uses /\ (e.whole \/ Overtaken(n))
================================================================================
