-------------------------------- MODULE Reporter --------------------------------
(***************************************************************************)
(* The worker reporter (agent/lib/dark-factory/worker-reporter.ts) over    *)
(* the run ledger, GitHub's comments (issue-writer.ts) and the state store.*)
(*                                                                         *)
(* A report is recorded on its run first; if the ledger takes it, or has   *)
(* it already, one comment per run and kind is posted or edited.  The ids  *)
(* of the comments are one record of the state store, read before the call *)
(* to GitHub and written back whole after it.  Any of these calls may fail *)
(* or do its work and lose its answer, and the process may die in between. *)
(***************************************************************************)
EXTENDS RunLedger, Sequences

CONSTANTS
    Reporters,    \* the processes that report
    Messages,     \* what there is to report: a kind and a number
    MaxReports,   \* bounds of the model, in a behaviour: calls of report,
    MaxLapses,    \* calls that fail or lose their answer, and crashes,
    MaxReported   \* and runs that report

\* WorkerMessageKind.
MessageKinds == {"progress", "completed", "question", "roadblock"}

ASSUME ReporterAssumption ==
    /\ Messages \subseteq MessageKinds \X Nat
    /\ {MaxReports, MaxLapses, MaxReported} \subseteq Nat
    /\ Nil \notin Messages

VARIABLES
    report,     \* where the call of each process is
    comments,   \* the comments on the tickets, by their id
    savedIds,      \* commentIds of the record `reporter:<run>`, 0 if absent
    linked,     \* df_run_events.comment_reference, 0 if absent
    made,       \* history: calls so far
    lapses,     \* history: failures so far
    disturbed   \* history: the runs where a comment may have escaped its record

reporterOnly == <<report, comments, savedIds, linked, made, lapses, disturbed>>
reporterVars == <<ledgerVars, reporterOnly>>

KindOf(m) == m[1]

Comment == [run : Runs, kind : MessageKinds, shows : Messages]

\* known: the record this call read; id: the comment it posted or edits.
ReportCall == [at : {"idle", "append", "read", "edit", "post", "save", "link"},
               run : Runs \cup {Nil}, message : Messages \cup {Nil},
               known : [MessageKinds -> Nat], id : Nat]

NoneSaved == [k \in MessageKinds |-> 0]

NoCall == [at |-> "idle", run |-> Nil, message |-> Nil, known |-> NoneSaved, id |-> 0]

ReporterTypeOK ==
    /\ TypeOK
    /\ report \in [Reporters -> ReportCall]
    /\ comments \in Seq(Comment)
    /\ savedIds \in [Runs -> [MessageKinds -> 0 .. Len(comments)]]
    /\ linked \in [Runs -> [Messages -> 0 .. Len(comments)]]
    /\ made \in 0..MaxReports
    /\ lapses \in 0..MaxLapses
    /\ disturbed \subseteq Runs

ReporterInit ==
    /\ Init
    /\ report = [c \in Reporters |-> NoCall]
    /\ comments = <<>>
    /\ savedIds = [r \in Runs |-> NoneSaved]
    /\ linked = [r \in Runs |-> [m \in Messages |-> 0]]
    /\ made = 0
    /\ lapses = 0
    /\ disturbed = {}

ReportId(m) == <<"report", m>>

\* The lifecycle event of a message (toRunEvent in report).
WorkerEvent(k) ==
    CASE k = "progress" -> "worker.progress"
      [] k = "completed" -> "worker.completed"
      [] k = "question" -> "worker.question"
      [] k = "roadblock" -> "worker.roadblock"

ReportEvent(m) ==
    [id |-> ReportId(m), type |-> WorkerEvent(KindOf(m)),
     status |-> IF KindOf(m) = "question" THEN "blocked" ELSE "running"]

\* An answer lets the run go on; an operator may retire it.
Resumption == [id |-> <<"reporter", "resumed">>, type |-> "run.resumed",
               status |-> "running"]

ReportEventIds ==
    {ReportId(m) : m \in Messages} \cup {Resumption.id, RetireId}
    \cup {AcceptedId(d) : d \in Deliveries}

ASSUME ReporterIdsAssumption == ReportEventIds \subseteq EventIds

-----------------------------------------------------------------------------
(* A report                                                                *)

InFlight(r) == \E c \in Reporters : report[c].run = r

MoveReport(c, pc) == report' = [report EXCEPT ![c].at = pc]
Return(c) == report' = [report EXCEPT ![c] = NoCall]

\* A call that fails or loses its answer; the message is not told again but
\* by another report.
Lapse(c) ==
    /\ lapses < MaxLapses
    /\ lapses' = lapses + 1
    /\ Return(c)

Escapes(r) == disturbed' = disturbed \cup {r}

StartReport(c, r, m) ==
    /\ report[c].at = "idle"
    /\ made < MaxReports
    /\ made' = made + 1
    /\ status[r] # "none"
    /\ report' = [report EXCEPT ![c].at = "append", ![c].run = r, ![c].message = m]
    /\ IF InFlight(r) THEN Escapes(r) ELSE UNCHANGED disturbed
    /\ UNCHANGED <<ledgerVars, comments, savedIds, linked, lapses>>

\* Record first: a report the ledger refuses, or cannot take, goes no further.
RecordReport(c) ==
    LET r == report[c].run
        e == ReportEvent(report[c].message)
    IN  /\ report[c].at = "append"
        /\ \/ AppendEvent(r, e) /\ MoveReport(c, "read") /\ UNCHANGED lapses
           \/ /\ e \in log[r]
              /\ MoveReport(c, "read")
              /\ UNCHANGED <<ledgerVars, lapses>>
           \/ /\ e \notin log[r] /\ ~Applies(e, status[r])
              /\ Return(c)
              /\ UNCHANGED <<ledgerVars, lapses>>
           \/ Lapse(c) /\ (AppendEvent(r, e) \/ UNCHANGED ledgerVars)
        /\ UNCHANGED <<comments, savedIds, linked, made, disturbed>>

\* readRecord: an unreadable record is not an empty one.
ReadRecord(c) ==
    LET known == savedIds[report[c].run]
        id == known[KindOf(report[c].message)]
    IN  /\ report[c].at = "read"
        /\ \/ /\ report' = [report EXCEPT ![c].known = known, ![c].id = id,
                     ![c].at = IF id = 0 THEN "post" ELSE "edit"]
              /\ UNCHANGED lapses
           \/ Lapse(c)
        /\ UNCHANGED <<ledgerVars, comments, savedIds, linked, made, disturbed>>

\* editComment: the recorded comment tells the new message.
EditComment(c, done) ==
    /\ report[c].at = "edit"
    /\ comments' = IF done
           THEN [comments EXCEPT ![report[c].id].shows = report[c].message]
           ELSE comments
    /\ \/ done /\ MoveReport(c, "link") /\ UNCHANGED lapses
       \/ Lapse(c)
    /\ UNCHANGED <<ledgerVars, savedIds, linked, made, disturbed>>

\* postComment.
PostComment(c, done) ==
    LET r == report[c].run
        m == report[c].message
    IN  /\ report[c].at = "post"
        /\ comments' = IF done
               THEN Append(comments, [run |-> r, kind |-> KindOf(m), shows |-> m])
               ELSE comments
        /\ \/ /\ done
              /\ report' = [report EXCEPT ![c].at = "save", ![c].id = Len(comments) + 1]
              /\ UNCHANGED <<lapses, disturbed>>
           \/ /\ Lapse(c)
              /\ IF done THEN Escapes(r) ELSE UNCHANGED disturbed
        /\ UNCHANGED <<ledgerVars, savedIds, linked, made>>

\* Mutant: the record holds the new comment alone.
RecordWithAlone(known, k, id) == [NoneSaved EXCEPT ![k] = id]

\* {...record.commentIds, [kind]: id}
RecordWith(known, k, id) == [known EXCEPT ![k] = id]

\* writeRecord: the record that was read, with the new comment.
SaveRecord(c) ==
    LET r == report[c].run IN
    /\ report[c].at = "save"
    /\ \/ /\ savedIds' = [savedIds EXCEPT ![r] =
                 RecordWith(report[c].known, KindOf(report[c].message), report[c].id)]
          /\ MoveReport(c, "link")
          /\ UNCHANGED <<lapses, disturbed>>
       \/ Lapse(c) /\ Escapes(r) /\ UNCHANGED savedIds
    /\ UNCHANGED <<ledgerVars, comments, linked, made>>

\* updateCommentReference, best-effort.
LinkComment(c) ==
    /\ report[c].at = "link"
    /\ \/ /\ linked' = [linked EXCEPT ![report[c].run][report[c].message] = report[c].id]
          /\ Return(c)
          /\ UNCHANGED lapses
       \/ Lapse(c) /\ UNCHANGED linked
    /\ UNCHANGED <<ledgerVars, comments, savedIds, made, disturbed>>

\* The process dies.
CrashReport(c) ==
    /\ report[c].at # "idle"
    /\ Lapse(c)
    /\ IF report[c].at = "save" THEN Escapes(report[c].run) ELSE UNCHANGED disturbed
    /\ UNCHANGED <<ledgerVars, comments, savedIds, linked, made>>

WorkGoesOn ==
    /\ \/ /\ Cardinality({r \in Runs : status[r] # "none"}) < MaxReported
          /\ \E d \in Deliveries, i \in Issues, r \in Runs : AcceptDelivery(d, i, r)
       \/ \E r \in Runs : AppendEvent(r, Resumption)
       \/ \E i \in Issues : RetireRunClaim(i)
    /\ UNCHANGED reporterOnly

ReporterNext ==
    \/ WorkGoesOn
    \/ \E c \in Reporters, r \in Runs, m \in Messages : StartReport(c, r, m)
    \/ \E c \in Reporters, done \in BOOLEAN : EditComment(c, done) \/ PostComment(c, done)
    \/ \E c \in Reporters :
           \/ RecordReport(c) \/ ReadRecord(c) \/ SaveRecord(c)
           \/ LinkComment(c) \/ CrashReport(c)

ReporterSpec == ReporterInit /\ [][ReporterNext]_reporterVars

-----------------------------------------------------------------------------
(* Properties                                                              *)

CommentsOf(r, k) ==
    {n \in DOMAIN comments : comments[n].run = r /\ comments[n].kind = k}

\* The ticket tells what the ledger knows: whatever is reported again, after
\* the run parked, ended or was retired, every comment shows a message that is
\* an event of its run (record first); the record and the ledger's references
\* name comments of the run and the kind; and a kind has one comment, unless a
\* posted one escaped the record (two reports at once, a failed save, a lost
\* answer, a crash).
CommentsTellTheRecord ==
    /\ \A n \in DOMAIN comments :
           EventIsLogged(comments[n].run, ReportId(comments[n].shows))
    /\ \A r \in Runs, k \in MessageKinds :
           /\ savedIds[r][k] # 0 => savedIds[r][k] \in CommentsOf(r, k)
           /\ r \notin disturbed => Cardinality(CommentsOf(r, k)) <= 1
    /\ \A r \in Runs, m \in Messages :
           linked[r][m] # 0 => /\ linked[r][m] \in CommentsOf(r, KindOf(m))
                               /\ EventIsLogged(r, ReportId(m))
=============================================================================
