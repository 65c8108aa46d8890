------------------------------- MODULE Notifier -------------------------------
(***************************************************************************)
(* The notifying run history (agent/lib/dark-factory/                      *)
(* notifying-run-history.ts) over the run ledger, with the Slack driver of *)
(* slack-notification.ts behind it.                                        *)
(*                                                                         *)
(* Each process that writes runs (the webhook's, the runner's) decorates   *)
(* the one ledger: a write is made first, and a transition worth telling   *)
(* is announced after it, unless the ledger called it a duplicate or the   *)
(* process remembers it.  What a process remembers is bounded, and gone    *)
(* with the process; the announcement between a write and a crash is lost. *)
(* The driver tries twice, and a request that failed may have arrived.     *)
(***************************************************************************)
EXTENDS RunLedger, Sequences, SequencesExt

CONSTANTS
    Writers,        \* the processes that hold a decorated store
    Noticed,        \* the issue whose runs are announced
    MaxRemembered,  \* MAX_REMEMBERED_TRANSITIONS
    MaxAttempts,    \* MAX_SLACK_ATTEMPTS
    MaxPending,     \* announcements under way at once (a bound of the model)
    MaxTold         \* runs announced in a behaviour (a bound of the model)

ASSUME NotifierAssumption ==
    /\ Noticed \in Issues
    /\ {MaxRemembered, MaxAttempts, MaxPending, MaxTold} \subseteq Nat \ {0}

VARIABLES
    pending,     \* the calls of announce under way
    remembered,  \* NotifyingRunHistoryStore.remembered, oldest first
    channel      \* history: what was announced, and what the channel shows

notifierVars == <<ledgerVars, pending, remembered, channel>>

\* Transitions of a run after its acceptance.
TripNotice == [id |-> <<"breaker", "trip">>, type |-> "run.terminal",
               status |-> "failed"]
NoticeEvents ==
    {TripNotice,
     [id |-> <<"notice", "asked">>, type |-> "worker.question", status |-> "blocked"],
     [id |-> <<"notice", "resumed">>, type |-> "run.resumed", status |-> "running"],
     [id |-> <<"notice", "ended">>, type |-> "run.terminal", status |-> "succeeded"]}

NoticeEventIds ==
    {e.id : e \in NoticeEvents} \cup {RetireId}
    \cup {AcceptedId(d) : d \in Deliveries}

ASSUME NotifierIdsAssumption == NoticeEventIds \subseteq EventIds

\* notificationKindFor: what is worth telling of an event, Nil if nothing.
NotificationKind(e) ==
    CASE e.id = TripNotice.id -> "tripped"
      [] e.type = "run.accepted" -> "started"
      [] e.type = "worker.question" -> "parked"
      [] e.type = "run.terminal" -> e.status
      [] OTHER -> Nil

Kinds == {"started", "succeeded", "failed", "aborted", "parked", "tripped"}

\* A transition, its key being `${runId}:${eventId}`, and what is told of it.
Notification == [run : Runs, id : EventIds, kind : Kinds]

\* attempts: how often the driver has tried; 0 is before `seen` is asked.
Announcement == [by : Writers, of : Notification, duplicate : BOOLEAN,
                 attempts : 0 .. MaxAttempts - 1, begun : BOOLEAN]

NotifierTypeOK ==
    /\ TypeOK
    /\ \A a \in pending : a \in Announcement
    /\ remembered \in [Writers -> Seq(Runs \X EventIds)]
    /\ \A w \in Writers :
           Len(remembered[w]) <= MaxRemembered /\ IsInjective(remembered[w])
    /\ \A n \in DOMAIN channel :
           /\ n \in Notification
           /\ channel[n] \in [told : Nat, shown : Nat, lost : BOOLEAN]

NotifierInit ==
    /\ Init
    /\ pending = {}
    /\ remembered = [w \in Writers |-> <<>>]
    /\ channel = [n \in {} |-> 0]

-----------------------------------------------------------------------------
(* The decorated writes                                                    *)

\* The write was answered ok: its announcement begins.
Observe(w, r, e, duplicate) ==
    /\ Cardinality(pending) < MaxPending
    /\ pending' =
         IF NotificationKind(e) = Nil THEN pending
         ELSE pending \cup
                {[by |-> w, duplicate |-> duplicate, attempts |-> 0, begun |-> FALSE,
                  of |-> [run |-> r, id |-> e.id, kind |-> NotificationKind(e)]]}
    /\ UNCHANGED <<remembered, channel>>

AcceptedEvent(d) ==
    [id |-> AcceptedId(d), type |-> "run.accepted", status |-> "queued"]

\* acceptDelivery: a new run, or the replay of the one the delivery created.
NoticeAccept(w, d) ==
    \/ \E r \in Runs :
          /\ Cardinality({q \in Runs : status[q] # "none"}) < MaxTold
          /\ AcceptDelivery(d, Noticed, r)
          /\ Observe(w, r, AcceptedEvent(d), FALSE)
    \/ /\ IsReplay(d, Noticed)
       /\ Observe(w, bound[d], AcceptedEvent(d), TRUE)
       /\ UNCHANGED ledgerVars

\* appendEvent: a new event, or one already recorded.
NoticeAppend(w, r, e) ==
    \/ /\ AppendEvent(r, e)
       /\ Observe(w, r, e, FALSE)
    \/ /\ e \in log[r]
       /\ Observe(w, r, e, TRUE)
       /\ UNCHANGED ledgerVars

\* retireRunClaim is a plain delegation: its end of the run is not told.
NoticeRetire ==
    /\ RetireRunClaim(Noticed)
    /\ UNCHANGED <<pending, remembered, channel>>

-----------------------------------------------------------------------------
(* The announcement                                                        *)

\* Mutant: the oldest key is evicted one key late.
RememberLate(keys, key) ==
    Append(IF Len(keys) > MaxRemembered THEN Tail(keys) ELSE keys, key)

\* seen: the oldest key makes room.
Remember(keys, key) ==
    Append(IF Len(keys) >= MaxRemembered THEN Tail(keys) ELSE keys, key)

\* Mutant: only what the process remembers is suppressed.
IsSuppressedInProcess(a) ==
    <<a.of.run, a.of.id>> \in ToSet(remembered[a.by])

\* announce: said once already, by the ledger's word or the process's.
IsSuppressed(a) ==
    \/ a.duplicate
    \/ <<a.of.run, a.of.id>> \in ToSet(remembered[a.by])

\* What the channel has of a notification.
Shown(n) == IF n \in DOMAIN channel THEN channel[n]
            ELSE [told |-> 0, shown |-> 0, lost |-> FALSE]

SetShown(n, s) ==
    channel' = [m \in DOMAIN channel \cup {n} |-> IF m = n THEN s ELSE channel[m]]

Announce(a) ==
    /\ ~a.begun
    /\ IF IsSuppressed(a)
       THEN pending' = pending \ {a} /\ UNCHANGED <<remembered, channel>>
       ELSE /\ pending' = (pending \ {a}) \cup {[a EXCEPT !.begun = TRUE]}
            /\ remembered' = [remembered EXCEPT
                   ![a.by] = Remember(@, <<a.of.run, a.of.id>>)]
            /\ SetShown(a.of, [Shown(a.of) EXCEPT !.told = @ + 1])
    /\ UNCHANGED ledgerVars

\* The answers an attempt can get.  A 4xx is final; a 5xx, a dropped connection
\* and a timeout are tried again, whether the message is not shown
\* ("unavailable") or has been ("lost").
Replies == {"posted", "refused", "unavailable", "lost"}
IsRetryable(answer) == answer \in {"unavailable", "lost"}

\* SlackNotificationProvider.attempt; a notification not delivered is only
\* logged.
Attempt(a, answer) ==
    LET again == [a EXCEPT !.attempts = @ + 1] IN
    /\ a.begun
    /\ pending' = (pending \ {a}) \cup
           (IF IsRetryable(answer) /\ a.attempts + 1 < MaxAttempts
            THEN {again} ELSE {})
    /\ SetShown(a.of, [Shown(a.of) EXCEPT
           !.shown = IF answer \in {"posted", "lost"} THEN @ + 1 ELSE @,
           !.lost = @ \/ answer = "lost"])
    /\ UNCHANGED <<ledgerVars, remembered>>

\* A process dies: its announcements and its memory are gone.
Restart(w) ==
    /\ remembered[w] # <<>> \/ \E a \in pending : a.by = w
    /\ pending' = {a \in pending : a.by # w}
    /\ remembered' = [remembered EXCEPT ![w] = <<>>]
    /\ UNCHANGED <<ledgerVars, channel>>

NotifierNext ==
    \/ \E w \in Writers, d \in Deliveries : NoticeAccept(w, d)
    \/ \E w \in Writers, r \in Runs, e \in NoticeEvents : NoticeAppend(w, r, e)
    \/ NoticeRetire
    \/ \E a \in pending : Announce(a)
    \/ \E a \in pending, answer \in Replies : Attempt(a, answer)
    \/ \E w \in Writers : Restart(w)

NotifierSpec == NotifierInit /\ [][NotifierNext]_notifierVars

-----------------------------------------------------------------------------
(* Properties                                                              *)

\* A transition is announced once: whatever is replayed by whichever process,
\* evicted from its memory or lost with it (#317), nothing is told twice, a
\* second message of the same transition needs a first one whose answer was
\* lost, and the channel never says of a run what the ledger does not.
AnnouncedOnce ==
    \A n \in DOMAIN channel :
        /\ channel[n].told <= 1
        /\ channel[n].shown > 1 => channel[n].lost
        /\ channel[n].shown <= MaxAttempts
        /\ EventIsLogged(n.run, n.id)
        /\ n.kind \in Terminal => status[n.run] = n.kind
=============================================================================
